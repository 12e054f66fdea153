---------------------------- MODULE ParserProofs ----------------------------
(* For every set of vocabularies and every bound: the type invariant of the  *)
(* parser, and that its frames and the scopes of Sema always match.          *)
(*                                                                           *)
(* What is open is a sequence over the frames of the stack, so the lemmas on *)
(* flattened sequences say what a step does to it.  A step of the parser is  *)
(* of one of six kinds, by what it does to the frames and to the scopes      *)
(* (QuietStep, OpenStep, CloseStep, LeakStep, EndStep, SkipStep); a lemma    *)
(* per kind says that it keeps the invariant, and a lemma per parse function *)
(* says which kinds its steps are of.                                        *)
EXTENDS Parser, DataLemmas, TLAPS

\* The frames with scopes or contexts of their own; the frames of the two
\* loops that count; the others.
Loud == {"TU", "compound", "forEnd", "fnEnd", "classBody", "unnamedBody", "template"}
Skips == {"balanced", "nextDecl"}
Quiet == Frames \ Loud
Plain == Quiet \ Skips

Faults == {"none", "syntax", "meaning", "silent"}
ScopeKinds == {"TU", "class", "block", "control", "function", "params", "template"}
ContextKinds == {"TU", "class", "function"}

ScopesIn(s) == FlatMap([f \in Frames |-> ScopesOf(f)], s)
ContextsIn(s) == FlatMap([f \in Frames |-> ContextsOf(f)], s)

(* The inductive invariant.  The frame of the translation unit is at the     *)
(* bottom of the call stack and nowhere else, and the counters of a skipping *)
(* loop are zero outside it; within the skip of balanced delimiters they are *)
(* bounded by what the environment nests.                                    *)
TUAtBottom == \A i \in 1 .. Len(stack) : stack[i] = "TU" => i = Len(stack)
CountersAtRest ==
    /\ ~AtOne(Skips) => counter = 0
    /\ ~At("balanced") => parens = 0
    /\ At("balanced") =>
          /\ counter + parens <= MaxDepth + 1
          /\ Tok \in {"lbrace", "lparen"} => counter + parens <= MaxDepth
IInv == TypeOK /\ TUAtBottom /\ CountersAtRest /\ ScopesMatch

-----------------------------------------------------------------------------
LEMMA ScopesType == [f \in Frames |-> ScopesOf(f)] \in [Frames -> Seq(ScopeKinds)]
<1>1. <<"TU">> \in Seq(ScopeKinds) /\ <<"block">> \in Seq(ScopeKinds)
      /\ <<"control">> \in Seq(ScopeKinds) /\ <<"function">> \in Seq(ScopeKinds)
      /\ <<"class">> \in Seq(ScopeKinds) /\ <<"template", "params">> \in Seq(ScopeKinds)
      /\ <<>> \in Seq(ScopeKinds)
  BY DEF ScopeKinds
<1>2. \A f \in Frames : ScopesOf(f) \in Seq(ScopeKinds)
  BY <1>1 DEF ScopesOf
<1>. QED BY <1>2

LEMMA ContextsType == [f \in Frames |-> ContextsOf(f)] \in [Frames -> Seq(ContextKinds)]
<1>1. <<"TU">> \in Seq(ContextKinds) /\ <<"function">> \in Seq(ContextKinds)
      /\ <<"class">> \in Seq(ContextKinds) /\ <<>> \in Seq(ContextKinds)
  BY DEF ContextKinds
<1>2. \A f \in Frames : ContextsOf(f) \in Seq(ContextKinds)
  BY <1>1 DEF ContextsOf
<1>. QED BY <1>2

\* What the scopes of a stack are made of.
LEMMA ScopesInType ==
    ASSUME NEW s \in Seq(Frames)
    PROVE  ScopesIn(s) \in Seq(ScopeKinds) /\ ContextsIn(s) \in Seq(ContextKinds)
<1>1. ScopesIn(s) \in Seq(ScopeKinds)
  <2> DEFINE g == [f \in Frames |-> ScopesOf(f)]
  <2>1. g \in [Frames -> Seq(ScopeKinds)]
    BY ScopesType
  <2> HIDE DEF g
  <2>2. FlatMap(g, s) \in Seq(ScopeKinds)
    BY <2>1, FlatMapType
  <2>. QED BY <2>2 DEF g, ScopesIn
<1>2. ContextsIn(s) \in Seq(ContextKinds)
  <2> DEFINE g == [f \in Frames |-> ContextsOf(f)]
  <2>1. g \in [Frames -> Seq(ContextKinds)]
    BY ContextsType
  <2> HIDE DEF g
  <2>2. FlatMap(g, s) \in Seq(ContextKinds)
    BY <2>1, FlatMapType
  <2>. QED BY <2>2 DEF g, ContextsIn
<1>. QED BY <1>1, <1>2

LEMMA ScopesInConcat ==
    ASSUME NEW s \in Seq(Frames), NEW t \in Seq(Frames)
    PROVE  /\ ScopesIn(s \o t) = ScopesIn(s) \o ScopesIn(t)
           /\ ContextsIn(s \o t) = ContextsIn(s) \o ContextsIn(t)
<1>1. ScopesIn(s \o t) = ScopesIn(s) \o ScopesIn(t)
  <2> DEFINE g == [f \in Frames |-> ScopesOf(f)]
  <2>1. g \in [Frames -> Seq(ScopeKinds)]
    BY ScopesType
  <2> HIDE DEF g
  <2>2. FlatMap(g, s \o t) = FlatMap(g, s) \o FlatMap(g, t)
    BY <2>1, FlatMapConcat
  <2>. QED BY <2>2 DEF g, ScopesIn
<1>2. ContextsIn(s \o t) = ContextsIn(s) \o ContextsIn(t)
  <2> DEFINE g == [f \in Frames |-> ContextsOf(f)]
  <2>1. g \in [Frames -> Seq(ContextKinds)]
    BY ContextsType
  <2> HIDE DEF g
  <2>2. FlatMap(g, s \o t) = FlatMap(g, s) \o FlatMap(g, t)
    BY <2>1, FlatMapConcat
  <2>. QED BY <2>2 DEF g, ContextsIn
<1>. QED BY <1>1, <1>2

LEMMA ScopesInOne ==
    ASSUME NEW a \in Frames
    PROVE  ScopesIn(<<a>>) = ScopesOf(a) /\ ContextsIn(<<a>>) = ContextsOf(a)
<1>1. ScopesIn(<<a>>) = ScopesOf(a)
  <2> DEFINE g == [f \in Frames |-> ScopesOf(f)]
  <2>1. g \in [Frames -> Seq(ScopeKinds)] /\ g[a] = ScopesOf(a)
    BY ScopesType
  <2> HIDE DEF g
  <2>2. FlatMap(g, <<a>>) = g[a]
    BY <2>1, FlatMapOne
  <2>. QED BY <2>1, <2>2 DEF g, ScopesIn
<1>2. ContextsIn(<<a>>) = ContextsOf(a)
  <2> DEFINE g == [f \in Frames |-> ContextsOf(f)]
  <2>1. g \in [Frames -> Seq(ContextKinds)] /\ g[a] = ContextsOf(a)
    BY ContextsType
  <2> HIDE DEF g
  <2>2. FlatMap(g, <<a>>) = g[a]
    BY <2>1, FlatMapOne
  <2>. QED BY <2>1, <2>2 DEF g, ContextsIn
<1>. QED BY <1>1, <1>2

LEMMA QuietFrames ==
    ASSUME NEW f \in Quiet
    PROVE  f \in Frames /\ ScopesOf(f) = <<>> /\ ContextsOf(f) = <<>>
BY DEF Quiet, Loud, ScopesOf, ContextsOf

LEMMA ScopesInQuiet ==
    ASSUME NEW s \in Seq(Quiet)
    PROVE  s \in Seq(Frames) /\ ScopesIn(s) = <<>> /\ ContextsIn(s) = <<>>
<1>1. s \in Seq(Frames) /\ \A i \in 1 .. Len(s) : s[i] \in Quiet
  BY DEF Quiet
<1>2. ScopesIn(s) = <<>>
  <2> DEFINE g == [f \in Frames |-> ScopesOf(f)]
  <2>1. g \in [Frames -> Seq(ScopeKinds)]
    BY ScopesType
  <2>2. \A i \in 1 .. Len(s) : g[s[i]] = <<>>
    BY <1>1, QuietFrames
  <2> HIDE DEF g
  <2>3. FlatMap(g, s) = <<>>
    BY <1>1, <2>1, <2>2, FlatMapNothing
  <2>. QED BY <2>3 DEF g, ScopesIn
<1>3. ContextsIn(s) = <<>>
  <2> DEFINE g == [f \in Frames |-> ContextsOf(f)]
  <2>1. g \in [Frames -> Seq(ContextKinds)]
    BY ContextsType
  <2>2. \A i \in 1 .. Len(s) : g[s[i]] = <<>>
    BY <1>1, QuietFrames
  <2> HIDE DEF g
  <2>3. FlatMap(g, s) = <<>>
    BY <1>1, <2>1, <2>2, FlatMapNothing
  <2>. QED BY <2>3 DEF g, ContextsIn
<1>. QED BY <1>1, <1>2, <1>3

\* The variables of the model in these terms.
LEMMA OpenIs ==
    ASSUME TypeOK
    PROVE  OpenScopes = ScopesIn(stack) /\ OpenContexts = ContextsIn(stack)
<1>1. \A i \in DOMAIN stack : stack[i] \in Frames
  BY DEF TypeOK
<1>2. [i \in DOMAIN stack |-> ScopesOf(stack[i])] = Mapped([f \in Frames |-> ScopesOf(f)], stack)
  BY <1>1 DEF Mapped
<1>3. [i \in DOMAIN stack |-> ContextsOf(stack[i])] = Mapped([f \in Frames |-> ContextsOf(f)], stack)
  BY <1>1 DEF Mapped
<1>. QED BY <1>2, <1>3 DEF OpenScopes, OpenContexts, ScopesIn, ContextsIn, FlatMap

LEMMA OpenIsNext ==
    ASSUME TypeOK'
    PROVE  OpenScopes' = ScopesIn(stack') /\ OpenContexts' = ContextsIn(stack')
<1>1. \A i \in DOMAIN stack' : stack'[i] \in Frames
  BY DEF TypeOK
<1>2. [i \in DOMAIN stack' |-> ScopesOf(stack'[i])] = Mapped([f \in Frames |-> ScopesOf(f)], stack')
  BY <1>1 DEF Mapped
<1>3. [i \in DOMAIN stack' |-> ContextsOf(stack'[i])] = Mapped([f \in Frames |-> ContextsOf(f)], stack')
  BY <1>1 DEF Mapped
<1>. QED BY <1>2, <1>3 DEF OpenScopes, OpenContexts, ScopesIn, ContextsIn, FlatMap

\* What is open is what the innermost frame has open and then the others.
LEMMA HeadAndTail ==
    ASSUME NEW s \in Seq(Frames), s # <<>>
    PROVE  /\ Head(s) \in Frames /\ Tail(s) \in Seq(Frames) /\ s = <<Head(s)>> \o Tail(s)
           /\ ScopesIn(s) = ScopesOf(Head(s)) \o ScopesIn(Tail(s))
           /\ ContextsIn(s) = ContextsOf(Head(s)) \o ContextsIn(Tail(s))
<1> DEFINE h == Head(s)
           t == Tail(s)
<1>1. h \in Frames /\ t \in Seq(Frames) /\ s = <<h>> \o t /\ <<h>> \in Seq(Frames)
  OBVIOUS
<1> HIDE DEF h, t
<1>2. ScopesIn(<<h>> \o t) = ScopesIn(<<h>>) \o ScopesIn(t)
      /\ ContextsIn(<<h>> \o t) = ContextsIn(<<h>>) \o ContextsIn(t)
  BY <1>1, ScopesInConcat
<1>3. ScopesIn(<<h>>) = ScopesOf(h) /\ ContextsIn(<<h>>) = ContextsOf(h)
  BY <1>1, ScopesInOne
<1>. QED BY <1>1, <1>2, <1>3 DEF h, t

-----------------------------------------------------------------------------
(* The steps of the parser, by what they do to the frames and the scopes.    *)

\* Sema is left alone, no error or more is counted, and no loop skips tokens.
Mild ==
    /\ Tok' \in Kinds /\ moved' \in BOOLEAN /\ UNCHANGED <<vocabulary, skipping>>
    /\ ConsecutiveErrors' \in 0 .. AggressiveAt /\ fault' \in Faults

Plainly == Mild /\ stack # <<>> /\ Head(stack) \notin Skips /\ ret' \in Values

QuietStep ==
    /\ Plainly /\ UNCHANGED sema
    /\ \E fs \in Seq(Quiet) : \/ Head(stack) \notin Loud /\ stack' = fs \o Tail(stack)
                              \/ stack' = fs \o stack

OpenStep ==
    /\ Plainly /\ Head(stack) \notin Loud /\ UNCHANGED leaked
    /\ \E fs \in Seq(Frames \ {"TU"}) :
          /\ stack' = fs \o Tail(stack)
          /\ scopes' = ScopesIn(fs) \o scopes
          /\ contexts' = ContextsIn(fs) \o contexts

CloseStep ==
    /\ Plainly /\ Head(stack) # "TU" /\ stack' = Tail(stack) /\ UNCHANGED leaked
    /\ scopes' = SubSeq(scopes, Len(ScopesOf(Head(stack))) + 1, Len(scopes))
    /\ contexts' = SubSeq(contexts, Len(ContextsOf(Head(stack))) + 1, Len(contexts))

LeakStep ==
    /\ Plainly /\ Head(stack) = "template" /\ stack' = Tail(stack)
    /\ leaked' = leaked + 1 /\ UNCHANGED <<scopes, contexts>>

EndStep == Plainly /\ Head(stack) = "TU" /\ stack' = Tail(stack) /\ UNCHANGED sema

-----------------------------------------------------------------------------
LEMMA MildPart ==
    ASSUME IInv, Plainly
    PROVE  /\ counter = 0 /\ parens = 0 /\ counter' = 0 /\ parens' = 0
           /\ Tok' \in Kinds /\ vocabulary' \in Vocabularies /\ ret' \in Values
           /\ ConsecutiveErrors' \in 0 .. AggressiveAt /\ fault' \in Faults /\ moved' \in BOOLEAN
           /\ CountersAtRest'
<1>1. counter = 0 /\ parens = 0
  BY DEF IInv, CountersAtRest, Plainly, AtOne, At, Skips
<1>2. counter' = 0 /\ parens' = 0
  BY <1>1 DEF Plainly, Mild, skipping
<1>3. MaxDepth \in Nat
  BY BoundsAssumption
<1>4. CountersAtRest'
  BY <1>2, <1>3 DEF CountersAtRest
<1>. QED BY <1>1, <1>2, <1>4 DEF Plainly, Mild, IInv, TypeOK

LEMMA TypeNext ==
    ASSUME IInv, Plainly, stack' \in Seq(Frames), scopes' \in Seq(ScopeKinds),
           contexts' \in Seq(ContextKinds), leaked' \in Nat
    PROVE  TypeOK'
<1>1. MaxDepth \in Nat /\ MaxSkipTokens \in Nat
  BY BoundsAssumption
<1>. QED BY <1>1, MildPart DEF TypeOK, Faults, ScopeKinds, ContextKinds

LEMMA TailAt ==
    ASSUME NEW S, NEW s \in Seq(S), s # <<>>, NEW i \in 1 .. Len(Tail(s))
    PROVE  /\ Len(s) \in Nat /\ i \in Nat /\ Len(Tail(s)) = Len(s) - 1
           /\ i + 1 \in 1 .. Len(s) /\ Tail(s)[i] = s[i + 1]
OBVIOUS

LEMMA LenConcat ==
    ASSUME NEW S, NEW x \in Seq(S), NEW y \in Seq(S)
    PROVE  /\ Len(x \o y) = Len(x) + Len(y) /\ Len(x) \in Nat /\ Len(y) \in Nat
OBVIOUS

LEMMA BottomNext ==
    ASSUME TypeOK, TUAtBottom, stack # <<>>, NEW fs \in Seq(Frames \ {"TU"}),
           stack' = fs \o Tail(stack) \/ stack' = fs \o stack
    PROVE  TUAtBottom'
<1>1. fs \in Seq(Frames) /\ \A i \in 1 .. Len(fs) : fs[i] # "TU"
  OBVIOUS
<1>2. stack \in Seq(Frames) /\ \A i \in 1 .. Len(stack) : stack[i] = "TU" => i = Len(stack)
  BY DEF TypeOK, TUAtBottom
<1>3. ASSUME NEW s \in Seq(Frames), stack' = fs \o s,
             \A i \in 1 .. Len(s) : s[i] = "TU" => i = Len(s)
      PROVE  TUAtBottom'
  <2>1. ASSUME NEW i \in 1 .. Len(fs \o s), (fs \o s)[i] = "TU" PROVE i = Len(fs \o s)
    <3>1. CASE i <= Len(fs)
      BY <1>1, <2>1, <3>1
    <3>2. CASE i > Len(fs)
      <4>1. i - Len(fs) \in 1 .. Len(s) /\ (fs \o s)[i] = s[i - Len(fs)]
        BY <1>1, <2>1, <3>2
      <4>2. i - Len(fs) = Len(s)
        BY <1>3, <2>1, <4>1
      <4>. QED BY <1>1, <2>1, <4>2
    <3>. QED BY <1>1, <2>1, <3>1, <3>2
  <2>. QED BY <1>3, <2>1 DEF TUAtBottom
<1>4. Tail(stack) \in Seq(Frames)
  BY <1>2
<1>5. ASSUME NEW i \in 1 .. Len(Tail(stack)), Tail(stack)[i] = "TU" PROVE i = Len(Tail(stack))
  <2>1. /\ Len(stack) \in Nat /\ i \in Nat /\ Len(Tail(stack)) = Len(stack) - 1
        /\ i + 1 \in 1 .. Len(stack) /\ Tail(stack)[i] = stack[i + 1]
    BY <1>2, TailAt
  <2>2. i + 1 = Len(stack)
    BY <1>2, <1>5, <2>1
  <2> DEFINE n == Len(stack)
             m == Len(Tail(stack))
  <2>3. n \in Nat /\ i \in Nat /\ m = n - 1 /\ i + 1 = n
    BY <2>1, <2>2
  <2> HIDE DEF n, m
  <2>4. i = m
    BY <2>3
  <2>. QED BY <2>4 DEF m
<1>. QED BY <1>2, <1>3, <1>4, <1>5

\* The invariant in terms of the frames of the stack.
LEMMA Matching ==
    ASSUME IInv, stack # <<>>
    PROVE  /\ stack \in Seq(Frames) /\ scopes \in Seq(ScopeKinds)
           /\ contexts \in Seq(ContextKinds) /\ leaked \in Nat
           /\ contexts = ContextsIn(stack)
           /\ leaked = 0 => scopes = ScopesIn(stack)
           /\ Len(scopes) = Len(ScopesIn(stack)) + 2 * leaked
BY OpenIs DEF IInv, TypeOK, ScopesMatch, ScopeKinds, ContextKinds

LEMMA MatchNext ==
    ASSUME TypeOK', contexts' = ContextsIn(stack'), leaked' = 0 => scopes' = ScopesIn(stack'),
           Len(scopes') = Len(ScopesIn(stack')) + 2 * leaked'
    PROVE  ScopesMatch'
BY OpenIsNext DEF ScopesMatch

\* Quiet frames on top of the stack open nothing.
LEMMA QuietOnTop ==
    ASSUME NEW fs \in Seq(Quiet), NEW s \in Seq(Frames)
    PROVE  /\ fs \o s \in Seq(Frames)
           /\ ScopesIn(fs \o s) = ScopesIn(s) /\ ContextsIn(fs \o s) = ContextsIn(s)
<1>1. fs \in Seq(Frames) /\ ScopesIn(fs) = <<>> /\ ContextsIn(fs) = <<>>
  BY ScopesInQuiet
<1>2. ScopesIn(s) \in Seq(ScopeKinds) /\ ContextsIn(s) \in Seq(ContextKinds)
  BY ScopesInType
<1>3. ScopesIn(fs \o s) = <<>> \o ScopesIn(s) /\ ContextsIn(fs \o s) = <<>> \o ContextsIn(s)
  BY <1>1, ScopesInConcat
<1>4. <<>> \o ScopesIn(s) = ScopesIn(s) /\ <<>> \o ContextsIn(s) = ContextsIn(s)
  <2> DEFINE x == ScopesIn(s)
             y == ContextsIn(s)
  <2>1. x \in Seq(ScopeKinds) /\ y \in Seq(ContextKinds)
    BY <1>2
  <2> HIDE DEF x, y
  <2>2. <<>> \o x = x /\ <<>> \o y = y
    BY <2>1
  <2>. QED BY <2>2 DEF x, y
<1>5. fs \o s \in Seq(Frames)
  BY <1>1
<1>. QED BY <1>3, <1>4, <1>5

\* A step that puts quiet frames on the stack, or in place of a quiet one.
LEMMA QuietMove ==
    ASSUME IInv, stack # <<>>, UNCHANGED sema, NEW fs \in Seq(Quiet),
           (Head(stack) \notin Loud /\ stack' = fs \o Tail(stack)) \/ stack' = fs \o stack
    PROVE  /\ stack' \in Seq(Frames) /\ scopes' \in Seq(ScopeKinds)
           /\ contexts' \in Seq(ContextKinds) /\ leaked' \in Nat
           /\ TUAtBottom' /\ (TypeOK' => ScopesMatch')
<1>1. /\ stack \in Seq(Frames) /\ scopes \in Seq(ScopeKinds)
      /\ contexts \in Seq(ContextKinds) /\ leaked \in Nat
      /\ contexts = ContextsIn(stack)
      /\ leaked = 0 => scopes = ScopesIn(stack)
      /\ Len(scopes) = Len(ScopesIn(stack)) + 2 * leaked
  BY Matching
<1>2. /\ stack' \in Seq(Frames)
      /\ ScopesIn(stack') = ScopesIn(stack) /\ ContextsIn(stack') = ContextsIn(stack)
  <2>1. CASE stack' = fs \o stack
    BY <1>1, <2>1, QuietOnTop
  <2>2. CASE Head(stack) \notin Loud /\ stack' = fs \o Tail(stack)
    <3>1. Head(stack) \in Frames /\ Tail(stack) \in Seq(Frames) /\ <<Head(stack)>> \in Seq(Quiet)
          /\ stack = <<Head(stack)>> \o Tail(stack)
      BY <1>1, <2>2, HeadAndTail DEF Quiet
    <3>2. ScopesIn(stack) = ScopesIn(Tail(stack)) /\ ContextsIn(stack) = ContextsIn(Tail(stack))
      BY <3>1, QuietOnTop
    <3>. QED BY <2>2, <3>1, <3>2, QuietOnTop
  <2>. QED BY <2>1, <2>2
<1>3. scopes' = scopes /\ contexts' = contexts /\ leaked' = leaked
  BY DEF sema
<1>4. TUAtBottom'
  <2>1. fs \in Seq(Frames \ {"TU"})
    BY DEF Quiet, Loud
  <2>. QED BY <2>1, BottomNext DEF IInv
<1>5. TypeOK' => ScopesMatch'
  BY <1>1, <1>2, <1>3, MatchNext
<1>. QED BY <1>1, <1>2, <1>3, <1>4, <1>5

LEMMA QuietKeeps == IInv /\ QuietStep => IInv'
<1> SUFFICES ASSUME IInv, QuietStep PROVE IInv'
  OBVIOUS
<1>1. PICK fs \in Seq(Quiet) : \/ Head(stack) \notin Loud /\ stack' = fs \o Tail(stack)
                               \/ stack' = fs \o stack
  BY DEF QuietStep
<1>2. stack # <<>> /\ Plainly /\ UNCHANGED sema
  BY DEF QuietStep, Plainly
<1>3. /\ stack' \in Seq(Frames) /\ scopes' \in Seq(ScopeKinds)
      /\ contexts' \in Seq(ContextKinds) /\ leaked' \in Nat
      /\ TUAtBottom' /\ (TypeOK' => ScopesMatch')
  BY <1>1, <1>2, QuietMove
<1>4. TypeOK'
  BY <1>2, <1>3, TypeNext
<1>. QED BY <1>2, <1>3, <1>4, MildPart DEF IInv

\* Lengths, and what is left when what was put in front is taken away.
LEMMA DropFront ==
    ASSUME NEW S, NEW x \in Seq(S), NEW y \in Seq(S)
    PROVE  SubSeq(x \o y, Len(x) + 1, Len(x \o y)) = y
OBVIOUS

LEMMA DropLength ==
    ASSUME NEW S, NEW x \in Seq(S), NEW n \in Nat, n <= Len(x)
    PROVE  SubSeq(x, n + 1, Len(x)) \in Seq(S) /\ Len(SubSeq(x, n + 1, Len(x))) = Len(x) - n
OBVIOUS

LEMMA OpenKeeps == IInv /\ OpenStep => IInv'
<1> SUFFICES ASSUME IInv, OpenStep PROVE IInv'
  OBVIOUS
<1>1. PICK fs \in Seq(Frames \ {"TU"}) :
          /\ stack' = fs \o Tail(stack)
          /\ scopes' = ScopesIn(fs) \o scopes
          /\ contexts' = ContextsIn(fs) \o contexts
  BY DEF OpenStep
<1>2. stack # <<>> /\ Plainly /\ leaked' = leaked /\ Head(stack) \notin Loud
  BY DEF OpenStep, Plainly
<1>3. /\ stack \in Seq(Frames) /\ scopes \in Seq(ScopeKinds)
      /\ contexts \in Seq(ContextKinds) /\ leaked \in Nat
      /\ contexts = ContextsIn(stack)
      /\ leaked = 0 => scopes = ScopesIn(stack)
      /\ Len(scopes) = Len(ScopesIn(stack)) + 2 * leaked
  BY <1>2, Matching
<1> DEFINE s == Tail(stack)
           x == ScopesIn(fs)
           y == ScopesIn(s)
<1>4. /\ s \in Seq(Frames) /\ fs \in Seq(Frames) /\ stack' \in Seq(Frames)
      /\ ScopesIn(stack) = y /\ ContextsIn(stack) = ContextsIn(s)
  <2>1. Head(stack) \in Frames /\ s \in Seq(Frames) /\ <<Head(stack)>> \in Seq(Quiet)
        /\ stack = <<Head(stack)>> \o s
    BY <1>2, <1>3, HeadAndTail DEF Quiet
  <2>2. ScopesIn(stack) = y /\ ContextsIn(stack) = ContextsIn(s)
    <3> HIDE DEF s
    <3>. QED BY <2>1, QuietOnTop
  <2>3. fs \in Seq(Frames)
    OBVIOUS
  <2>. QED BY <1>1, <2>1, <2>2, <2>3
<1>5. ScopesIn(stack') = x \o y /\ ContextsIn(stack') = ContextsIn(fs) \o ContextsIn(s)
  <2> HIDE DEF s
  <2>. QED BY <1>1, <1>4, ScopesInConcat DEF s
<1>6. x \in Seq(ScopeKinds) /\ y \in Seq(ScopeKinds) /\ ContextsIn(fs) \in Seq(ContextKinds)
  BY <1>4, ScopesInType
<1>7. TypeOK'
  <2>1. scopes' \in Seq(ScopeKinds) /\ contexts' \in Seq(ContextKinds)
    <3> HIDE DEF x
    <3>1. scopes' = x \o scopes
      BY <1>1 DEF x
    <3>2. scopes' \in Seq(ScopeKinds)
      BY <1>3, <1>6, <3>1
    <3>. QED BY <1>1, <1>3, <1>6, <3>2
  <2>. QED BY <1>2, <1>3, <1>4, <2>1, TypeNext
<1>8. TUAtBottom'
  BY <1>1, <1>2, BottomNext DEF IInv
<1>9. ScopesMatch'
  <2>1. contexts' = ContextsIn(stack')
    BY <1>1, <1>3, <1>4, <1>5
  <2>2. leaked' = 0 => scopes' = ScopesIn(stack')
    BY <1>1, <1>2, <1>3, <1>4, <1>5
  <2>3. Len(scopes') = Len(ScopesIn(stack')) + 2 * leaked'
    <3> HIDE DEF x, y
    <3>1. scopes' = x \o scopes /\ ScopesIn(stack') = x \o y /\ Len(scopes) = Len(y) + 2 * leaked
      BY <1>1, <1>3, <1>4, <1>5 DEF x
    <3>2. Len(x \o scopes) = Len(x) + Len(scopes) /\ Len(x) \in Nat /\ Len(scopes) \in Nat
      BY <1>3, <1>6, LenConcat
    <3>3. Len(x \o y) = Len(x) + Len(y) /\ Len(y) \in Nat
      BY <1>6, LenConcat
    <3>. QED BY <1>2, <1>3, <3>1, <3>2, <3>3
  <2>. QED BY <1>7, <2>1, <2>2, <2>3, MatchNext
<1>. QED BY <1>2, <1>7, <1>8, <1>9, MildPart DEF IInv

\* The innermost frame ends: nothing is left of it.
LEMMA PopKeepsFrames ==
    ASSUME IInv, Plainly, stack' = Tail(stack)
    PROVE  /\ stack' \in Seq(Frames) /\ TUAtBottom' /\ Head(stack) \in Frames
           /\ ScopesIn(stack) = ScopesOf(Head(stack)) \o ScopesIn(stack')
           /\ ContextsIn(stack) = ContextsOf(Head(stack)) \o ContextsIn(stack')
<1>1. stack # <<>> /\ stack \in Seq(Frames)
  BY Matching DEF Plainly
<1>2. <<>> \in Seq(Frames \ {"TU"}) /\ stack' = <<>> \o Tail(stack)
  BY <1>1
<1>3. TUAtBottom'
  <2> DEFINE fs == <<>>
  <2>1. fs \in Seq(Frames \ {"TU"}) /\ stack' = fs \o Tail(stack)
    BY <1>2
  <2> HIDE DEF fs
  <2>. QED BY <1>1, <2>1, BottomNext DEF IInv
<1>. QED BY <1>1, <1>3, HeadAndTail

LEMMA CloseKeeps == IInv /\ CloseStep => IInv'
<1> SUFFICES ASSUME IInv, CloseStep PROVE IInv'
  OBVIOUS
<1> DEFINE h == Head(stack)
           x == ScopesOf(h)
           y == ScopesIn(stack')
           u == ContextsOf(h)
           v == ContextsIn(stack')
<1>1. stack # <<>> /\ Plainly /\ leaked' = leaked /\ stack' = Tail(stack)
  BY DEF CloseStep, Plainly
<1>2. scopes' = SubSeq(scopes, Len(x) + 1, Len(scopes))
      /\ contexts' = SubSeq(contexts, Len(u) + 1, Len(contexts))
  BY DEF CloseStep
<1>3. /\ scopes \in Seq(ScopeKinds) /\ contexts \in Seq(ContextKinds) /\ leaked \in Nat
      /\ contexts = ContextsIn(stack)
      /\ leaked = 0 => scopes = ScopesIn(stack)
      /\ Len(scopes) = Len(ScopesIn(stack)) + 2 * leaked
  BY <1>1, Matching
<1>4. /\ stack' \in Seq(Frames) /\ TUAtBottom' /\ h \in Frames
      /\ ScopesIn(stack) = x \o y /\ ContextsIn(stack) = u \o v
  BY <1>1, PopKeepsFrames
<1>5. x \in Seq(ScopeKinds) /\ u \in Seq(ContextKinds)
  BY <1>4, ScopesType, ContextsType
<1>6. y \in Seq(ScopeKinds) /\ v \in Seq(ContextKinds)
  BY <1>4, ScopesInType
<1> HIDE DEF x, y, u, v
<1>7. contexts' = v
  BY <1>2, <1>3, <1>4, <1>5, <1>6, DropFront
<1>8. leaked = 0 => scopes' = y
  BY <1>2, <1>3, <1>4, <1>5, <1>6, DropFront
<1>9. Len(scopes') = Len(y) + 2 * leaked /\ scopes' \in Seq(ScopeKinds)
  <2>1. Len(scopes) = Len(x) + Len(y) + 2 * leaked /\ Len(x) \in Nat /\ Len(y) \in Nat
    <3>1. Len(x \o y) = Len(x) + Len(y) /\ Len(x) \in Nat /\ Len(y) \in Nat
      BY <1>5, <1>6, LenConcat
    <3>. QED BY <1>3, <1>4, <3>1
  <2>2. Len(x) <= Len(scopes)
    BY <1>3, <2>1
  <2>3. Len(scopes') = Len(scopes) - Len(x) /\ scopes' \in Seq(ScopeKinds)
    BY <1>2, <1>3, <2>1, <2>2, DropLength
  <2>. QED BY <1>3, <2>1, <2>3
<1>10. TypeOK'
  BY <1>1, <1>3, <1>4, <1>6, <1>7, <1>9, TypeNext
<1>11. ScopesMatch'
  BY <1>1, <1>7, <1>8, <1>9, <1>10, MatchNext DEF v, y
<1>. QED BY <1>1, <1>4, <1>10, <1>11, MildPart DEF IInv

LEMMA LeakKeeps == IInv /\ LeakStep => IInv'
<1> SUFFICES ASSUME IInv, LeakStep PROVE IInv'
  OBVIOUS
<1> DEFINE y == ScopesIn(stack')
           v == ContextsIn(stack')
<1>1. /\ stack # <<>> /\ Plainly /\ stack' = Tail(stack) /\ Head(stack) = "template"
      /\ leaked' = leaked + 1 /\ scopes' = scopes /\ contexts' = contexts
  BY DEF LeakStep, Plainly
<1>2. /\ scopes \in Seq(ScopeKinds) /\ contexts \in Seq(ContextKinds) /\ leaked \in Nat
      /\ contexts = ContextsIn(stack)
      /\ Len(scopes) = Len(ScopesIn(stack)) + 2 * leaked
  BY <1>1, Matching
<1>3. /\ stack' \in Seq(Frames) /\ TUAtBottom'
      /\ ScopesIn(stack) = <<"template", "params">> \o y /\ ContextsIn(stack) = <<>> \o v
  <2>1. ScopesOf("template") = <<"template", "params">> /\ ContextsOf("template") = <<>>
    BY DEF ScopesOf, ContextsOf
  <2>. QED BY <1>1, <2>1, PopKeepsFrames
<1>4. y \in Seq(ScopeKinds) /\ v \in Seq(ContextKinds)
  BY <1>3, ScopesInType
<1> HIDE DEF y, v
<1>5. contexts' = v
  BY <1>1, <1>2, <1>3, <1>4
<1>6. Len(scopes') = Len(y) + 2 * leaked'
  <2>1. Len(<<"template", "params">> \o y) = 2 + Len(y) /\ Len(y) \in Nat
    <3> DEFINE t == <<"template", "params">>
    <3>1. t \in Seq(ScopeKinds) /\ Len(t) = 2
      BY DEF ScopeKinds
    <3> HIDE DEF t
    <3>2. Len(t \o y) = Len(t) + Len(y) /\ Len(y) \in Nat
      BY <1>4, <3>1, LenConcat
    <3>. QED BY <3>1, <3>2 DEF t
  <2>. QED BY <1>1, <1>2, <1>3, <2>1
<1>7. TypeOK'
  BY <1>1, <1>2, <1>3, TypeNext
<1>8. ScopesMatch'
  <2>1. leaked' # 0
    BY <1>1, <1>2
  <2>2. contexts' = ContextsIn(stack') /\ Len(scopes') = Len(ScopesIn(stack')) + 2 * leaked'
    BY <1>5, <1>6 DEF v, y
  <2>. QED BY <1>7, <2>1, <2>2, MatchNext
<1>. QED BY <1>1, <1>3, <1>7, <1>8, MildPart DEF IInv

LEMMA EndKeeps == IInv /\ EndStep => IInv'
<1> SUFFICES ASSUME IInv, EndStep PROVE IInv'
  OBVIOUS
<1>1. /\ stack # <<>> /\ Plainly /\ stack' = Tail(stack) /\ Head(stack) = "TU"
      /\ leaked' = leaked /\ scopes' = scopes /\ contexts' = contexts
  BY DEF EndStep, Plainly, sema
<1>2. stack' \in Seq(Frames) /\ TUAtBottom'
  BY <1>1, PopKeepsFrames
<1>3. stack' = <<>>
  <2>1. stack \in Seq(Frames) /\ Len(stack) >= 1 /\ stack[1] = "TU"
    BY <1>1, Matching
  <2>2. Len(stack) = 1
    <3>1. 1 \in 1 .. Len(stack)
      BY <2>1
    <3>. QED BY <2>1, <3>1 DEF IInv, TUAtBottom
  <2>. QED BY <1>1, <2>1, <2>2
<1>4. TypeOK'
  <2>1. scopes \in Seq(ScopeKinds) /\ contexts \in Seq(ContextKinds) /\ leaked \in Nat
    BY <1>1, Matching
  <2>. QED BY <1>1, <1>2, <2>1, TypeNext
<1>5. ScopesMatch'
  BY <1>3 DEF ScopesMatch
<1>. QED BY <1>1, <1>2, <1>4, <1>5, MildPart DEF IInv

-----------------------------------------------------------------------------
(* The loops that skip tokens and count. *)

LEMMA Consumed ==
    ASSUME TypeOK, consumeToken
    PROVE  Tok' \in Kinds /\ moved' \in BOOLEAN /\ vocabulary' = vocabulary
<1>1. vocabulary.kinds \subseteq Kinds
  BY BoundsAssumption DEF TypeOK
<1>2. Supply \subseteq Kinds
  BY <1>1 DEF Supply, Kinds
<1>. QED BY <1>2 DEF consumeToken

LEMMA Kept ==
    ASSUME TypeOK, KeepToken
    PROVE  Tok' \in Kinds /\ moved' \in BOOLEAN /\ vocabulary' = vocabulary
BY DEF KeepToken, TypeOK

\* A loop that counts goes on, or ends with its counters at 0.
SkipStep ==
    /\ stack # <<>> /\ Head(stack) \in Skips /\ UNCHANGED <<vocabulary, errors, sema>>
    /\ Tok' \in Kinds /\ moved' \in BOOLEAN /\ ret' \in Values
    /\ \/ /\ \E fs \in Seq(Quiet) : stack' = fs \o Tail(stack)
          /\ counter' = 0 /\ parens' = 0
       \/ /\ stack' = stack
          /\ counter' \in 0 .. IF At("nextDecl") THEN MaxSkipTokens ELSE MaxDepth + 2
          /\ parens' \in 0 .. MaxDepth + 1
          /\ ~At("balanced") => parens' = 0
          /\ At("balanced") =>
                /\ counter' + parens' <= MaxDepth + 1
                /\ Tok' \in {"lbrace", "lparen"} => counter' + parens' <= MaxDepth

LEMMA SkipKeeps == IInv /\ SkipStep => IInv'
<1> SUFFICES ASSUME IInv, SkipStep PROVE IInv'
  OBVIOUS
<1>1. PICK fs \in Seq(Quiet) : \/ stack' = fs \o Tail(stack) /\ counter' = 0 /\ parens' = 0
                               \/ stack' = fs \o stack /\ stack' = stack
  <2>1. CASE stack' = stack
    <3> DEFINE e == <<>>
    <3>1. e \in Seq(Quiet)
      OBVIOUS
    <3>2. e \o stack = stack
      BY DEF IInv, TypeOK
    <3>. QED BY <2>1, <3>1, <3>2
  <2>. QED BY <2>1 DEF SkipStep
<1>2. stack # <<>> /\ Head(stack) \in Skips /\ Head(stack) \notin Loud /\ UNCHANGED sema
  BY DEF SkipStep, Skips, Loud
<1>3. /\ stack' \in Seq(Frames) /\ scopes' \in Seq(ScopeKinds)
      /\ contexts' \in Seq(ContextKinds) /\ leaked' \in Nat
      /\ TUAtBottom' /\ (TypeOK' => ScopesMatch')
  BY <1>1, <1>2, QuietMove
<1>4. MaxDepth \in Nat /\ MaxSkipTokens \in Nat
  BY BoundsAssumption
<1>5. CountersAtRest' /\ parens' \in 0 .. MaxDepth + 1
      /\ counter' \in 0 .. IF At("nextDecl")' THEN MaxSkipTokens ELSE MaxDepth + 2
  <2>1. CASE counter' = 0 /\ parens' = 0
    BY <1>4, <2>1 DEF CountersAtRest
  <2>2. CASE stack' = stack
    <3>1. At("nextDecl")' = At("nextDecl") /\ At("balanced")' = At("balanced") /\ AtOne(Skips)'
      BY <1>2, <2>2 DEF At, AtOne
    <3>2. CASE counter' = 0 /\ parens' = 0
      BY <2>1, <3>2
    <3>3. CASE ~(counter' = 0 /\ parens' = 0)
      BY <2>2, <3>1, <3>3 DEF SkipStep, CountersAtRest
    <3>. QED BY <3>2, <3>3
  <2>. QED BY <1>1, <2>1, <2>2
<1>6. TypeOK'
  BY <1>3, <1>5 DEF SkipStep, errors, IInv, TypeOK, ScopeKinds, ContextKinds
<1>. QED BY <1>3, <1>5, <1>6 DEF IInv

LEMMA BalancedSkips == ASSUME IInv, skipUntilBalanced PROVE SkipStep
<1>1. stack # <<>> /\ Head(stack) = "balanced" /\ UNCHANGED <<errors, sema>>
  BY DEF skipUntilBalanced, At
<1>2. /\ TypeOK /\ At("balanced") /\ ~At("nextDecl") /\ "balanced" \in Skips
      /\ counter \in Nat /\ parens \in Nat /\ counter + parens <= MaxDepth + 1
      /\ Tok \in {"lbrace", "lparen"} => counter + parens <= MaxDepth
  BY <1>1 DEF IInv, TypeOK, CountersAtRest, At, Skips
<1>3. MaxDepth \in Nat /\ vocabulary \in Vocabularies
  BY BoundsAssumption, <1>2 DEF TypeOK
<1>4. ASSUME consumeToken, Tok # "eof", Tok' \in {"lbrace", "lparen"}
      PROVE  counter + parens < MaxDepth
  BY <1>2, <1>3, <1>4 DEF consumeToken, Supply, Deep, Opening
<1>5. CASE /\ Tok \in {"lbrace", "rbrace"} /\ (Tok = "rbrace" => counter > 0)
           /\ counter' = IF Tok = "lbrace" THEN counter + 1 ELSE counter - 1
           /\ Stay /\ consumeToken /\ UNCHANGED parens
  <2>1. stack' = stack /\ ret' \in Values
    BY <1>2, <1>5 DEF Stay, control, TypeOK
  <2>2. /\ counter' \in 0 .. MaxDepth + 2 /\ parens' \in 0 .. MaxDepth + 1
        /\ counter' + parens' <= MaxDepth + 1
        /\ Tok' \in {"lbrace", "lparen"} => counter' + parens' <= MaxDepth
    BY <1>2, <1>3, <1>4, <1>5
  <2>3. Tok' \in Kinds /\ moved' \in BOOLEAN /\ vocabulary' = vocabulary
    BY <1>2, <1>5, Consumed
  <2>. QED BY <1>1, <1>2, <2>1, <2>2, <2>3 DEF SkipStep
<1>6. CASE /\ Tok \in {"lparen", "rparen"} /\ (Tok = "rparen" => parens > 0)
           /\ parens' = IF Tok = "lparen" THEN parens + 1 ELSE parens - 1
           /\ Stay /\ consumeToken /\ UNCHANGED counter
  <2>1. stack' = stack /\ ret' \in Values
    BY <1>2, <1>6 DEF Stay, control, TypeOK
  <2>2. /\ counter' \in 0 .. MaxDepth + 2 /\ parens' \in 0 .. MaxDepth + 1
        /\ counter' + parens' <= MaxDepth + 1
        /\ Tok' \in {"lbrace", "lparen"} => counter' + parens' <= MaxDepth
    BY <1>2, <1>3, <1>4, <1>6
  <2>3. Tok' \in Kinds /\ moved' \in BOOLEAN /\ vocabulary' = vocabulary
    BY <1>2, <1>6, Consumed
  <2>. QED BY <1>1, <1>2, <2>1, <2>2, <2>3 DEF SkipStep
<1>7. CASE /\ Tok \notin {"lbrace", "rbrace", "lparen", "rparen", "eof"}
           /\ Stay /\ consumeToken /\ UNCHANGED skipping
  <2>1. stack' = stack /\ ret' \in Values /\ counter' = counter /\ parens' = parens
    BY <1>2, <1>7 DEF Stay, control, TypeOK, skipping
  <2>2. /\ counter' \in 0 .. MaxDepth + 2 /\ parens' \in 0 .. MaxDepth + 1
        /\ counter' + parens' <= MaxDepth + 1
        /\ Tok' \in {"lbrace", "lparen"} => counter' + parens' <= MaxDepth
    BY <1>2, <1>3, <1>4, <1>7, <2>1
  <2>3. Tok' \in Kinds /\ moved' \in BOOLEAN /\ vocabulary' = vocabulary
    BY <1>2, <1>7, Consumed
  <2>. QED BY <1>1, <1>2, <2>1, <2>2, <2>3 DEF SkipStep
<1>8. CASE Return("none") /\ KeepToken /\ counter' = 0 /\ parens' = 0
  <2> DEFINE e == <<>>
  <2>1. e \in Seq(Quiet) /\ stack' = e \o Tail(stack) /\ ret' \in Values
    BY <1>1, <1>2, <1>8 DEF Return, Values, TypeOK
  <2>2. Tok' \in Kinds /\ moved' \in BOOLEAN /\ vocabulary' = vocabulary
    BY <1>2, <1>8, Kept
  <2> HIDE DEF e
  <2>. QED BY <1>1, <1>2, <1>8, <2>1, <2>2 DEF SkipStep
<1>. QED BY <1>5, <1>6, <1>7, <1>8 DEF skipUntilBalanced

\* The five ways on of the loop of skipUntilNextDeclaration.
CountingSkips ==
    /\ At("nextDecl") /\ UNCHANGED <<errors, sema, parens>>
    /\ \/ Return("none") /\ KeepToken /\ counter' = 0
       \/ Return("none") /\ consumeToken /\ counter' = 0
       \/ Continue(<<"balanced", "nextDecl.block">>) /\ consumeToken /\ counter' = 0
       \/ (\E n \in {1, 2} : CountSkipped(n)) /\ Stay /\ consumeToken
       \/ Continue(<<"far">>) /\ KeepToken /\ counter' = 0

LEMMA CountingIsSkip == ASSUME IInv, CountingSkips PROVE SkipStep
<1>1. stack # <<>> /\ Head(stack) = "nextDecl" /\ UNCHANGED <<errors, sema>> /\ parens' = parens
  BY DEF CountingSkips, At
<1>2. /\ TypeOK /\ At("nextDecl") /\ ~At("balanced") /\ "nextDecl" \in Skips
      /\ parens = 0 /\ counter \in 0 .. MaxSkipTokens
  BY <1>1 DEF IInv, TypeOK, CountersAtRest, At, Skips
<1>3. MaxDepth \in Nat /\ MaxSkipTokens \in Nat
  BY BoundsAssumption
<1>4. Tok' \in Kinds /\ moved' \in BOOLEAN /\ vocabulary' = vocabulary
  BY <1>2, Consumed, Kept DEF CountingSkips
<1>5. ASSUME NEW fs \in Seq(Quiet), stack' = fs \o Tail(stack), counter' = 0, ret' = "none"
      PROVE  SkipStep
  BY <1>1, <1>2, <1>4, <1>5 DEF SkipStep, Values
<1>6. CASE Return("none") /\ counter' = 0
  <2> DEFINE e == <<>>
  <2>1. e \in Seq(Quiet) /\ stack' = e \o Tail(stack) /\ ret' = "none"
    BY <1>1, <1>2, <1>6 DEF Return, TypeOK
  <2> HIDE DEF e
  <2>. QED BY <1>5, <1>6, <2>1
<1>7. CASE Continue(<<"balanced", "nextDecl.block">>) /\ counter' = 0
  <2> DEFINE e == <<"balanced", "nextDecl.block">>
  <2>1. e \in Seq(Quiet)
    BY DEF Quiet, Loud, Frames, SharedFrames
  <2>2. stack' = e \o Tail(stack) /\ ret' = "none"
    BY <1>7 DEF Continue
  <2> HIDE DEF e
  <2>. QED BY <1>5, <1>7, <2>1, <2>2
<1>8. CASE Continue(<<"far">>) /\ counter' = 0
  <2> DEFINE e == <<"far">>
  <2>1. e \in Seq(Quiet)
    BY DEF Quiet, Loud, Frames, SharedFrames
  <2>2. stack' = e \o Tail(stack) /\ ret' = "none"
    BY <1>8 DEF Continue
  <2> HIDE DEF e
  <2>. QED BY <1>5, <1>8, <2>1, <2>2
<1>9. CASE (\E n \in {1, 2} : CountSkipped(n)) /\ Stay
  <2>1. stack' = stack /\ ret' \in Values
    BY <1>2, <1>9 DEF Stay, control, TypeOK
  <2>2. counter' \in 0 .. MaxSkipTokens
    BY <1>2, <1>3, <1>9 DEF CountSkipped
  <2>3. parens' = 0 /\ 0 \in 0 .. MaxDepth + 1
    BY <1>1, <1>2, <1>3
  <2>. QED BY <1>1, <1>2, <1>4, <2>1, <2>2, <2>3 DEF SkipStep
<1>. QED BY <1>6, <1>7, <1>8, <1>9 DEF CountingSkips

-----------------------------------------------------------------------------
(* The steps every parse function is made of, at a quiet frame. *)

LEMMA MildConsumed ==
    ASSUME TypeOK, consumeToken, UNCHANGED <<errors, skipping>>
    PROVE  Mild
BY Consumed DEF Mild, TypeOK, errors, Faults

LEMMA MildKept ==
    ASSUME TypeOK, KeepToken, UNCHANGED <<errors, skipping>>
    PROVE  Mild
BY Kept DEF Mild, TypeOK, errors, Faults

LEMMA Reported ==
    ASSUME TypeOK, NEW n \in Nat, NEW kind \in Faults, emitErrors(n, kind)
    PROVE  ConsecutiveErrors' \in 0 .. AggressiveAt /\ fault' \in Faults
BY DEF TypeOK, emitErrors, First, AggressiveAt, Faults

LEMMA MildReported ==
    ASSUME TypeOK, KeepToken \/ consumeToken, NEW n \in Nat, emitError(n), UNCHANGED skipping
    PROVE  Mild
<1>1. "syntax" \in Faults
  BY DEF Faults
<1>. QED BY <1>1, Kept, Consumed, Reported DEF Mild, emitError

\* A frame of a parse function that has no scope of its own goes on as others,
\* returns, or stays.
LEMMA Continues ==
    ASSUME TypeOK, Mild, UNCHANGED sema, NEW f \in Plain, At(f),
           NEW fs \in Seq(Quiet), Continue(fs)
    PROVE  QuietStep
<1>1. stack # <<>> /\ Head(stack) = f /\ f \notin Loud /\ f \notin Skips
  BY DEF At, Plain, Quiet
<1>2. stack' = fs \o Tail(stack) /\ ret' \in Values
  BY DEF Continue, Values
<1>. QED BY <1>1, <1>2 DEF QuietStep, Plainly

LEMMA Returns ==
    ASSUME TypeOK, Mild, UNCHANGED sema, NEW f \in Plain, At(f),
           NEW v \in Values, Return(v)
    PROVE  QuietStep
<1>1. stack # <<>> /\ Head(stack) = f /\ f \notin Loud /\ f \notin Skips
  BY DEF At, Plain, Quiet
<1> DEFINE e == <<>>
<1>2. e \in Seq(Quiet) /\ stack' = e \o Tail(stack) /\ ret' \in Values
  BY <1>1 DEF Return, Values, TypeOK
<1> HIDE DEF e
<1>. QED BY <1>1, <1>2 DEF QuietStep, Plainly

LEMMA Stays ==
    ASSUME TypeOK, Mild, UNCHANGED sema, NEW f \in Plain, At(f), Stay
    PROVE  QuietStep
<1>1. stack # <<>> /\ Head(stack) = f /\ f \notin Loud /\ f \notin Skips
  BY DEF At, Plain, Quiet
<1> DEFINE e == <<>>
<1>2. e \in Seq(Quiet) /\ stack' = e \o stack /\ ret' \in Values
  BY <1>1 DEF Stay, control, TypeOK
<1> HIDE DEF e
<1>. QED BY <1>1, <1>2 DEF QuietStep, Plainly

\* A frame that calls others and goes on as itself afterwards.
LEMMA Calls ==
    ASSUME TypeOK, Mild, UNCHANGED sema, NEW f \in Frames \ Skips, At(f),
           NEW a \in Quiet, Continue(<<a, f>>)
    PROVE  QuietStep
<1>1. stack # <<>> /\ Head(stack) = f /\ f \notin Skips
  BY DEF At
<1> DEFINE e == <<a>>
<1>2. stack' = e \o stack /\ ret' \in Values
  <2>1. stack \in Seq(Frames) /\ stack' = <<a, f>> \o Tail(stack) /\ ret' = "none"
    BY DEF TypeOK, Continue
  <2>2. <<a, Head(stack)>> \o Tail(stack) = <<a>> \o stack
    BY <1>1, <2>1
  <2>. QED BY <1>1, <2>1, <2>2 DEF Values
<1>3. e \in Seq(Quiet)
  OBVIOUS
<1> HIDE DEF e
<1>. QED BY <1>1, <1>2, <1>3 DEF QuietStep, Plainly

LEMMA ShiftQuiet ==
    ASSUME TypeOK, NEW f \in Plain, NEW K, NEW fs \in Seq(Quiet), Shift(f, K, fs)
    PROVE  QuietStep
<1>1. At(f) /\ Continue(fs) /\ consumeToken /\ UNCHANGED <<errors, sema, skipping>>
  BY DEF Shift, In, Accept
<1>. QED BY <1>1, MildConsumed, Continues

LEMMA StepQuiet ==
    ASSUME TypeOK, NEW f \in Plain, NEW K, NEW fs \in Seq(Quiet), Step(f, K, fs)
    PROVE  QuietStep
<1>1. At(f) /\ Continue(fs) /\ KeepToken /\ UNCHANGED <<errors, sema, skipping>>
  BY DEF Step, In, Leave
<1>. QED BY <1>1, MildKept, Continues

LEMMA ReportQuiet ==
    ASSUME TypeOK, NEW f \in Plain, NEW K, NEW fs \in Seq(Quiet), Report(f, K, fs)
    PROVE  QuietStep
<1>1. At(f) /\ Continue(fs) /\ KeepToken /\ emitError(1) /\ UNCHANGED <<sema, skipping>>
  BY DEF Report, In, Fail
<1>. QED BY <1>1, MildReported, Continues

LEMMA FinishQuiet ==
    ASSUME TypeOK, NEW f \in Plain, NEW K, NEW v \in Values, Finish(f, K, v)
    PROVE  QuietStep
<1>1. At(f) /\ Return(v) /\ consumeToken /\ UNCHANGED <<errors, sema, skipping>>
  BY DEF Finish, In, Accept
<1>. QED BY <1>1, MildConsumed, Returns

LEMMA DoneQuiet ==
    ASSUME TypeOK, NEW f \in Plain, NEW K, NEW v \in Values, Done(f, K, v)
    PROVE  QuietStep
<1>1. At(f) /\ Return(v) /\ KeepToken /\ UNCHANGED <<errors, sema, skipping>>
  BY DEF Done, In, Leave
<1>. QED BY <1>1, MildKept, Returns

LEMMA RejectQuiet ==
    ASSUME TypeOK, NEW f \in Plain, NEW K, NEW v \in Values, Reject(f, K, v)
    PROVE  QuietStep
<1>1. At(f) /\ Return(v) /\ KeepToken /\ emitError(1) /\ UNCHANGED <<sema, skipping>>
  BY DEF Reject, In, Fail
<1>. QED BY <1>1, MildReported, Returns

\* The same steps where the parse function does not look at the token.
LEMMA LeaveQuiet ==
    ASSUME TypeOK, NEW f \in Plain, At(f), NEW fs \in Seq(Quiet), Leave(Continue(fs))
    PROVE  QuietStep
<1>1. Continue(fs) /\ KeepToken /\ UNCHANGED <<errors, sema, skipping>>
  BY DEF Leave
<1>. QED BY <1>1, MildKept, Continues

LEMMA PassQuiet ==
    ASSUME TypeOK, NEW f \in Plain, At(f), NEW v \in Values, Leave(Return(v))
    PROVE  QuietStep
<1>1. Return(v) /\ KeepToken /\ UNCHANGED <<errors, sema, skipping>>
  BY DEF Leave
<1>. QED BY <1>1, MildKept, Returns

LEMMA PassOnQuiet ==
    ASSUME TypeOK, NEW f \in Plain, At(f), Leave(Return(ret))
    PROVE  QuietStep
<1>1. PICK v \in Values : Return(v) /\ KeepToken /\ UNCHANGED <<errors, sema, skipping>>
  BY DEF TypeOK, Leave, Return
<1>. QED BY <1>1, MildKept, Returns

LEMMA FailQuiet ==
    ASSUME TypeOK, NEW f \in Plain, At(f), NEW n \in Nat, NEW fs \in Seq(Quiet),
           Fail(n, Continue(fs))
    PROVE  QuietStep
<1>1. Continue(fs) /\ KeepToken /\ emitError(n) /\ UNCHANGED <<sema, skipping>>
  BY DEF Fail
<1>. QED BY <1>1, MildReported, Continues

LEMMA FailsQuiet ==
    ASSUME TypeOK, NEW f \in Plain, At(f), NEW n \in Nat, NEW v \in Values, Fail(n, Return(v))
    PROVE  QuietStep
<1>1. Return(v) /\ KeepToken /\ emitError(n) /\ UNCHANGED <<sema, skipping>>
  BY DEF Fail
<1>. QED BY <1>1, MildReported, Returns

LEMMA StayQuiet ==
    ASSUME TypeOK, NEW f \in Plain, At(f), Accept(Stay)
    PROVE  QuietStep
<1>1. Stay /\ consumeToken /\ UNCHANGED <<errors, sema, skipping>>
  BY DEF Accept
<1>. QED BY <1>1, MildConsumed, Stays

LEMMA RefuseQuiet ==
    ASSUME TypeOK, NEW f \in Plain, At(f), NEW v \in Values, Refuse(v)
    PROVE  QuietStep
<1>1. Return(v) /\ KeepToken /\ UNCHANGED <<ConsecutiveErrors, sema, skipping>> /\ First("meaning")
  BY DEF Refuse
<1>2. Mild
  BY <1>1, Kept DEF Mild, First, TypeOK, Faults
<1>. QED BY <1>1, <1>2, Returns

LEMMA ItemsAgain ==
    ASSUME TypeOK, NEW f \in Frames \ Skips, NEW item \in Quiet, Items(f, item)
    PROVE  QuietStep
<1>1. PICK a \in Quiet : At(f) /\ Continue(<<a, f>>) /\ KeepToken /\ UNCHANGED <<errors, sema, skipping>>
  <2>1. "skipDecl" \in Quiet
    BY DEF Quiet, Loud, Frames, SharedFrames
  <2>. QED BY <2>1 DEF Items, Step, In, Leave
<1>. QED BY <1>1, MildKept, Calls

LEMMA ItemsQuiet ==
    ASSUME TypeOK, NEW f \in Plain, NEW item \in Plain, Items(f, item)
    PROVE  QuietStep
<1>1. f \in Frames \ Skips /\ item \in Quiet
  BY DEF Plain, Quiet
<1>. QED BY <1>1, ItemsAgain

LEMMA ReplaceQuiet ==
    ASSUME TypeOK, NEW f \in Plain, Replace(f)
    PROVE  QuietStep
<1>1. At(f) /\ Fail(1, Continue(<<f>>)) /\ <<f>> \in Seq(Quiet)
  BY DEF Replace, Plain
<1>. QED BY <1>1, FailQuiet

LEMMA SpecifiersQuiet ==
    ASSUME TypeOK, NEW F \in SUBSET Plain, Specifiers(F)
    PROVE  QuietStep
<1>1. PICK f \in Plain : At(f) /\ Accept(Stay)
  BY DEF Specifiers, AtOne, At
<1>. QED BY <1>1, StayQuiet

LEMMA TerminatorQuiet ==
    ASSUME TypeOK, NEW f \in Plain, NEW k, NEW v \in Values, Terminator(f, k, v)
    PROVE  QuietStep
BY FinishQuiet, RejectQuiet DEF Terminator

LEMMA RequiredQuiet ==
    ASSUME TypeOK, NEW f \in Plain, NEW k, NEW v \in Values, Required(f, k, v)
    PROVE  QuietStep
<1>1. "null" \in Values
  BY DEF Values
<1>. QED BY <1>1, FinishQuiet, RejectQuiet DEF Required

LEMMA NoParametersQuiet ==
    ASSUME TypeOK, NEW f \in Plain, NoParameters(f)
    PROVE  QuietStep
<1>1. At(f) /\ Leave(Return("null")) /\ "null" \in Values
  BY DEF NoParameters, Values
<1>. QED BY <1>1, PassQuiet

LEMMA SkipUntilQuiet ==
    ASSUME TypeOK, NEW f \in Plain, NEW K, NEW C, SkipUntil(f, K, C)
    PROVE  QuietStep
<1>1. At(f) /\ "none" \in Values
  BY DEF SkipUntil, Values
<1>2. CASE Accept(Stay)
  BY <1>1, <1>2, StayQuiet
<1>3. CASE Accept(Return("none"))
  <2>1. Return("none") /\ consumeToken /\ UNCHANGED <<errors, sema, skipping>>
    BY <1>3 DEF Accept
  <2>. QED BY <1>1, <2>1, MildConsumed, Returns
<1>4. CASE Leave(Return("none"))
  BY <1>1, <1>4, PassQuiet
<1>5. CASE /\ IF "rparen" \in C THEN consumeToken
              ELSE Tok' = "rparen" /\ moved' = TRUE /\ UNCHANGED vocabulary
           /\ Return("none") /\ UNCHANGED <<errors, sema, skipping>>
  <2>1. Mild
    <3>1. CASE consumeToken
      BY <1>5, <3>1, MildConsumed
    <3>2. CASE Tok' = "rparen" /\ moved' = TRUE /\ UNCHANGED vocabulary
      <4>1. "rparen" \in Kinds
        BY DEF Kinds
      <4>. QED BY <1>5, <3>2, <4>1 DEF Mild, TypeOK, errors, Faults
    <3>. QED BY <1>5, <3>1, <3>2
  <2>. QED BY <1>1, <1>5, <2>1, Returns
<1>. QED BY <1>2, <1>3, <1>4, <1>5 DEF SkipUntil

LEMMA ExpressionQuiet ==
    /\ Expression \in Seq(Quiet) /\ Assignment \in Seq(Quiet)
    /\ \A fs \in Seq(Quiet) : Expression \o fs \in Seq(Quiet)
<1>1. {"unary", "rhs", "rhsA"} \subseteq Quiet
  BY DEF Quiet, Loud, Frames, ExpressionFrames
<1>2. Expression \in Seq(Quiet) /\ Assignment \in Seq(Quiet)
  BY <1>1 DEF Expression, Assignment
<1>. QED BY <1>2

-----------------------------------------------------------------------------
(* The parse functions that open and close nothing: the recovery and the     *)
(* expressions. *)

LEMMA EndsQuiet ==
    ASSUME TypeOK, Ends PROVE QuietStep
<1>1. {"semi", "close", "end"} \subseteq Plain
  BY DEF Plain, Quiet, Skips, Loud, Frames, SharedFrames
<1>. QED BY <1>1, TerminatorQuiet, RequiredQuiet
        DEF Ends, Values

LEMMA skipUntilQuiet ==
    ASSUME TypeOK, skipUntil PROVE QuietStep
<1>1. {"aggressive", "far", "skipDecl", "skipStmt", "skipParen", "skipParam",
       "skipMem", "skipParenArg", "skipBraceArg"} \subseteq Plain
  BY DEF Plain, Quiet, Skips, Loud, Frames, SharedFrames
<1>. QED BY <1>1, SkipUntilQuiet
        DEF skipUntil

LEMMA skipUntilNextStatementQuiet ==
    ASSUME TypeOK, skipUntilNextStatement PROVE QuietStep
<1>1. {"nextStmt", "nextStmt.block", "nextStmt.after"} \subseteq Plain
  BY DEF Plain, Quiet, Skips, Loud, Frames, SharedFrames
<1>2. /\ <<"balanced", "nextStmt.block">> \in Seq(Quiet)
      /\ <<"nextStmt.after">> \in Seq(Quiet)
      /\ <<"nextStmt">> \in Seq(Quiet)
  <2>1. {"balanced"} \subseteq Quiet
    BY DEF Quiet, Loud, Frames, SharedFrames
  <2>. QED BY <1>1, <2>1 DEF Plain
<1>. QED BY <1>1, <1>2, ShiftQuiet, StepQuiet, FinishQuiet, DoneQuiet, StayQuiet
        DEF skipUntilNextStatement, Values, In

LEMMA parseUnaryExpressionQuiet ==
    ASSUME TypeOK, parseUnaryExpression PROVE QuietStep
<1>1. {"unary", "unaryEnd"} \subseteq Plain
  BY DEF Plain, Quiet, Skips, Loud, Frames, ExpressionFrames
<1>2. <<"unary", "unaryEnd">> \in Seq(Quiet)
  BY <1>1 DEF Plain
<1>. QED BY <1>1, <1>2, ShiftQuiet, PassQuiet, RefuseQuiet
        DEF parseUnaryExpression, Values

LEMMA KeepRefusedQuiet ==
    ASSUME TypeOK, KeepRefused PROVE QuietStep
<1>1. {"checked"} \subseteq Plain
  BY DEF Plain, Quiet, Skips, Loud, Frames, ExpressionFrames
<1>. QED BY <1>1, PassQuiet, RefuseQuiet
        DEF KeepRefused, Values

LEMMA parsePostfixExpressionQuiet ==
    ASSUME TypeOK, parsePostfixExpression PROVE QuietStep
<1>1. {"checked", "postfix", "access", "called", "args"} \subseteq Plain
  BY DEF Plain, Quiet, Skips, Loud, Frames, ExpressionFrames
<1>2. /\ <<"called">> \in Seq(Quiet)
      /\ <<"args", "called">> \in Seq(Quiet)
      /\ <<"access">> \in Seq(Quiet)
      /\ <<"checked", "postfix">> \in Seq(Quiet)
  BY <1>1 DEF Plain
<1>. QED BY <1>1, <1>2, ShiftQuiet, DoneQuiet, RejectQuiet, PassQuiet
        DEF parsePostfixExpression, Values

LEMMA parseCallExpressionQuiet ==
    ASSUME TypeOK, parseCallExpression PROVE QuietStep
<1>1. {"postfix", "called"} \subseteq Plain
  BY DEF Plain, Quiet, Skips, Loud, Frames, ExpressionFrames
<1>2. <<"postfix">> \in Seq(Quiet)
  BY <1>1 DEF Plain
<1>. QED BY <1>1, <1>2, LeaveQuiet, RefuseQuiet
        DEF parseCallExpression, Values, In

LEMMA parseCallArgumentsQuiet ==
    ASSUME TypeOK, parseCallArguments PROVE QuietStep
<1>1. {"args", "arg", "assign"} \subseteq Plain
  BY DEF Plain, Quiet, Skips, Loud, Frames, ExpressionFrames
<1>2. <<"assign", "arg">> \in Seq(Quiet)
  BY <1>1 DEF Plain
<1>. QED BY <1>1, <1>2, ShiftQuiet, StepQuiet, FinishQuiet, RejectQuiet, ReplaceQuiet
        DEF parseCallArguments, Values

LEMMA parseParenExpressionQuiet ==
    ASSUME TypeOK, parseParenExpression PROVE QuietStep
<1>1. {"skipParen", "postfix", "paren"} \subseteq Plain
  BY DEF Plain, Quiet, Skips, Loud, Frames, SharedFrames, ExpressionFrames
<1>2. /\ <<"postfix">> \in Seq(Quiet)
      /\ <<"skipParen", "postfix">> \in Seq(Quiet)
  BY <1>1 DEF Plain
<1>. QED BY <1>1, <1>2, ShiftQuiet, ReportQuiet
        DEF parseParenExpression

LEMMA parseOperandQuiet ==
    ASSUME TypeOK, parseOperand PROVE QuietStep
<1>1. {"rhsOperand"} \subseteq Plain
  BY DEF Plain, Quiet, Skips, Loud, Frames, ExpressionFrames
<1>. QED BY <1>1, PassQuiet, FailsQuiet
        DEF parseOperand, Values

LEMMA parseConditionalExpressionQuiet ==
    ASSUME TypeOK, parseConditionalExpression PROVE QuietStep
<1>1. {"condTrue", "condFalse"} \subseteq Plain
  BY DEF Plain, Quiet, Skips, Loud, Frames, ExpressionFrames
<1>2. Expression \o <<"condFalse">> \in Seq(Quiet)
  <2>1. <<"condFalse">> \in Seq(Quiet)
    BY <1>1 DEF Plain
  <2>. QED BY <1>1, <2>1, ExpressionQuiet DEF Plain
<1>. QED BY <1>1, <1>2, ShiftQuiet, RejectQuiet, ReplaceQuiet, PassQuiet, RefuseQuiet
        DEF parseConditionalExpression, Values, In

LEMMA parseAssignmentExpressionQuiet ==
    ASSUME TypeOK, parseAssignmentExpression PROVE QuietStep
<1>1. {"assign", "init"} \subseteq Plain
  BY DEF Plain, Quiet, Skips, Loud, Frames, ExpressionFrames
<1>2. <<"init">> \in Seq(Quiet)
  BY <1>1 DEF Plain
<1>. QED BY <1>1, <1>2, ExpressionQuiet, ShiftQuiet, StepQuiet
        DEF parseAssignmentExpression

LEMMA parseInitializerListQuiet ==
    ASSUME TypeOK, parseInitializerList PROVE QuietStep
<1>1. {"init", "clause", "initClause"} \subseteq Plain
  BY DEF Plain, Quiet, Skips, Loud, Frames, ExpressionFrames
<1>2. /\ <<"initClause", "clause">> \in Seq(Quiet)
      /\ <<"init">> \in Seq(Quiet)
  BY <1>1 DEF Plain
<1>. QED BY <1>1, <1>2, ShiftQuiet, StepQuiet, FinishQuiet, RejectQuiet, FailsQuiet,
            StayQuiet
        DEF parseInitializerList, Values, In

LEMMA parseInitializerClauseQuiet ==
    ASSUME TypeOK, parseInitializerClause PROVE QuietStep
<1>1. {"assign", "init", "initClause", "designator"} \subseteq Plain
  BY DEF Plain, Quiet, Skips, Loud, Frames, ExpressionFrames
<1>2. /\ <<"designator">> \in Seq(Quiet)
      /\ <<"init">> \in Seq(Quiet)
      /\ <<"assign">> \in Seq(Quiet)
  BY <1>1 DEF Plain
<1>. QED BY <1>1, <1>2, ShiftQuiet, StepQuiet
        DEF parseInitializerClause

LEMMA parseDesignatedInitializerQuiet ==
    ASSUME TypeOK, parseDesignatedInitializer PROVE QuietStep
<1>1. {"initClause", "designator", "designated"} \subseteq Plain
  BY DEF Plain, Quiet, Skips, Loud, Frames, ExpressionFrames
<1>2. /\ <<"designated">> \in Seq(Quiet)
      /\ <<"initClause">> \in Seq(Quiet)
  BY <1>1 DEF Plain
<1>. QED BY <1>1, <1>2, ShiftQuiet, RejectQuiet
        DEF parseDesignatedInitializer, Values

\* A token in error is consumed all the same.
LEMMA ReportedConsumed ==
    ASSUME TypeOK, NEW f \in Plain, At(f), NEW fs \in Seq(Quiet), Continue(fs), emitError(1),
           consumeToken, UNCHANGED <<sema, skipping>>
    PROVE  QuietStep
<1>1. Mild
  BY MildReported
<1>. QED BY <1>1, Continues

LEMMA RHSQuiet ==
    ASSUME TypeOK, NEW f \in {"rhs", "rhsA"}, NEW loose, RHS(f, loose)
    PROVE  QuietStep
<1>1. {"unary", "rhs", "rhsA", "rhsOperand", "checked", "condTrue"} \subseteq Plain
  BY DEF Plain, Quiet, Skips, Loud, Frames, ExpressionFrames
<1>2. /\ f \in Plain
      /\ <<"unary", "rhsOperand", "checked", f>> \in Seq(Quiet)
      /\ <<"unary", "rhsOperand", "rhsA", "checked", f>> \in Seq(Quiet)
      /\ Expression \o <<"condTrue", f>> \in Seq(Quiet)
  <2>1. f \in Plain /\ f \in Quiet /\ <<"condTrue", f>> \in Seq(Quiet)
    BY <1>1 DEF Plain
  <2>. QED BY <1>1, <2>1, ExpressionQuiet DEF Plain
<1>. QED BY <1>2, ShiftQuiet, DoneQuiet, PassQuiet DEF RHS, Values

LEMMA parseRHSQuiet ==
    ASSUME TypeOK, parseRHS PROVE QuietStep
BY RHSQuiet, parseOperandQuiet DEF parseRHS

LEMMA parsePrimaryExpressionQuiet ==
    ASSUME TypeOK, parsePrimaryExpression PROVE QuietStep
<1>1. {"unary", "postfix", "paren", "init"} \subseteq Plain
  BY DEF Plain, Quiet, Skips, Loud, Frames, ExpressionFrames
<1>2. /\ <<"postfix">> \in Seq(Quiet) /\ <<"init", "postfix">> \in Seq(Quiet)
      /\ Expression \o <<"paren">> \in Seq(Quiet)
  <2>1. <<"paren">> \in Seq(Quiet)
    BY <1>1 DEF Plain
  <2>. QED BY <1>1, <2>1, ExpressionQuiet DEF Plain
<1>. QED BY <1>1, <1>2, ShiftQuiet, RejectQuiet, ReportedConsumed
        DEF parsePrimaryExpression, In, Values

-----------------------------------------------------------------------------
(* The statements that open and close nothing. *)

LEMMA MisplacedQuiet ==
    ASSUME TypeOK, Misplaced PROVE QuietStep
<1>1. {"misplaced"} \subseteq Plain
  BY DEF Plain, Quiet, Skips, Loud, Frames, StatementFrames
<1>. QED BY <1>1, RefuseQuiet
        DEF Misplaced, Values

LEMMA parseReturnStatementQuiet ==
    ASSUME TypeOK, parseReturnStatement PROVE QuietStep
<1>1. {"semi", "return"} \subseteq Plain
  BY DEF Plain, Quiet, Skips, Loud, Frames, SharedFrames, StatementFrames
<1>2. Expression \o <<"semi">> \in Seq(Quiet)
  <2>1. <<"semi">> \in Seq(Quiet)
    BY <1>1 DEF Plain
  <2>. QED BY <1>1, <2>1, ExpressionQuiet DEF Plain
<1>. QED BY <1>1, <1>2, StepQuiet, FinishQuiet
        DEF parseReturnStatement, Values

LEMMA parseExpressionStatementQuiet ==
    ASSUME TypeOK, parseExpressionStatement PROVE QuietStep
<1>1. {"semi", "skipStmt", "exprStmt"} \subseteq Plain
  BY DEF Plain, Quiet, Skips, Loud, Frames, SharedFrames, StatementFrames
<1>2. /\ <<"skipStmt">> \in Seq(Quiet)
      /\ <<"semi">> \in Seq(Quiet)
  BY <1>1 DEF Plain
<1>. QED BY <1>1, <1>2, LeaveQuiet
        DEF parseExpressionStatement

LEMMA parseLabelStatementQuiet ==
    ASSUME TypeOK, parseLabelStatement PROVE QuietStep
<1>1. {"stmt", "label"} \subseteq Plain
  BY DEF Plain, Quiet, Skips, Loud, Frames, StatementFrames
<1>2. <<"stmt">> \in Seq(Quiet)
  BY <1>1 DEF Plain
<1>. QED BY <1>1, <1>2, ShiftQuiet, ReportQuiet, ReplaceQuiet
        DEF parseLabelStatement

LEMMA parseGotoStatementQuiet ==
    ASSUME TypeOK, parseGotoStatement PROVE QuietStep
<1>1. {"semi", "skipStmt", "goto"} \subseteq Plain
  BY DEF Plain, Quiet, Skips, Loud, Frames, SharedFrames, StatementFrames
<1>2. /\ <<"semi">> \in Seq(Quiet)
      /\ <<"skipStmt">> \in Seq(Quiet)
  BY <1>1 DEF Plain
<1>. QED BY <1>1, <1>2, ShiftQuiet, ReportQuiet
        DEF parseGotoStatement

LEMMA parseConditionQuiet ==
    ASSUME TypeOK, parseCondition PROVE QuietStep
<1>1. {"close", "cond"} \subseteq Plain
  BY DEF Plain, Quiet, Skips, Loud, Frames, SharedFrames, StatementFrames
<1>2. <<"close">> \in Seq(Quiet)
  BY <1>1 DEF Plain
<1>. QED BY <1>1, <1>2, ReplaceQuiet, LeaveQuiet
        DEF parseCondition

LEMMA parseIfStatementQuiet ==
    ASSUME TypeOK, parseIfStatement PROVE QuietStep
<1>1. {"stmt", "cond", "if", "then"} \subseteq Plain
  BY DEF Plain, Quiet, Skips, Loud, Frames, StatementFrames
<1>2. /\ Expression \o <<"cond", "stmt", "then">> \in Seq(Quiet)
      /\ <<"stmt">> \in Seq(Quiet)
  <2>1. <<"cond", "stmt", "then">> \in Seq(Quiet)
    BY <1>1 DEF Plain
  <2>. QED BY <1>1, <2>1, ExpressionQuiet DEF Plain
<1>. QED BY <1>1, <1>2, ShiftQuiet, DoneQuiet, RejectQuiet
        DEF parseIfStatement, Values

LEMMA parseWhileStatementQuiet ==
    ASSUME TypeOK, parseWhileStatement PROVE QuietStep
<1>1. {"stmt", "cond", "while"} \subseteq Plain
  BY DEF Plain, Quiet, Skips, Loud, Frames, StatementFrames
<1>2. Expression \o <<"cond", "stmt">> \in Seq(Quiet)
  <2>1. <<"cond", "stmt">> \in Seq(Quiet)
    BY <1>1 DEF Plain
  <2>. QED BY <1>1, <2>1, ExpressionQuiet DEF Plain
<1>. QED BY <1>1, <1>2, ShiftQuiet, RejectQuiet
        DEF parseWhileStatement, Values

LEMMA parseDoStatementQuiet ==
    ASSUME TypeOK, parseDoStatement PROVE QuietStep
<1>1. {"semi", "close", "doWhile", "doCond"} \subseteq Plain
  BY DEF Plain, Quiet, Skips, Loud, Frames, SharedFrames, StatementFrames
<1>2. /\ <<"doCond">> \in Seq(Quiet)
      /\ Expression \o <<"close", "semi">> \in Seq(Quiet)
  <2>1. <<"close", "semi">> \in Seq(Quiet)
    BY <1>1 DEF Plain
  <2>. QED BY <1>1, <2>1, ExpressionQuiet DEF Plain
<1>. QED BY <1>1, <1>2, ShiftQuiet, RejectQuiet
        DEF parseDoStatement, Values

LEMMA parseCXXForRangeStatementQuiet ==
    ASSUME TypeOK, parseCXXForRangeStatement PROVE QuietStep
<1>1. {"forInit", "close", "stmt", "skipParen"} \subseteq Plain
  BY DEF Plain, Quiet, Skips, Loud, Frames, SharedFrames, StatementFrames
<1>2. /\ <<"skipParen">> \in Seq(Quiet) /\ Expression \o <<"close", "stmt">> \in Seq(Quiet)
  <2>1. <<"close", "stmt">> \in Seq(Quiet)
    BY <1>1 DEF Plain
  <2>. QED BY <1>1, <2>1, ExpressionQuiet DEF Plain
<1>. QED BY <1>1, <1>2, ShiftQuiet, ReportedConsumed DEF parseCXXForRangeStatement, In

-----------------------------------------------------------------------------
(* The declarations that open and close nothing. *)

LEMMA OptionalSemiQuiet ==
    ASSUME TypeOK, OptionalSemi PROVE QuietStep
<1>1. {"optSemi"} \subseteq Plain
  BY DEF Plain, Quiet, Skips, Loud, Frames, DeclarationFrames
<1>. QED BY <1>1, FinishQuiet, DoneQuiet
        DEF OptionalSemi, Values

LEMMA parseDeclSpecifierSeqQuiet ==
    ASSUME TypeOK, parseDeclSpecifierSeq PROVE QuietStep
<1>1. {"specifiers", "declarator", "incomplete", "paramDecl", "paramName", "typedef",
       "typedefName"} \subseteq Plain
  BY DEF Plain, Quiet, Skips, Loud, Frames, DeclarationFrames
<1>2. /\ <<"declarator">> \in Seq(Quiet)
      /\ <<"declarator", "incomplete">> \in Seq(Quiet)
  BY <1>1 DEF Plain
<1>. QED BY <1>1, <1>2, ShiftQuiet, RejectQuiet, SpecifiersQuiet
        DEF parseDeclSpecifierSeq, Values

LEMMA parseDeclaratorQuiet ==
    ASSUME TypeOK, parseDeclarator PROVE QuietStep
<1>1. {"declarator", "unnamed", "named", "var", "fn", "paramList"} \subseteq Plain
  BY DEF Plain, Quiet, Skips, Loud, Frames, DeclarationFrames
<1>2. /\ <<"named">> \in Seq(Quiet)
      /\ <<"unnamed">> \in Seq(Quiet)
      /\ <<"paramList", "unnamed">> \in Seq(Quiet)
      /\ <<"fn">> \in Seq(Quiet)
      /\ <<"paramList", "fn">> \in Seq(Quiet)
      /\ <<"var">> \in Seq(Quiet)
  BY <1>1 DEF Plain
<1>. QED BY <1>1, <1>2, ShiftQuiet, StepQuiet, RejectQuiet, StayQuiet
        DEF parseDeclarator, Values, In

LEMMA buildVarDeclQuiet ==
    ASSUME TypeOK, buildVarDecl PROVE QuietStep
<1>1. {"init", "var", "varList", "varEnd", "incomplete"} \subseteq Plain
  BY DEF Plain, Quiet, Skips, Loud, Frames, ExpressionFrames, DeclarationFrames
<1>2. /\ <<"init", "varList">> \in Seq(Quiet)
      /\ Expression \o <<"varEnd">> \in Seq(Quiet)
      /\ <<"varEnd">> \in Seq(Quiet)
  <2>1. <<"varEnd">> \in Seq(Quiet)
    BY <1>1 DEF Plain
  <2>. QED BY <1>1, <2>1, ExpressionQuiet DEF Plain
<1>. QED BY <1>1, <1>2, ShiftQuiet, StepQuiet, RequiredQuiet, LeaveQuiet, PassQuiet,
            PassOnQuiet, RefuseQuiet
        DEF buildVarDecl, Values

LEMMA parseFunctionDeclaratorInfoQuiet ==
    ASSUME TypeOK, parseFunctionDeclaratorInfo PROVE QuietStep
<1>1. {"paramList", "paramNext", "paramDecl"} \subseteq Plain
  BY DEF Plain, Quiet, Skips, Loud, Frames, DeclarationFrames
<1>2. /\ <<"paramDecl", "paramNext">> \in Seq(Quiet)
      /\ <<"paramList">> \in Seq(Quiet)
  BY <1>1 DEF Plain
<1>. QED BY <1>1, <1>2, ShiftQuiet, StepQuiet, FinishQuiet, RejectQuiet, FailsQuiet
        DEF parseFunctionDeclaratorInfo, Values, In

LEMMA parseParameterDeclarationQuiet ==
    ASSUME TypeOK, parseParameterDeclaration PROVE QuietStep
<1>1. {"paramList", "paramDecl", "paramName", "paramRest", "paramEnd"} \subseteq Plain
  BY DEF Plain, Quiet, Skips, Loud, Frames, DeclarationFrames
<1>2. /\ <<"paramName">> \in Seq(Quiet)
      /\ <<"paramRest">> \in Seq(Quiet)
      /\ <<"paramList", "paramRest">> \in Seq(Quiet)
      /\ Expression \o <<"paramEnd">> \in Seq(Quiet)
  <2>1. <<"paramEnd">> \in Seq(Quiet)
    BY <1>1 DEF Plain
  <2>. QED BY <1>1, <2>1, ExpressionQuiet DEF Plain
<1>. QED BY <1>1, <1>2, ShiftQuiet, StepQuiet, DoneQuiet, RejectQuiet, PassQuiet,
            StayQuiet
        DEF parseParameterDeclaration, Values, In

LEMMA parseNamespaceDeclarationQuiet ==
    ASSUME TypeOK, parseNamespaceDeclaration PROVE QuietStep
<1>1. {"end", "ns", "nsOpen", "nsAlias", "nsBody"} \subseteq Plain
  BY DEF Plain, Quiet, Skips, Loud, Frames, SharedFrames, DeclarationFrames
<1>2. /\ <<"nsOpen">> \in Seq(Quiet)
      /\ <<"nsBody">> \in Seq(Quiet)
      /\ <<"nsAlias">> \in Seq(Quiet)
      /\ <<"end">> \in Seq(Quiet)
  BY <1>1 DEF Plain
<1>. QED BY <1>1, <1>2, ShiftQuiet, RejectQuiet
        DEF parseNamespaceDeclaration, Values

LEMMA parseNamespaceBodyQuiet ==
    ASSUME TypeOK, parseNamespaceBody PROVE QuietStep
<1>1. {"decl", "nsBody"} \subseteq Plain
  BY DEF Plain, Quiet, Skips, Loud, Frames, DeclarationFrames
<1>. QED BY <1>1, FinishQuiet, RejectQuiet, ItemsQuiet
        DEF parseNamespaceBody, Values

LEMMA parseUsingDeclarationQuiet ==
    ASSUME TypeOK, parseUsingDeclaration PROVE QuietStep
<1>1. {"semi", "end", "using", "usingName", "usingAlias", "aliasType"} \subseteq Plain
  BY DEF Plain, Quiet, Skips, Loud, Frames, SharedFrames, DeclarationFrames
<1>2. /\ <<"usingName">> \in Seq(Quiet)
      /\ <<"usingAlias">> \in Seq(Quiet)
      /\ <<"end">> \in Seq(Quiet)
      /\ <<"aliasType">> \in Seq(Quiet)
      /\ <<"semi">> \in Seq(Quiet)
  BY <1>1 DEF Plain
<1>. QED BY <1>1, <1>2, ShiftQuiet, RejectQuiet
        DEF parseUsingDeclaration, Values

LEMMA parseTypedefDeclarationQuiet ==
    ASSUME TypeOK, parseTypedefDeclaration PROVE QuietStep
<1>1. {"end", "typedef", "typedefName"} \subseteq Plain
  BY DEF Plain, Quiet, Skips, Loud, Frames, SharedFrames, DeclarationFrames
<1>2. /\ <<"typedefName">> \in Seq(Quiet)
      /\ <<"end">> \in Seq(Quiet)
  BY <1>1 DEF Plain
<1>. QED BY <1>1, <1>2, ShiftQuiet, RejectQuiet
        DEF parseTypedefDeclaration, Values

LEMMA parseLinkageSpecDeclarationQuiet ==
    ASSUME TypeOK, parseLinkageSpecDeclaration PROVE QuietStep
<1>1. {"decl", "linkage", "linked", "linkBody"} \subseteq Plain
  BY DEF Plain, Quiet, Skips, Loud, Frames, DeclarationFrames
<1>2. /\ <<"linkBody">> \in Seq(Quiet)
      /\ <<"decl", "linked">> \in Seq(Quiet)
  BY <1>1 DEF Plain
<1>. QED BY <1>1, <1>2, ShiftQuiet, StepQuiet, FinishQuiet, RejectQuiet, ItemsQuiet,
            PassQuiet
        DEF parseLinkageSpecDeclaration, Values

LEMMA parseEnumDeclarationQuiet ==
    ASSUME TypeOK, parseEnumDeclaration PROVE QuietStep
<1>1. {"enum", "enumName", "enumBase", "enumType", "enumOpen", "enumerators"} \subseteq Plain
  BY DEF Plain, Quiet, Skips, Loud, Frames, DeclarationFrames
<1>2. /\ <<"enumName">> \in Seq(Quiet)
      /\ <<"enumBase">> \in Seq(Quiet)
      /\ <<"enumType">> \in Seq(Quiet)
      /\ <<"enumOpen">> \in Seq(Quiet)
      /\ <<"enumerators">> \in Seq(Quiet)
  BY <1>1 DEF Plain
<1>. QED BY <1>1, <1>2, ShiftQuiet, StepQuiet, RejectQuiet
        DEF parseEnumDeclaration, Values

LEMMA parseEnumBodyQuiet ==
    ASSUME TypeOK, parseEnumBody PROVE QuietStep
<1>1. {"optSemi", "enumerators", "enumerator", "enumNext"} \subseteq Plain
  BY DEF Plain, Quiet, Skips, Loud, Frames, DeclarationFrames
<1>2. /\ <<"optSemi">> \in Seq(Quiet)
      /\ <<"enumerator">> \in Seq(Quiet)
      /\ <<"enumNext">> \in Seq(Quiet)
      /\ Expression \o <<"enumNext">> \in Seq(Quiet)
      /\ <<"enumerators">> \in Seq(Quiet)
  <2>1. <<"enumNext">> \in Seq(Quiet)
    BY <1>1 DEF Plain
  <2>. QED BY <1>1, <2>1, ExpressionQuiet DEF Plain
<1>. QED BY <1>1, <1>2, ShiftQuiet, StepQuiet, ReportQuiet, RejectQuiet
        DEF parseEnumBody, Values

LEMMA parseStaticAssertDeclarationQuiet ==
    ASSUME TypeOK, parseStaticAssertDeclaration PROVE QuietStep
<1>1. {"end", "assert", "assertEnd"} \subseteq Plain
  BY DEF Plain, Quiet, Skips, Loud, Frames, SharedFrames, DeclarationFrames
<1>2. /\ Expression \o <<"assertEnd">> \in Seq(Quiet)
      /\ <<"end">> \in Seq(Quiet)
  <2>1. <<"assertEnd">> \in Seq(Quiet)
    BY <1>1 DEF Plain
  <2>. QED BY <1>1, <2>1, ExpressionQuiet DEF Plain
<1>. QED BY <1>1, <1>2, ShiftQuiet, RejectQuiet, FailsQuiet
        DEF parseStaticAssertDeclaration, Values

LEMMA skipPreprocessingDirectiveQuiet ==
    ASSUME TypeOK, skipPreprocessingDirective PROVE QuietStep
<1>1. {"directive"} \subseteq Plain
  BY DEF Plain, Quiet, Skips, Loud, Frames, DeclarationFrames
<1>. QED BY <1>1, PassQuiet, StayQuiet
        DEF skipPreprocessingDirective, Values

LEMMA parseExportDeclarationQuiet ==
    ASSUME TypeOK, parseExportDeclaration PROVE QuietStep
<1>1. {"skipDecl", "decl", "exportBody", "export", "exported", "exportFirst",
       "exportMore"} \subseteq Plain
  BY DEF Plain, Quiet, Skips, Loud, Frames, SharedFrames, DeclarationFrames
<1>2. /\ <<"exportBody">> \in Seq(Quiet)
      /\ <<"decl", "exported">> \in Seq(Quiet)
      /\ <<"decl", "exportFirst">> \in Seq(Quiet)
      /\ <<"skipDecl", "exportBody">> \in Seq(Quiet)
      /\ <<"exportMore">> \in Seq(Quiet)
  BY <1>1 DEF Plain
<1>3. CASE At("exported") /\ Leave(Return(IF ret = "null" THEN "null" ELSE "node"))
  <2>1. Leave(Return("null")) \/ Leave(Return("node"))
    BY <1>3
  <2>. QED BY <1>1, <1>3, <2>1, PassQuiet DEF Values
<1>4. CASE ExportsNothing
  <2>1. At("exportBody") /\ Return("null") /\ consumeToken /\ UNCHANGED <<sema, skipping>>
        /\ ConsecutiveErrors' = ConsecutiveErrors /\ First("silent")
    BY <1>4 DEF ExportsNothing, In
  <2>2. Mild
    BY <2>1, Consumed DEF Mild, First, TypeOK, Faults
  <2>. QED BY <1>1, <2>1, <2>2, Returns DEF Values
<1>. QED BY <1>1, <1>2, <1>3, <1>4, ShiftQuiet, StepQuiet, FinishQuiet, RejectQuiet,
            ItemsQuiet, LeaveQuiet
        DEF parseExportDeclaration, Values

-----------------------------------------------------------------------------
(* The members of classes that open and close nothing. *)

LEMMA parseBaseClauseQuiet ==
    ASSUME TypeOK, parseBaseClause PROVE QuietStep
<1>1. {"bases", "basesNext"} \subseteq Plain
  BY DEF Plain, Quiet, Skips, Loud, Frames, ClassFrames
<1>2. /\ <<"basesNext">> \in Seq(Quiet)
      /\ <<"bases">> \in Seq(Quiet)
  BY <1>1 DEF Plain
<1>. QED BY <1>1, <1>2, ShiftQuiet, ReportQuiet, DoneQuiet, StayQuiet
        DEF parseBaseClause, Values, In

LEMMA parseClassMemberQuiet ==
    ASSUME TypeOK, parseClassMember PROVE QuietStep
<1>1. {"optSemi", "usingName", "class", "union", "member", "memberSpec", "memberName",
       "accessColon", "memberRest", "ctor", "dtor", "memberFriend"} \subseteq Plain
  BY DEF Plain, Quiet, Skips, Loud, Frames, DeclarationFrames, ClassFrames
<1>2. /\ <<"accessColon">> \in Seq(Quiet)
      /\ <<"memberFriend">> \in Seq(Quiet)
      /\ <<"class", "optSemi">> \in Seq(Quiet)
      /\ <<"union", "optSemi">> \in Seq(Quiet)
      /\ <<"usingName">> \in Seq(Quiet)
      /\ <<"dtor">> \in Seq(Quiet)
      /\ <<"memberName">> \in Seq(Quiet)
      /\ <<"ctor">> \in Seq(Quiet)
      /\ <<"memberSpec">> \in Seq(Quiet)
      /\ <<"memberRest">> \in Seq(Quiet)
  BY <1>1 DEF Plain
<1>. QED BY <1>1, <1>2, ShiftQuiet, RejectQuiet, SpecifiersQuiet
        DEF parseClassMember, Values

LEMMA parseAccessSpecifierQuiet ==
    ASSUME TypeOK, parseAccessSpecifier PROVE QuietStep
<1>1. {"accessColon"} \subseteq Plain
  BY DEF Plain, Quiet, Skips, Loud, Frames, ClassFrames
<1>. QED BY <1>1, RequiredQuiet
        DEF parseAccessSpecifier, Values

LEMMA FieldQuiet ==
    ASSUME TypeOK, Field PROVE QuietStep
<1>1. {"end", "memberRest", "inClass"} \subseteq Plain
  BY DEF Plain, Quiet, Skips, Loud, Frames, SharedFrames, ClassFrames
<1>2. /\ Expression \o <<"inClass">> \in Seq(Quiet)
      /\ Expression \o <<"end">> \in Seq(Quiet)
      /\ <<"end">> \in Seq(Quiet)
  <2>1. /\ <<"inClass">> \in Seq(Quiet)
        /\ <<"end">> \in Seq(Quiet)
    BY <1>1 DEF Plain
  <2>. QED BY <1>1, <2>1, ExpressionQuiet DEF Plain
<1>. QED BY <1>1, <1>2, ShiftQuiet, StepQuiet, FinishQuiet, RejectQuiet
        DEF Field, Values

LEMMA ParametersQuiet ==
    ASSUME TypeOK, Parameters PROVE QuietStep
<1>1. {"skipParam", "paramDecl", "methodParams", "methodParam", "methodClose"} \subseteq Plain
  BY DEF Plain, Quiet, Skips, Loud, Frames, SharedFrames, DeclarationFrames, ClassFrames
<1>2. /\ <<"paramDecl", "methodParam">> \in Seq(Quiet)
      /\ <<"skipParam", "methodClose">> \in Seq(Quiet)
      /\ <<"methodClose">> \in Seq(Quiet)
  BY <1>1 DEF Plain
<1>. QED BY <1>1, <1>2, ShiftQuiet, StepQuiet, FinishQuiet, RequiredQuiet, FailQuiet
        DEF Parameters, Values

LEMMA parseMemberInitializerListQuiet ==
    ASSUME TypeOK, parseMemberInitializerList PROVE QuietStep
<1>1. {"skipMem", "mem", "memDone", "memNext", "memArgs"} \subseteq Plain
  BY DEF Plain, Quiet, Skips, Loud, Frames, SharedFrames, ClassFrames
<1>2. /\ <<"memArgs">> \in Seq(Quiet)
      /\ <<"skipMem", "memNext">> \in Seq(Quiet)
      /\ <<"memNext">> \in Seq(Quiet)
      /\ <<"mem">> \in Seq(Quiet)
  BY <1>1 DEF Plain
<1>. QED BY <1>1, <1>2, ShiftQuiet, ReportQuiet, DoneQuiet, LeaveQuiet, PassQuiet
        DEF parseMemberInitializerList, Values

LEMMA parseFriendDeclarationQuiet ==
    ASSUME TypeOK, parseFriendDeclaration PROVE QuietStep
<1>1. {"semi", "end", "paramDecl", "memberFriend", "friendClass", "friendName",
       "friendOpen", "friendParams", "friendNext"} \subseteq Plain
  BY DEF Plain, Quiet, Skips, Loud, Frames, SharedFrames, DeclarationFrames, ClassFrames
<1>2. /\ <<"friendClass">> \in Seq(Quiet)
      /\ <<"friendName">> \in Seq(Quiet)
      /\ <<"semi">> \in Seq(Quiet)
      /\ <<"friendOpen">> \in Seq(Quiet)
      /\ <<"end">> \in Seq(Quiet)
      /\ <<"friendParams">> \in Seq(Quiet)
      /\ <<"paramDecl", "friendNext">> \in Seq(Quiet)
  BY <1>1 DEF Plain
<1>. QED BY <1>1, <1>2, ShiftQuiet, StepQuiet, RejectQuiet
        DEF parseFriendDeclaration, Values

LEMMA parseDestructorDeclarationQuiet ==
    ASSUME TypeOK, parseDestructorDeclaration PROVE QuietStep
<1>1. {"dtor", "dtorParams", "dtorClose", "ctorBody"} \subseteq Plain
  BY DEF Plain, Quiet, Skips, Loud, Frames, ClassFrames
<1>2. /\ <<"dtorParams">> \in Seq(Quiet)
      /\ <<"ctorBody">> \in Seq(Quiet)
      /\ <<"dtorClose">> \in Seq(Quiet)
  BY <1>1 DEF Plain
<1>3. CASE In("dtor", Ids) /\ Return("null") /\ emitErrors(1, "meaning")
             /\ KeepToken /\ UNCHANGED <<sema, skipping>>
  <2>1. Mild
    <3>1. "meaning" \in Faults
      BY DEF Faults
    <3>. QED BY <1>3, <3>1, Kept, Reported DEF Mild
  <2>. QED BY <1>1, <1>3, <2>1, Returns DEF In, Values
<1>. QED BY <1>1, <1>2, <1>3, ShiftQuiet, RejectQuiet
        DEF parseDestructorDeclaration, Values

LEMMA ArgumentsQuiet ==
    ASSUME TypeOK, NEW list \in Plain, NEW arg \in Plain, NEW next \in Plain, NEW close,
           NEW skip \in Plain, Arguments(list, arg, next, close, skip)
    PROVE  QuietStep
<1>1. {"memDone", "skipMem", "memNext"} \subseteq Plain
  BY DEF Plain, Quiet, Skips, Loud, Frames, SharedFrames, ClassFrames
<1>2. /\ <<"memDone">> \in Seq(Quiet) /\ <<"skipMem", "memNext">> \in Seq(Quiet)
      /\ <<skip, next>> \in Seq(Quiet) /\ <<next>> \in Seq(Quiet)
      /\ Expression \o <<arg>> \in Seq(Quiet)
  <2>1. <<arg>> \in Seq(Quiet)
    BY DEF Plain
  <2>. QED BY <1>1, <2>1, ExpressionQuiet DEF Plain
<1>. QED BY <1>2, ShiftQuiet, StepQuiet, ReportQuiet, LeaveQuiet, FailQuiet DEF Arguments

LEMMA parseMemberInitializerQuiet ==
    ASSUME TypeOK, parseMemberInitializer PROVE QuietStep
<1>1. {"memArgs", "memParen", "memBrace", "memDone", "parenArg", "parenNext", "braceArg",
       "braceNext", "skipParenArg", "skipBraceArg"} \subseteq Plain
  BY DEF Plain, Quiet, Skips, Loud, Frames, SharedFrames, ClassFrames
<1>2. /\ <<"memDone">> \in Seq(Quiet) /\ <<"memParen">> \in Seq(Quiet)
      /\ <<"memBrace">> \in Seq(Quiet)
  BY <1>1 DEF Plain
<1>. QED BY <1>1, <1>2, ShiftQuiet, StepQuiet, ArgumentsQuiet DEF parseMemberInitializer

-----------------------------------------------------------------------------
(* The steps that open scopes. *)

\* Among quiet frames, one that is not quiet has all there is open.
LEMMA OneLoud ==
    ASSUME NEW g \in Frames, NEW s \in Seq(Quiet)
    PROVE  /\ <<g>> \o s \in Seq(Frames)
           /\ ScopesIn(<<g>> \o s) = ScopesOf(g) /\ ContextsIn(<<g>> \o s) = ContextsOf(g)
<1> DEFINE x == ScopesOf(g)
           y == ContextsOf(g)
           t == <<g>>
<1>1. x \in Seq(ScopeKinds) /\ y \in Seq(ContextKinds)
  BY ScopesType, ContextsType
<1>2. t \in Seq(Frames) /\ s \in Seq(Frames) /\ ScopesIn(s) = <<>> /\ ContextsIn(s) = <<>>
  BY ScopesInQuiet
<1>3. ScopesIn(t) = x /\ ContextsIn(t) = y
  BY ScopesInOne
<1> HIDE DEF x, y, t
<1>4. t \o s \in Seq(Frames) /\ ScopesIn(t \o s) = x \o <<>> /\ ContextsIn(t \o s) = y \o <<>>
  <2>1. t \o s \in Seq(Frames)
    BY <1>2
  <2>2. ScopesIn(t \o s) = ScopesIn(t) \o ScopesIn(s)
        /\ ContextsIn(t \o s) = ContextsIn(t) \o ContextsIn(s)
    BY <1>2, ScopesInConcat
  <2>. QED BY <1>2, <1>3, <2>1, <2>2
<1>5. x \o <<>> = x /\ y \o <<>> = y
  BY <1>1
<1>. QED BY <1>4, <1>5 DEF x, y, t

LEMMA Opens ==
    ASSUME TypeOK, Mild, NEW f \in Plain, At(f), NEW fs \in Seq(Frames \ {"TU"}), Continue(fs),
           UNCHANGED leaked, scopes' = ScopesIn(fs) \o scopes,
           contexts' = ContextsIn(fs) \o contexts
    PROVE  OpenStep
<1>1. stack # <<>> /\ Head(stack) = f /\ f \notin Loud /\ f \notin Skips
  BY DEF At, Plain, Quiet
<1>2. stack' = fs \o Tail(stack) /\ ret' \in Values
  BY DEF Continue, Values
<1>. QED BY <1>1, <1>2 DEF OpenStep, Plainly

\* The block of f is followed by fs.
LEMMA OpensBlock ==
    ASSUME TypeOK, NEW f \in Plain, NEW fs \in Seq(Quiet), EnterBlock(f, fs)
    PROVE  OpenStep
<1> DEFINE t == <<"compound">> \o fs
<1>1. /\ At(f) /\ Continue(t) /\ consumeToken /\ UNCHANGED <<errors, skipping>>
      /\ leaked' = leaked /\ scopes' = <<"block">> \o scopes /\ contexts' = contexts
  BY DEF EnterBlock, In, PushScope, SameContext
<1>2. "compound" \in Frames \ {"TU"} /\ ScopesOf("compound") = <<"block">>
      /\ ContextsOf("compound") = <<>>
  BY DEF Frames, StatementFrames, ScopesOf, ContextsOf
<1>3. t \in Seq(Frames \ {"TU"}) /\ ScopesIn(t) = <<"block">> /\ ContextsIn(t) = <<>>
  <2>1. <<"compound">> \in Seq(Frames \ {"TU"}) /\ fs \in Seq(Frames \ {"TU"})
    BY <1>2 DEF Quiet, Loud
  <2>. QED BY <1>2, <2>1, OneLoud
<1>4. contexts' = <<>> \o contexts
  BY <1>1 DEF TypeOK
<1> HIDE DEF t
<1>. QED BY <1>1, <1>3, <1>4, MildConsumed, Opens

LEMMA OpensFor ==
    ASSUME TypeOK, At("forInit"), NEW fs \in Seq(Quiet), EnterFor(fs), consumeToken \/ KeepToken
    PROVE  OpenStep
<1> DEFINE a == fs \o <<"forCond">>
           t == fs \o <<"forCond", "forEnd">>
<1>1. /\ Continue(t) /\ UNCHANGED <<errors, skipping>>
      /\ leaked' = leaked /\ scopes' = <<"control">> \o scopes /\ contexts' = contexts
  BY DEF EnterFor, PushScope, SameContext
<1>2. "forInit" \in Plain /\ "forCond" \in Quiet
  BY DEF Plain, Quiet, Skips, Loud, Frames, StatementFrames
<1>3. "forEnd" \in Frames \ {"TU"} /\ ScopesOf("forEnd") = <<"control">> /\ ContextsOf("forEnd") = <<>>
  BY DEF Frames, StatementFrames, ScopesOf, ContextsOf
<1>4. a \in Seq(Quiet) /\ a \in Seq(Frames \ {"TU"}) /\ t = a \o <<"forEnd">>
      /\ <<"forEnd">> \in Seq(Frames \ {"TU"}) /\ <<"forEnd">> \in Seq(Frames)
  <2>1. a \in Seq(Quiet)
    BY <1>2
  <2>2. t = a \o <<"forEnd">>
    OBVIOUS
  <2> HIDE DEF a
  <2>. QED BY <1>3, <2>1, <2>2 DEF Quiet, Loud
<1> HIDE DEF a, t
<1>5. t \in Seq(Frames \ {"TU"}) /\ ScopesIn(t) = <<"control">> /\ ContextsIn(t) = <<>>
  <2>1. ScopesIn(<<"forEnd">>) = <<"control">> /\ ContextsIn(<<"forEnd">>) = <<>>
    BY <1>3, ScopesInOne
  <2>2. ScopesIn(a \o <<"forEnd">>) = ScopesIn(<<"forEnd">>)
        /\ ContextsIn(a \o <<"forEnd">>) = ContextsIn(<<"forEnd">>)
    BY <1>4, QuietOnTop
  <2>. QED BY <1>4, <2>1, <2>2
<1>6. contexts' = <<>> \o contexts
  BY <1>1 DEF TypeOK
<1>7. Mild
  BY <1>1, MildConsumed, MildKept
<1>. QED BY <1>1, <1>2, <1>5, <1>6, <1>7, Opens

LEMMA OpensTemplate ==
    ASSUME TypeOK, EnterTemplate
    PROVE  OpenStep
<1> DEFINE a == <<"decl">>
           t == <<"decl", "template">>
<1>1. /\ At("decl") /\ Continue(t) /\ consumeToken /\ UNCHANGED <<errors, skipping>>
      /\ leaked' = leaked /\ scopes' = <<"template", "params">> \o scopes /\ contexts' = contexts
  BY DEF EnterTemplate, In, PushScope, SameContext
<1>2. "decl" \in Plain /\ "decl" \in Quiet
  BY DEF Plain, Quiet, Skips, Loud, Frames, DeclarationFrames
<1>3. "template" \in Frames \ {"TU"} /\ ScopesOf("template") = <<"template", "params">>
      /\ ContextsOf("template") = <<>>
  BY DEF Frames, DeclarationFrames, ScopesOf, ContextsOf
<1>4. a \in Seq(Quiet) /\ t \in Seq(Frames \ {"TU"}) /\ t = a \o <<"template">>
      /\ <<"template">> \in Seq(Frames)
  BY <1>2, <1>3 DEF Quiet, Loud
<1> HIDE DEF a, t
<1>5. ScopesIn(t) = <<"template", "params">> /\ ContextsIn(t) = <<>>
  <2>1. ScopesIn(<<"template">>) = <<"template", "params">> /\ ContextsIn(<<"template">>) = <<>>
    BY <1>3, ScopesInOne
  <2>2. ScopesIn(a \o <<"template">>) = ScopesIn(<<"template">>)
        /\ ContextsIn(a \o <<"template">>) = ContextsIn(<<"template">>)
    BY <1>4, QuietOnTop
  <2>. QED BY <1>4, <2>1, <2>2
<1>6. contexts' = <<>> \o contexts
  BY <1>1 DEF TypeOK
<1>. QED BY <1>1, <1>2, <1>4, <1>5, <1>6, MildConsumed, Opens

LEMMA OpensClass ==
    ASSUME TypeOK, NEW f \in Plain, NEW g \in {"classBody", "unnamedBody"},
           NEW fs \in Seq(Quiet), EnterClass(f, <<g>> \o fs)
    PROVE  OpenStep
<1> DEFINE t == <<g>> \o fs
<1>1. /\ At(f) /\ Continue(t) /\ consumeToken /\ UNCHANGED <<errors, skipping>>
      /\ leaked' = leaked /\ scopes' = <<"class">> \o scopes /\ contexts' = <<"class">> \o contexts
  BY DEF EnterClass, In, PushScope, PushDeclContext
<1>2. g \in Frames \ {"TU"} /\ ScopesOf(g) = <<"class">> /\ ContextsOf(g) = <<"class">>
  BY DEF Frames, ClassFrames, ScopesOf, ContextsOf
<1>3. t \in Seq(Frames \ {"TU"}) /\ ScopesIn(t) = <<"class">> /\ ContextsIn(t) = <<"class">>
  <2>1. <<g>> \in Seq(Frames \ {"TU"}) /\ fs \in Seq(Frames \ {"TU"})
    BY <1>2 DEF Quiet, Loud
  <2>. QED BY <1>2, <2>1, OneLoud
<1> HIDE DEF t
<1>. QED BY <1>1, <1>3, MildConsumed, Opens

LEMMA OpensFunction ==
    ASSUME TypeOK, In("fn", {"lbrace"}),
           PushScope(<<"block", "function">>), PushDeclContext("function"),
           Continue(<<"compound", "fnEnd">>), consumeToken, UNCHANGED <<errors, leaked, skipping>>
    PROVE  OpenStep
<1> DEFINE a == <<"compound">>
           b == <<"fnEnd">>
           t == <<"compound", "fnEnd">>
<1>1. /\ At("fn") /\ Continue(t) /\ scopes' = <<"block", "function">> \o scopes
      /\ contexts' = <<"function">> \o contexts
  BY DEF In, PushScope, PushDeclContext
<1>2. "fn" \in Plain
  BY DEF Plain, Quiet, Skips, Loud, Frames, DeclarationFrames
<1>3. /\ "compound" \in Frames \ {"TU"} /\ "fnEnd" \in Frames \ {"TU"}
      /\ ScopesOf("compound") = <<"block">> /\ ScopesOf("fnEnd") = <<"function">>
      /\ ContextsOf("compound") = <<>> /\ ContextsOf("fnEnd") = <<"function">>
  BY DEF Frames, StatementFrames, DeclarationFrames, ScopesOf, ContextsOf
<1>4. /\ ScopesIn(a) = <<"block">> /\ ScopesIn(b) = <<"function">>
      /\ ContextsIn(a) = <<>> /\ ContextsIn(b) = <<"function">>
  BY <1>3, ScopesInOne
<1>5. a \in Seq(Frames) /\ b \in Seq(Frames) /\ t = a \o b /\ t \in Seq(Frames \ {"TU"})
  BY <1>3
<1> HIDE DEF a, b, t
<1>6. ScopesIn(t) = <<"block">> \o <<"function">> /\ ContextsIn(t) = <<>> \o <<"function">>
  BY <1>4, <1>5, ScopesInConcat
<1>7. <<"block">> \o <<"function">> = <<"block", "function">>
  BY PairConcat
<1>8. <<>> \o <<"function">> = <<"function">>
  <2>1. <<"function">> \in Seq({"function"})
    OBVIOUS
  <2>. QED BY <2>1, ConcatEmptySeq
<1>. QED BY <1>1, <1>2, <1>5, <1>6, <1>7, <1>8, MildConsumed, Opens

-----------------------------------------------------------------------------
(* The steps that close scopes: the innermost frame ends. *)

LEMMA Closes ==
    ASSUME TypeOK, Mild, NEW f \in Frames \ (Skips \cup {"TU"}), At(f), NEW v \in Values, Return(v),
           UNCHANGED leaked,
           scopes' = SubSeq(scopes, Len(ScopesOf(f)) + 1, Len(scopes)),
           contexts' = SubSeq(contexts, Len(ContextsOf(f)) + 1, Len(contexts))
    PROVE  CloseStep
<1>1. stack # <<>> /\ Head(stack) = f /\ stack' = Tail(stack) /\ ret' \in Values
  BY DEF At, Return
<1>. QED BY <1>1 DEF CloseStep, Plainly

\* A scope that is no declaration context.
LEMMA ClosesScopes ==
    ASSUME TypeOK, Mild, NEW f \in {"compound", "forEnd", "template"}, At(f),
           NEW v \in Values, Return(v), PopScope(Len(ScopesOf(f))), SameContext
    PROVE  CloseStep
<1>1. f \in Frames \ (Skips \cup {"TU"}) /\ ContextsOf(f) = <<>>
  BY DEF Frames, StatementFrames, DeclarationFrames, Skips, ContextsOf
<1>2. contexts' = SubSeq(contexts, Len(ContextsOf(f)) + 1, Len(contexts))
  <2>1. contexts \in Seq(ContextKinds) /\ contexts' = contexts
    BY DEF TypeOK, ContextKinds, SameContext
  <2>2. Len(<<>>) + 1 = 1
    OBVIOUS
  <2>3. SubSeq(contexts, 1, Len(contexts)) = contexts
    BY <2>1, SubSeqFull
  <2>. QED BY <1>1, <2>1, <2>2, <2>3
<1>. QED BY <1>1, <1>2, Closes DEF PopScope, SameContext

\* A class or a function: a scope and a declaration context.
LEMMA ClosesContexts ==
    ASSUME IInv, Mild, NEW f \in {"fnEnd", "classBody", "unnamedBody"}, At(f),
           NEW v \in Values, Return(v), PopScope(1), PopDeclContext, UNCHANGED leaked
    PROVE  CloseStep
<1>1. f \in Frames \ (Skips \cup {"TU"}) /\ Len(ScopesOf(f)) = 1 /\ Len(ContextsOf(f)) = 1
  BY DEF Frames, ClassFrames, DeclarationFrames, Skips, ScopesOf, ContextsOf
<1>2. contexts \in Seq(ContextKinds) /\ contexts # <<>>
  <2>1. stack # <<>> /\ stack \in Seq(Frames) /\ contexts \in Seq(ContextKinds)
        /\ contexts = ContextsIn(stack) /\ Head(stack) = f
    BY Matching DEF At
  <2> DEFINE x == ContextsOf(f)
             y == ContextsIn(Tail(stack))
  <2>2. contexts = x \o y /\ Tail(stack) \in Seq(Frames)
    BY <2>1, HeadAndTail
  <2>3. x \in Seq(ContextKinds) /\ y \in Seq(ContextKinds) /\ Len(x) = 1
    BY <1>1, <2>2, ContextsType, ScopesInType
  <2> HIDE DEF x, y
  <2>4. Len(x \o y) = Len(x) + Len(y) /\ Len(y) \in Nat
    BY <2>3, LenConcat
  <2>5. Len(contexts) # 0
    BY <2>2, <2>3, <2>4
  <2>. QED BY <2>1, <2>5
<1>3. contexts' = SubSeq(contexts, Len(ContextsOf(f)) + 1, Len(contexts))
  <2>1. contexts' = Tail(contexts)
    BY DEF PopDeclContext
  <2>2. Tail(contexts) = SubSeq(contexts, 2, Len(contexts))
    BY <1>2
  <2>. QED BY <1>1, <2>1, <2>2
<1>. QED BY <1>1, <1>3, Closes DEF PopScope, IInv

LEMMA compoundCloses ==
    ASSUME TypeOK, Mild, At("compound"), PopScope(1), SameContext, Return("node")
    PROVE  CloseStep
<1>1. Len(ScopesOf("compound")) = 1 /\ "node" \in Values
  BY DEF ScopesOf, Values
<1>. QED BY <1>1, ClosesScopes

LEMMA parseCompoundStatementStep ==
    ASSUME TypeOK, parseCompoundStatement PROVE QuietStep \/ CloseStep
<1>1. CASE /\ In("compound", {"rbrace"})
           /\ PopScope(1) /\ SameContext
           /\ Return("node") /\ consumeToken /\ UNCHANGED <<errors, skipping>>
  BY <1>1, MildConsumed, compoundCloses DEF In
<1>2. CASE /\ In("compound", {"eof"})
           /\ PopScope(1) /\ SameContext
           /\ Return("node") /\ emitError(1) /\ KeepToken /\ UNCHANGED skipping
  BY <1>2, MildReported, compoundCloses DEF In
<1>3. CASE Step("compound", Others({"rbrace", "eof"}), <<"stmt", "compound">>)
  <2>1. At("compound") /\ Continue(<<"stmt", "compound">>) /\ KeepToken
        /\ UNCHANGED <<errors, sema, skipping>>
    BY <1>3 DEF Step, In, Leave
  <2>2. "compound" \in Frames \ Skips /\ "stmt" \in Quiet
    BY DEF Quiet, Loud, Frames, StatementFrames, Skips
  <2>. QED BY <2>1, <2>2, MildKept, Calls
<1>. QED BY <1>1, <1>2, <1>3 DEF parseCompoundStatement

LEMMA BodyStep ==
    ASSUME IInv, NEW f \in {"classBody", "unnamedBody"}, Body(f) PROVE QuietStep \/ CloseStep
<1>1. TypeOK /\ "node" \in Values
  BY DEF IInv, Values
<1>2. CASE Items(f, "member")
  <2>1. f \in Frames \ Skips /\ "member" \in Quiet
    BY DEF Quiet, Loud, Frames, ClassFrames, Skips
  <2>. QED BY <1>1, <1>2, <2>1, ItemsAgain
<1>3. CASE /\ ret # "null" /\ In(f, {"rbrace"}) /\ LeaveClass
           /\ consumeToken /\ UNCHANGED <<errors, skipping>>
  BY <1>1, <1>3, MildConsumed, ClosesContexts DEF In, LeaveClass
<1>4. CASE /\ ret # "null" /\ In(f, {"eof"}) /\ LeaveClass
           /\ emitError(1) /\ KeepToken /\ UNCHANGED skipping
  BY <1>1, <1>4, MildReported, ClosesContexts DEF In, LeaveClass
<1>. QED BY <1>2, <1>3, <1>4 DEF Body

LEMMA parseTemplateDeclarationStep ==
    ASSUME TypeOK, parseTemplateDeclaration PROVE CloseStep \/ LeakStep
<1>1. Len(ScopesOf("template")) = 2 /\ {"node", "null"} \subseteq Values
  BY DEF ScopesOf, Values
<1>2. CASE NothingToTemplate
  BY <1>1, <1>2, MildKept, ClosesScopes DEF NothingToTemplate
<1>3. CASE /\ At("template") /\ ret = "var"
           /\ leaked' = leaked + 1 /\ UNCHANGED <<scopes, contexts>>
           /\ Return("null") /\ KeepToken /\ First("meaning")
           /\ UNCHANGED <<ConsecutiveErrors, skipping>>
  <2>1. Mild
    BY <1>3, Kept DEF Mild, First, TypeOK, Faults
  <2>2. stack # <<>> /\ Head(stack) = "template" /\ stack' = Tail(stack) /\ ret' \in Values
    BY <1>1, <1>3 DEF At, Return
  <2>. QED BY <1>3, <2>1, <2>2 DEF LeakStep, Plainly, Skips
<1>4. CASE /\ At("template") /\ ret \notin {"null", "var"}
           /\ PopScope(2) /\ SameContext
           /\ Return("node") /\ KeepToken /\ UNCHANGED <<errors, skipping>>
  BY <1>1, <1>4, MildKept, ClosesScopes
<1>. QED BY <1>2, <1>3, <1>4 DEF parseTemplateDeclaration

LEMMA parseTranslationUnitStep ==
    ASSUME TypeOK, parseTranslationUnit PROVE QuietStep \/ EndStep
<1>1. At("TU") /\ "TU" \in Frames \ Skips
  BY DEF parseTranslationUnit, Frames, DeclarationFrames, Skips
<1>2. {"directive", "decl", "aggressive", "nextStmt", "nextDecl"} \subseteq Quiet
  BY DEF Quiet, Loud, Frames, SharedFrames, DeclarationFrames
<1>3. CASE /\ Continue(<<"TU">>) /\ KeepToken /\ ConsecutiveErrors' = 0
           /\ UNCHANGED <<fault, sema, skipping>>
  <2>1. Mild
    BY <1>3, Kept DEF Mild, TypeOK, Faults, AggressiveAt
  <2> DEFINE e == <<>>
  <2>2. stack # <<>> /\ Head(stack) = "TU" /\ e \in Seq(Quiet) /\ ret' \in Values
        /\ stack' = e \o stack
    <3>1. stack \in Seq(Frames) /\ stack # <<>> /\ Head(stack) = "TU" /\ stack' = <<"TU">> \o Tail(stack)
          /\ ret' = "none"
      BY <1>1, <1>3 DEF TypeOK, At, Continue
    <3>2. <<Head(stack)>> \o Tail(stack) = stack
      BY <3>1
    <3>. QED BY <3>1, <3>2 DEF Values
  <2> HIDE DEF e
  <2>. QED BY <1>3, <2>1, <2>2 DEF QuietStep, Plainly, Skips
<1>4. CASE /\ Continue(<<determineRecoveryLevel, "TU">>) /\ KeepToken
           /\ ConsecutiveErrors' = IF ConsecutiveErrors < AggressiveAt
                                   THEN ConsecutiveErrors + 1 ELSE AggressiveAt
           /\ UNCHANGED <<fault, sema, skipping>>
  <2>1. Mild
    BY <1>4, Kept DEF Mild, TypeOK, Faults, AggressiveAt
  <2>2. PICK a \in Quiet : Continue(<<a, "TU">>)
    BY <1>2, <1>4 DEF determineRecoveryLevel, Continue
  <2>. QED BY <1>1, <1>4, <2>1, <2>2, Calls
<1>5. CASE Done("TU", {"eof"}, "none")
  <2>1. /\ Return("none") /\ KeepToken /\ UNCHANGED <<errors, sema, skipping>>
    BY <1>5 DEF Done, In, Leave
  <2>2. stack # <<>> /\ Head(stack) = "TU" /\ stack' = Tail(stack) /\ ret' \in Values
    BY <1>1, <2>1 DEF At, Return, Values
  <2>. QED BY <2>1, <2>2, MildKept DEF EndStep, Plainly, Skips
<1>6. CASE Shift("TU", {"hash"}, <<"directive", "TU">>)
  <2>1. Continue(<<"directive", "TU">>) /\ consumeToken /\ UNCHANGED <<errors, sema, skipping>>
    BY <1>6 DEF Shift, Accept
  <2>. QED BY <1>1, <1>2, <2>1, MildConsumed, Calls
<1>7. CASE Step("TU", Others({"eof", "hash"}), <<"decl", "TU">>)
  <2>1. Continue(<<"decl", "TU">>) /\ KeepToken /\ UNCHANGED <<errors, sema, skipping>>
    BY <1>7 DEF Step, Leave
  <2>. QED BY <1>1, <1>2, <2>1, MildKept, Calls
<1>. QED BY <1>3, <1>4, <1>5, <1>6, <1>7 DEF parseTranslationUnit

-----------------------------------------------------------------------------
(* The parse functions that open scopes. *)

LEMMA HeadsQuiet ==
    /\ \A k \in DOMAIN StatementHeads : StatementHeads[k] \in Seq(Quiet)
    /\ \A k \in DOMAIN DeclarationHeads : DeclarationHeads[k] \in Seq(Quiet)
<1>1. {"return", "goto", "if", "while", "stmt", "doWhile", "for", "try", "semi", "misplaced",
       "label"} \subseteq Quiet
  BY DEF Quiet, Loud, Frames, SharedFrames, StatementFrames
<1>2. {"ns", "class", "optSemi", "using", "enum", "union", "typedef", "linkage", "export",
       "assert"} \subseteq Quiet
  BY DEF Quiet, Loud, Frames, DeclarationFrames, ClassFrames
<1>3. /\ <<"return">> \in Seq(Quiet) /\ <<"goto">> \in Seq(Quiet) /\ <<"if">> \in Seq(Quiet)
      /\ <<"while">> \in Seq(Quiet) /\ <<"stmt", "doWhile">> \in Seq(Quiet)
      /\ <<"for">> \in Seq(Quiet) /\ <<"try">> \in Seq(Quiet)
      /\ <<"semi", "misplaced">> \in Seq(Quiet) /\ <<"label", "misplaced">> \in Seq(Quiet)
      /\ <<"label">> \in Seq(Quiet)
  BY <1>1
<1>4. Expression \o <<"label", "misplaced">> \in Seq(Quiet)
  BY <1>3, ExpressionQuiet
<1>5. \A k \in DOMAIN StatementHeads : StatementHeads[k] \in Seq(Quiet)
  <2>1. DOMAIN StatementHeads = {"return", "goto", "if", "while", "switch", "do", "for", "try",
                                 "break", "case", "default", "idc"}
    BY DEF StatementHeads
  <2>2. /\ StatementHeads["return"] \in Seq(Quiet) /\ StatementHeads["goto"] \in Seq(Quiet)
        /\ StatementHeads["if"] \in Seq(Quiet) /\ StatementHeads["while"] \in Seq(Quiet)
        /\ StatementHeads["switch"] \in Seq(Quiet) /\ StatementHeads["do"] \in Seq(Quiet)
        /\ StatementHeads["for"] \in Seq(Quiet) /\ StatementHeads["try"] \in Seq(Quiet)
        /\ StatementHeads["break"] \in Seq(Quiet) /\ StatementHeads["case"] \in Seq(Quiet)
        /\ StatementHeads["default"] \in Seq(Quiet) /\ StatementHeads["idc"] \in Seq(Quiet)
    BY <1>3, <1>4 DEF StatementHeads
  <2>. QED BY <2>1, <2>2
<1>6. /\ <<"ns">> \in Seq(Quiet) /\ <<"class", "optSemi">> \in Seq(Quiet)
      /\ <<"using">> \in Seq(Quiet) /\ <<"enum", "optSemi">> \in Seq(Quiet)
      /\ <<"union", "optSemi">> \in Seq(Quiet) /\ <<"typedef">> \in Seq(Quiet)
      /\ <<"linkage">> \in Seq(Quiet) /\ <<"export">> \in Seq(Quiet)
      /\ <<"assert">> \in Seq(Quiet)
  BY <1>2
<1>7. \A k \in DOMAIN DeclarationHeads : DeclarationHeads[k] \in Seq(Quiet)
  <2>1. DOMAIN DeclarationHeads = {"namespace", "class", "using", "enum", "union", "typedef",
                                   "extern", "export", "static_assert"}
    BY DEF DeclarationHeads
  <2>2. /\ DeclarationHeads["namespace"] \in Seq(Quiet) /\ DeclarationHeads["class"] \in Seq(Quiet)
        /\ DeclarationHeads["using"] \in Seq(Quiet) /\ DeclarationHeads["enum"] \in Seq(Quiet)
        /\ DeclarationHeads["union"] \in Seq(Quiet) /\ DeclarationHeads["typedef"] \in Seq(Quiet)
        /\ DeclarationHeads["extern"] \in Seq(Quiet) /\ DeclarationHeads["export"] \in Seq(Quiet)
        /\ DeclarationHeads["static_assert"] \in Seq(Quiet)
    BY <1>6 DEF DeclarationHeads
  <2>. QED BY <2>1, <2>2
<1>. QED BY <1>5, <1>7

LEMMA parseStatementStep ==
    ASSUME TypeOK, parseStatement PROVE QuietStep \/ OpenStep
<1>1. "stmt" \in Plain /\ <<"decl">> \in Seq(Quiet) /\ Expression \o <<"exprStmt">> \in Seq(Quiet)
      /\ <<>> \in Seq(Quiet)
  <2>1. {"stmt", "decl", "exprStmt"} \subseteq Plain
    BY DEF Plain, Quiet, Skips, Loud, Frames, StatementFrames, DeclarationFrames
  <2>2. <<"exprStmt">> \in Seq(Quiet) /\ <<"decl">> \in Seq(Quiet)
    BY <2>1 DEF Plain
  <2>. QED BY <2>1, <2>2, ExpressionQuiet
<1>2. CASE In("stmt", DOMAIN StatementHeads) /\ Accept(Continue(StatementHeads[Tok]))
  <2>1. PICK fs \in Seq(Quiet) : Continue(fs)
    BY <1>2, HeadsQuiet DEF In, Accept, Continue
  <2>2. At("stmt") /\ consumeToken /\ UNCHANGED <<errors, sema, skipping>>
    BY <1>2 DEF In, Accept
  <2>. QED BY <1>1, <2>1, <2>2, MildConsumed, Continues
<1>3. CASE EnterBlock("stmt", <<>>)
  BY <1>1, <1>3, OpensBlock
<1>. QED BY <1>1, <1>2, <1>3, FinishQuiet, LeaveQuiet DEF parseStatement, In, Values

LEMMA parseDeclarationStep ==
    ASSUME TypeOK, parseDeclaration PROVE QuietStep \/ OpenStep
<1>1. "decl" \in Plain /\ <<"specifiers">> \in Seq(Quiet)
  <2>1. {"decl", "specifiers"} \subseteq Plain
    BY DEF Plain, Quiet, Skips, Loud, Frames, DeclarationFrames
  <2>. QED BY <2>1 DEF Plain
<1>2. CASE In("decl", DOMAIN DeclarationHeads) /\ Accept(Continue(DeclarationHeads[Tok]))
  <2>1. PICK fs \in Seq(Quiet) : Continue(fs)
    BY <1>2, HeadsQuiet DEF In, Accept, Continue
  <2>2. At("decl") /\ consumeToken /\ UNCHANGED <<errors, sema, skipping>>
    BY <1>2 DEF In, Accept
  <2>. QED BY <1>1, <2>1, <2>2, MildConsumed, Continues
<1>. QED BY <1>1, <1>2, OpensTemplate, OptionalSemiQuiet, StepQuiet DEF parseDeclaration

LEMMA parseForStatementStep ==
    ASSUME TypeOK, parseForStatement PROVE QuietStep \/ OpenStep \/ CloseStep
<1>1. {"semi", "close", "for", "stmt", "forInit", "forCond", "forStep", "decl"} \subseteq Plain
  BY DEF Plain, Quiet, Skips, Loud, Frames, SharedFrames, StatementFrames, DeclarationFrames
<1>2. /\ <<"forInit">> \in Seq(Quiet) /\ <<"decl">> \in Seq(Quiet) /\ <<>> \in Seq(Quiet)
      /\ <<"forStep">> \in Seq(Quiet) /\ <<"stmt">> \in Seq(Quiet)
      /\ Expression \o <<"semi">> \in Seq(Quiet)
      /\ Expression \o <<"semi", "forStep">> \in Seq(Quiet)
      /\ Expression \o <<"close", "stmt">> \in Seq(Quiet)
  <2>1. /\ <<"semi">> \in Seq(Quiet) /\ <<"semi", "forStep">> \in Seq(Quiet)
        /\ <<"close", "stmt">> \in Seq(Quiet)
    BY <1>1 DEF Plain
  <2>. QED BY <1>1, <2>1, ExpressionQuiet DEF Plain
<1>3. CASE /\ At("forEnd")
           /\ PopScope(1) /\ SameContext
           /\ Return("node") /\ KeepToken /\ UNCHANGED <<errors, skipping>>
  <2>1. Len(ScopesOf("forEnd")) = 1 /\ "node" \in Values
    BY DEF ScopesOf, Values
  <2>. QED BY <1>3, <2>1, MildKept, ClosesScopes
<1>. QED BY <1>1, <1>2, <1>3, ShiftQuiet, StepQuiet, RejectQuiet, OpensFor
        DEF parseForStatement, In, Values

LEMMA parseCXXTryStatementStep ==
    ASSUME TypeOK, parseCXXTryStatement PROVE QuietStep \/ OpenStep
<1>1. {"try", "handlers", "catch"} \subseteq Plain
  BY DEF Plain, Quiet, Skips, Loud, Frames, StatementFrames
<1>2. <<"handlers">> \in Seq(Quiet) /\ <<"catch", "handlers">> \in Seq(Quiet)
  BY <1>1 DEF Plain
<1>. QED BY <1>1, <1>2, OpensBlock, RejectQuiet, ShiftQuiet, DoneQuiet
        DEF parseCXXTryStatement, Values

LEMMA parseCXXCatchClauseStep ==
    ASSUME TypeOK, parseCXXCatchClause PROVE QuietStep \/ OpenStep
<1>1. {"close", "catch", "catchType", "catchName", "catchBody"} \subseteq Plain
  BY DEF Plain, Quiet, Skips, Loud, Frames, SharedFrames, StatementFrames
<1>2. /\ <<"catchType", "close", "catchBody">> \in Seq(Quiet)
      /\ <<"catchName">> \in Seq(Quiet) /\ <<>> \in Seq(Quiet)
  BY <1>1 DEF Plain
<1>. QED BY <1>1, <1>2, OpensBlock, RejectQuiet, ShiftQuiet, FinishQuiet, DoneQuiet
        DEF parseCXXCatchClause, Values

LEMMA buildFunctionDeclStep ==
    ASSUME IInv, buildFunctionDecl PROVE QuietStep \/ OpenStep \/ CloseStep
<1>1. {"fn", "fnDefault", "fnSemi", "paramList"} \subseteq Plain
  BY DEF Plain, Quiet, Skips, Loud, Frames, DeclarationFrames
<1>2. /\ <<"paramList", "fn">> \in Seq(Quiet) /\ <<"fnDefault">> \in Seq(Quiet)
      /\ <<"fnSemi">> \in Seq(Quiet)
  BY <1>1 DEF Plain
<1>3. TypeOK /\ "fn" \in Values
  BY DEF IInv, Values
<1>4. CASE /\ At("fnEnd")
           /\ PopScope(1) /\ PopDeclContext /\ UNCHANGED leaked
           /\ Return("fn") /\ KeepToken /\ UNCHANGED <<errors, skipping>>
  BY <1>3, <1>4, MildKept, ClosesContexts
<1>5. CASE FunctionSemi
  BY <1>1, <1>3, <1>5, FinishQuiet, DoneQuiet DEF FunctionSemi
<1>6. CASE /\ In("fn", {"lbrace"})
           /\ PushScope(<<"block", "function">>) /\ PushDeclContext("function")
           /\ Continue(<<"compound", "fnEnd">>)
           /\ consumeToken /\ UNCHANGED <<errors, leaked, skipping>>
  BY <1>3, <1>6, OpensFunction
<1>. QED BY <1>1, <1>2, <1>3, <1>4, <1>5, <1>6, ShiftQuiet, StepQuiet, TerminatorQuiet, StayQuiet
        DEF buildFunctionDecl, In

\* A class whose body is all that follows.
LEMMA OpensBody ==
    ASSUME TypeOK, NEW f \in Plain, NEW g \in {"classBody", "unnamedBody"},
           EnterClass(f, <<g>>) \/ EnterClass(f, <<g, "optSemi">>)
    PROVE  OpenStep
<1>1. <<>> \in Seq(Quiet) /\ <<"optSemi">> \in Seq(Quiet)
  <2>1. "optSemi" \in Quiet
    BY DEF Quiet, Loud, Frames, DeclarationFrames
  <2>. QED BY <2>1
<1>2. PICK fs \in Seq(Quiet) : EnterClass(f, <<g>> \o fs)
  <2>1. CASE EnterClass(f, <<g>>)
    <3>1. <<g>> \o <<>> = <<g>>
      <4>1. <<g>> \in Seq({g})
        OBVIOUS
      <4>. QED BY <4>1, ConcatEmptySeq
    <3>. QED BY <1>1, <2>1, <3>1
  <2>2. CASE EnterClass(f, <<g, "optSemi">>)
    <3>1. <<g>> \o <<"optSemi">> = <<g, "optSemi">>
      BY PairConcat
    <3>. QED BY <1>1, <2>2, <3>1
  <2>. QED BY <2>1, <2>2
<1>. QED BY <1>2, OpensClass

LEMMA parseClassDeclarationStep ==
    ASSUME TypeOK, parseClassDeclaration PROVE QuietStep \/ OpenStep
<1>1. {"class", "classOpen", "classBrace", "unnamedBrace", "bases"} \subseteq Plain
  BY DEF Plain, Quiet, Skips, Loud, Frames, ClassFrames
<1>2. /\ <<"classOpen">> \in Seq(Quiet)
      /\ <<"bases", "unnamedBrace">> \in Seq(Quiet)
      /\ <<"bases", "classBrace">> \in Seq(Quiet)
      /\ <<"classBrace">> \in Seq(Quiet)
  BY <1>1 DEF Plain
<1>. QED BY <1>1, <1>2, OpensBody, ShiftQuiet, StepQuiet, RejectQuiet
        DEF parseClassDeclaration, Values

LEMMA parseUnionDeclarationStep ==
    ASSUME TypeOK, parseUnionDeclaration PROVE QuietStep \/ OpenStep
<1>1. {"union", "unionBrace"} \subseteq Plain
  BY DEF Plain, Quiet, Skips, Loud, Frames, ClassFrames
<1>2. <<"unionBrace">> \in Seq(Quiet)
  BY <1>1 DEF Plain
<1>. QED BY <1>1, <1>2, OpensBody, ShiftQuiet, RejectQuiet
        DEF parseUnionDeclaration, Values

LEMMA MethodStep ==
    ASSUME TypeOK, Method PROVE QuietStep \/ OpenStep
<1>1. {"optSemi", "memberRest", "methodParams", "method", "methodDefault"} \subseteq Plain
  BY DEF Plain, Quiet, Skips, Loud, Frames, DeclarationFrames, ClassFrames
<1>2. /\ <<"method">> \in Seq(Quiet)
      /\ <<"methodParams", "method">> \in Seq(Quiet)
      /\ <<"optSemi">> \in Seq(Quiet)
      /\ <<"methodDefault">> \in Seq(Quiet)
  BY <1>1 DEF Plain
<1>. QED BY <1>1, <1>2, OpensBlock, ShiftQuiet, StepQuiet, NoParametersQuiet DEF Method

LEMMA parseConstructorDeclarationStep ==
    ASSUME TypeOK, parseConstructorDeclaration PROVE QuietStep \/ OpenStep
<1>1. {"skipDecl", "methodParams", "ctor", "dropped", "ctorRest", "ctorBody", "mem"} \subseteq Plain
  BY DEF Plain, Quiet, Skips, Loud, Frames, SharedFrames, ClassFrames
<1>2. /\ <<"ctorRest">> \in Seq(Quiet)
      /\ <<"methodParams", "ctorRest">> \in Seq(Quiet)
      /\ <<"skipDecl", "dropped">> \in Seq(Quiet)
      /\ <<"mem", "ctorBody">> \in Seq(Quiet)
      /\ <<"ctorBody">> \in Seq(Quiet) /\ <<>> \in Seq(Quiet)
  BY <1>1 DEF Plain
<1>. QED BY <1>1, <1>2, OpensBlock, ShiftQuiet, StepQuiet, ReportQuiet, DoneQuiet, PassQuiet,
            NoParametersQuiet
        DEF parseConstructorDeclaration, Values

LEMMA skipUntilNextDeclarationStep ==
    ASSUME IInv, skipUntilNextDeclaration PROVE QuietStep \/ SkipStep
<1>1. {"nextDecl.block", "nextDecl.after"} \subseteq Plain
  BY DEF Plain, Quiet, Skips, Loud, Frames, SharedFrames
<1>2. <<"nextDecl.after">> \in Seq(Quiet) /\ <<"nextDecl">> \in Seq(Quiet)
  <2>1. "nextDecl" \in Quiet
    BY DEF Quiet, Loud, Frames, SharedFrames
  <2>. QED BY <1>1, <2>1 DEF Plain
<1>3. TypeOK /\ "none" \in Values
  BY DEF IInv, Values
<1>4. \/ CountingSkips
      \/ Shift("nextDecl.block", {"rbrace"}, <<"nextDecl.after">>)
      \/ Step("nextDecl.block", Others({"rbrace"}), <<"nextDecl.after">>)
      \/ Done("nextDecl.after", Declaration, "none")
      \/ Step("nextDecl.after", Others(Declaration), <<"nextDecl">>)
  BY DEF skipUntilNextDeclaration, CountingSkips
<1>. QED BY <1>1, <1>2, <1>3, <1>4, CountingIsSkip, ShiftQuiet, StepQuiet, DoneQuiet

-----------------------------------------------------------------------------
(* The invariant, and the two theorems. *)

LEMMA RecoveryKeeps == IInv /\ Recovery => IInv'
<1> SUFFICES ASSUME IInv, Recovery PROVE IInv'
  OBVIOUS
<1>1. QuietStep \/ SkipStep
  <2>1. TypeOK
    BY DEF IInv
  <2>. QED BY <2>1, skipUntilQuiet, BalancedSkips, skipUntilNextDeclarationStep,
              skipUntilNextStatementQuiet DEF Recovery
<1>. QED BY <1>1, QuietKeeps, SkipKeeps

LEMMA ExpressionsKeep == IInv /\ (Ends \/ Expressions) => IInv'
<1> SUFFICES ASSUME IInv, Ends \/ Expressions PROVE IInv'
  OBVIOUS
<1>1. TypeOK
  BY DEF IInv
<1>2. QuietStep
  BY <1>1, EndsQuiet, parsePrimaryExpressionQuiet, parseUnaryExpressionQuiet, KeepRefusedQuiet,
     parsePostfixExpressionQuiet, parseCallExpressionQuiet, parseCallArgumentsQuiet,
     parseParenExpressionQuiet, parseRHSQuiet, parseConditionalExpressionQuiet,
     parseAssignmentExpressionQuiet, parseInitializerListQuiet, parseInitializerClauseQuiet,
     parseDesignatedInitializerQuiet
     DEF Expressions
<1>. QED BY <1>2, QuietKeeps

LEMMA StatementsKeep == IInv /\ Statements => IInv'
<1> SUFFICES ASSUME IInv, Statements PROVE IInv'
  OBVIOUS
<1>1. TypeOK
  BY DEF IInv
<1>2. QuietStep \/ OpenStep \/ CloseStep
  BY <1>1, parseStatementStep, parseCompoundStatementStep, MisplacedQuiet,
     parseReturnStatementQuiet, parseExpressionStatementQuiet, parseLabelStatementQuiet,
     parseGotoStatementQuiet, parseConditionQuiet, parseIfStatementQuiet,
     parseWhileStatementQuiet, parseDoStatementQuiet, parseForStatementStep,
     parseCXXForRangeStatementQuiet, parseCXXTryStatementStep, parseCXXCatchClauseStep
     DEF Statements
<1>. QED BY <1>2, QuietKeeps, OpenKeeps, CloseKeeps

LEMMA DeclarationsKeep == IInv /\ Declarations => IInv'
<1> SUFFICES ASSUME IInv, Declarations PROVE IInv'
  OBVIOUS
<1>1. TypeOK
  BY DEF IInv
<1>2. QuietStep \/ OpenStep \/ CloseStep \/ LeakStep \/ EndStep
  BY <1>1, parseTranslationUnitStep, skipPreprocessingDirectiveQuiet, parseDeclarationStep,
     parseDeclSpecifierSeqQuiet, parseDeclaratorQuiet, buildVarDeclQuiet, buildFunctionDeclStep,
     parseFunctionDeclaratorInfoQuiet, parseParameterDeclarationQuiet,
     parseNamespaceDeclarationQuiet, parseNamespaceBodyQuiet, parseUsingDeclarationQuiet,
     parseTypedefDeclarationQuiet, parseLinkageSpecDeclarationQuiet,
     parseExportDeclarationQuiet, parseEnumDeclarationQuiet, parseEnumBodyQuiet,
     parseStaticAssertDeclarationQuiet, parseTemplateDeclarationStep
     DEF Declarations
<1>. QED BY <1>2, QuietKeeps, OpenKeeps, CloseKeeps, LeakKeeps, EndKeeps

LEMMA ClassesKeep == IInv /\ Classes => IInv'
<1> SUFFICES ASSUME IInv, Classes PROVE IInv'
  OBVIOUS
<1>1. TypeOK
  BY DEF IInv
<1>2. QuietStep \/ OpenStep \/ CloseStep
  BY <1>1, parseClassDeclarationStep, parseUnionDeclarationStep, parseBaseClauseQuiet, BodyStep,
     parseClassMemberQuiet, parseAccessSpecifierQuiet, FieldQuiet, ParametersQuiet, MethodStep,
     parseConstructorDeclarationStep, parseDestructorDeclarationQuiet,
     parseMemberInitializerListQuiet, parseMemberInitializerQuiet, parseFriendDeclarationQuiet
     DEF Classes, parseClassBody
<1>. QED BY <1>2, QuietKeeps, OpenKeeps, CloseKeeps

LEMMA InitHolds == Init => IInv
<1> SUFFICES ASSUME Init PROVE IInv
  OBVIOUS
<1>1. /\ stack = <<"TU">> /\ scopes = <<"TU">> /\ contexts = <<"TU">> /\ leaked = 0
      /\ counter = 0 /\ parens = 0
  BY DEF Init
<1>2. MaxDepth \in Nat /\ MaxSkipTokens \in Nat
  BY BoundsAssumption
<1>3. "TU" \in Frames /\ ScopesOf("TU") = <<"TU">> /\ ContextsOf("TU") = <<"TU">>
  BY DEF Frames, DeclarationFrames, ScopesOf, ContextsOf
<1>4. TypeOK
  <2>1. Tok \in Kinds /\ vocabulary \in Vocabularies
    <3>1. vocabulary \in Vocabularies
      BY DEF Init
    <3>2. vocabulary.kinds \subseteq Kinds
      BY <3>1, BoundsAssumption
    <3>. QED BY <3>1, <3>2 DEF Init, Kinds
  <2>2. <<"TU">> \in Seq(Frames) /\ <<"TU">> \in Seq(ScopeKinds) /\ <<"TU">> \in Seq(ContextKinds)
    BY <1>3 DEF ScopeKinds, ContextKinds
  <2>3. counter \in 0 .. (IF At("nextDecl") THEN MaxSkipTokens ELSE MaxDepth + 2)
        /\ parens \in 0 .. MaxDepth + 1
    BY <1>1, <1>2
  <2>4. ret \in Values /\ ConsecutiveErrors \in 0 .. AggressiveAt
        /\ fault \in {"none", "syntax", "meaning", "silent"}
    BY DEF Init, Values, AggressiveAt
  <2>6. moved \in BOOLEAN
    BY DEF Init
  <2>5. leaked \in Nat
    BY <1>1
  <2>. QED BY <1>1, <2>1, <2>2, <2>3, <2>4, <2>5, <2>6 DEF TypeOK, ScopeKinds, ContextKinds
<1>5. ScopesMatch
  <2>1. OpenScopes = ScopesIn(<<"TU">>) /\ OpenContexts = ContextsIn(<<"TU">>)
    BY <1>1, <1>4, OpenIs
  <2>2. ScopesIn(<<"TU">>) = <<"TU">> /\ ContextsIn(<<"TU">>) = <<"TU">>
    BY <1>3, ScopesInOne
  <2>. QED BY <1>1, <2>1, <2>2 DEF ScopesMatch
<1>. QED BY <1>1, <1>2, <1>4, <1>5 DEF IInv, TUAtBottom, CountersAtRest

LEMMA StutterKeeps == IInv /\ UNCHANGED vars => IInv'
BY DEF IInv, vars, control, errors, sema, skipping, TypeOK, TUAtBottom, CountersAtRest, ScopesMatch,
       OpenScopes, OpenContexts, At, AtOne

(* Every parse function, every way of recovery and every answer of Sema      *)
(* leaves the scopes and contexts as the frames that are still open have     *)
(* them, with the types and counters that takes.                             *)
THEOREM ParserInvariant == Spec => []IInv
<1>1. IInv /\ [Next]_vars => IInv'
  BY RecoveryKeeps, ExpressionsKeep, StatementsKeep, DeclarationsKeep, ClassesKeep, StutterKeeps
     DEF Next
<1>. QED BY <1>1, InitHolds, PTL DEF Spec

(* Whatever the input and the bounds, the state keeps its type: a call stack *)
(* of known frames, and counters of the skipping loops within their limits.  *)
THEOREM TypeCorrect == Spec => []TypeOK
<1>1. IInv => TypeOK
  BY DEF IInv
<1>. QED BY <1>1, ParserInvariant, PTL

(* Whatever the input, the chain of scopes and the stack of contexts of Sema *)
(* are those of the constructs the call stack has open, and those a variable *)
(* template has leaked: no early return forgets to pop one.                  *)
THEOREM ScopesAlwaysMatch == Spec => []ScopesMatch
<1>1. IInv => ScopesMatch
  BY DEF IInv
<1>. QED BY <1>1, ParserInvariant, PTL
=============================================================================
