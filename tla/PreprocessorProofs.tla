-------------------------- MODULE PreprocessorProofs -------------------------
(***************************************************************************)
(* Proofs about the directive machine, for every set of lines, every      *)
(* header layout and every bound.                                          *)
(***************************************************************************)
EXTENDS MCHeaders, SequenceTheorems, WellFoundedInduction, TLAPS

(***************************************************************************)
(* The inductive invariant, one section at a time.  A recorded "found"     *)
(* means that a group of a section outside skipped text was taken, and a   *)
(* group taken earlier is always recorded: without these two facts the     *)
(* properties of the section stack are not inductive.                      *)
(***************************************************************************)
SectionOK(s, skipped) ==
    /\ s.was => skipped
    /\ s.past => skipped /\ s.found
    /\ ~s.was /\ (s.els \/ s.found) => s.past \/ ~skipped
    /\ ~skipped => s.found \/ s.els

Skip(c, s, i) == IF i = Len(c) THEN s ELSE c[i + 1].was

SectionsOK(c, s) ==
    /\ c \in Seq(Section)
    /\ s \in BOOLEAN
    /\ c = <<>> => ~s
    /\ c # <<>> => ~c[1].was
    /\ \A i \in 1 .. Len(c) : SectionOK(c[i], Skip(c, s, i))

SectionInv == SectionsOK(cond, skipping)

\* #elif, #elifdef, #elifndef or #else (e) in its place.
GoOn(c, e) == (e => c) /\ ~NoGroupLeft /\ cond # <<>> /\ NextGroup(c, e)

\* The ways a step can change the open sections.
SectionStep ==
    \/ UNCHANGED sections
    \/ cond' = <<>> /\ skipping' = FALSE
    \/ \E c \in BOOLEAN : OpenSection(c)
    \/ \E c, e \in BOOLEAN : GoOn(c, e)
    \/ cond # <<>> /\ CloseSection

(* Every step of the machine changes the sections in one of these ways.    *)
LEMMA NextIsSectionStep == [Next]_vars => SectionStep
<1> SUFFICES ASSUME [Next]_vars PROVE SectionStep
  OBVIOUS
<1>1. CASE UNCHANGED vars
  BY <1>1 DEF vars, SectionStep
<1>2. CASE \E f \in MainFiles : EnterSourceFile(f)
  BY <1>2 DEF EnterSourceFile, SectionStep
<1>3. CASE Reset
  BY <1>3 DEF Reset, SectionStep
<1>4. CASE EndOfDirective \/ EndOfFile
  BY <1>4 DEF EndOfDirective, EndOfFile, SectionStep
<1>5. ASSUME NEW l \in Lines, Text(l)
      PROVE  SectionStep
  BY <1>5 DEF Text, SectionStep
<1>6. ASSUME NEW l \in Lines, HandleDirective(l)
      PROVE  SectionStep
  <2>1. CASE Define(l) \/ Undef(l) \/ BadDirective(l)
    BY <2>1 DEF Define, Undef, BadDirective, SectionStep
  <2>2. CASE If(l) \/ Ifdef(l) \/ Ifndef(l)
    <3>1. \E c \in BOOLEAN : OpenSection(c)
      <4>1. OpenSection(l.n \in macros) \/ OpenSection(l.n \notin macros)
        BY <2>2 DEF If, Ifdef, Ifndef
      <4>2. (l.n \in macros) \in BOOLEAN /\ (l.n \notin macros) \in BOOLEAN
        OBVIOUS
      <4>. QED BY <4>1, <4>2
    <3>. QED BY <3>1 DEF SectionStep
  <2>3. CASE Elif(l) \/ Elifdef(l) \/ Elifndef(l) \/ Else(l)
    <3>1. ~NoGroupLeft /\ cond # <<>>
      BY <2>3 DEF Elif, Elifdef, Elifndef, Else, NoGroupLeft
    <3>2. \E c, e \in BOOLEAN : (e => c) /\ NextGroup(c, e)
      <4>1. \/ NextGroup(l.n \in macros, FALSE)
            \/ NextGroup(l.n \notin macros, FALSE)
            \/ NextGroup(TRUE, TRUE)
        BY <2>3 DEF Elif, Elifdef, Elifndef, Else
      <4>2. (l.n \in macros) \in BOOLEAN /\ (l.n \notin macros) \in BOOLEAN
        OBVIOUS
      <4>. QED BY <4>1, <4>2
    <3>. QED BY <3>1, <3>2 DEF SectionStep, GoOn
  <2>4. CASE Endif(l)
    BY <2>4 DEF Endif, SectionStep
  <2>5. CASE Misplaced(l)
    BY <2>5 DEF Misplaced, SectionStep
  <2>6. CASE Include(l) \/ IncludeRefused(l) \/ IncludeNext(l)
    BY <2>6 DEF Include, IncludeRefused, IncludeNext, SectionStep
  <2>7. CASE PragmaOnce(l) \/ LineDirective(l)
    BY <2>7 DEF PragmaOnce, LineDirective, SectionStep
  <2>. QED BY <1>6, <2>1, <2>2, <2>3, <2>4, <2>5, <2>6, <2>7 DEF HandleDirective
<1>. QED BY <1>1, <1>2, <1>3, <1>4, <1>5, <1>6 DEF Next

LEMMA EmptyKeepsInv == SectionsOK(<<>>, FALSE)
<1>1. <<>> \in Seq(Section) /\ Len(<<>>) = 0
  OBVIOUS
<1>2. 1 .. 0 = {}
  OBVIOUS
<1>. QED BY <1>1, <1>2 DEF SectionsOK

(* Opening a section keeps the invariant.                                  *)
LEMMA OpenKeepsInv ==
    ASSUME NEW c, NEW s, SectionsOK(c, s), NEW b \in BOOLEAN
    PROVE  SectionsOK(Append(c, [was |-> s, found |-> b, els |-> FALSE,
                                 past |-> FALSE]), s \/ ~b)
<1> DEFINE new == [was |-> s, found |-> b, els |-> FALSE, past |-> FALSE]
           d == Append(c, new)
           t == (s \/ ~b)
<1>1. new \in Section /\ s \in BOOLEAN /\ c \in Seq(Section)
  BY DEF Section, SectionsOK
<1>2. /\ d \in Seq(Section) /\ Len(d) = Len(c) + 1 /\ Len(c) \in Nat
      /\ \A i \in 1 .. Len(c) : d[i] = c[i]
      /\ d[Len(c) + 1] = new
  BY <1>1
<1>3. ~d[1].was
  <2>1. CASE c = <<>>
    BY <2>1, <1>2 DEF SectionsOK
  <2>2. CASE c # <<>>
    BY <2>2, <1>1, <1>2 DEF SectionsOK
  <2>. QED BY <2>1, <2>2
<1>4. ASSUME NEW i \in 1 .. Len(d)
      PROVE  SectionOK(d[i], Skip(d, t, i))
  <2>1. CASE i = Len(c) + 1
    BY <2>1, <1>1, <1>2 DEF SectionOK, Skip
  <2>2. CASE i = Len(c)
    <3>1. Skip(d, t, i) = s /\ Skip(c, s, i) = s
      BY <2>2, <1>1, <1>2 DEF Skip
    <3>. QED BY <3>1, <2>2, <1>2 DEF SectionsOK
  <2>3. CASE i < Len(c)
    <3>1. Skip(d, t, i) = Skip(c, s, i)
      BY <2>3, <1>1, <1>2 DEF Skip
    <3>. QED BY <3>1, <2>3, <1>2 DEF SectionsOK
  <2>. QED BY <2>1, <2>2, <2>3, <1>2
<1>5. d # <<>> /\ t \in BOOLEAN
  BY <1>2
<1>. QED BY <1>2, <1>3, <1>4, <1>5 DEF SectionsOK

(* Going on to the next group of the innermost section keeps it.           *)
LEMMA NextGroupKeepsInv ==
    ASSUME NEW c, NEW s, SectionsOK(c, s), c # <<>>, ~c[Len(c)].els,
           NEW b \in BOOLEAN, NEW e \in BOOLEAN, e => b
    PROVE  LET in == c[Len(c)]
               taken == b /\ ~in.was /\ ~in.found
           IN  SectionsOK([c EXCEPT ![Len(c)] =
                             [was |-> in.was, found |-> in.found \/ (taken /\ ~e),
                              els |-> e, past |-> in.past \/ ~s]], ~taken)
<1> DEFINE n == Len(c)
           in == c[n]
           taken == b /\ ~in.was /\ ~in.found
           new == [was |-> in.was, found |-> in.found \/ (taken /\ ~e),
                   els |-> e, past |-> in.past \/ ~s]
           d == [c EXCEPT ![n] = new]
<1>1. c \in Seq(Section) /\ n \in Nat /\ n # 0 /\ s \in BOOLEAN /\ in \in Section
  BY DEF SectionsOK
<1>2. new \in Section
  BY <1>1 DEF Section
<1>3. /\ d \in Seq(Section) /\ Len(d) = n /\ d[n] = new
      /\ \A i \in 1 .. n - 1 : d[i] = c[i]
  BY <1>1, <1>2
<1>4. ~d[1].was
  BY <1>1, <1>3 DEF SectionsOK
<1>5. SectionOK(in, s)
  BY <1>1 DEF SectionsOK, Skip
<1>6. SectionOK(new, ~taken)
  BY <1>1, <1>5 DEF SectionOK, Section
<1>7. ASSUME NEW i \in 1 .. n
      PROVE  SectionOK(d[i], Skip(d, ~taken, i))
  <2>1. CASE i = n
    BY <2>1, <1>1, <1>3, <1>6 DEF Skip
  <2>2. CASE i < n
    <3>1. Skip(d, ~taken, i) = Skip(c, s, i)
      BY <2>2, <1>1, <1>3 DEF Skip
    <3>. QED BY <3>1, <2>2, <1>1, <1>3 DEF SectionsOK
  <2>. QED BY <2>1, <2>2, <1>1
<1>8. d # <<>> /\ (~taken) \in BOOLEAN
  BY <1>1, <1>3
<1>. QED BY <1>1, <1>3, <1>4, <1>7, <1>8 DEF SectionsOK

(* A sequence without its last element.                                    *)
LEMMA FrontProperties ==
    ASSUME NEW S, NEW q \in Seq(S), q # <<>>
    PROVE  LET d == SubSeq(q, 1, Len(q) - 1)
           IN  /\ d \in Seq(S) /\ Len(d) = Len(q) - 1
               /\ \A i \in 1 .. Len(q) - 1 : d[i] = q[i]
<1> DEFINE n == Len(q)
           d == SubSeq(q, 1, n - 1)
<1>1. n \in Nat /\ n # 0
  BY EmptySeq
<1>2. \A i \in 1 .. n - 1 : q[i] \in S
  BY <1>1
<1>3. /\ d \in Seq(S)
      /\ Len(d) = IF 1 <= n - 1 THEN n - 1 - 1 + 1 ELSE 0
      /\ \A i \in 1 .. n - 1 - 1 + 1 : d[i] = q[1 + i - 1]
  BY <1>1, <1>2, SubSeqProperties
<1> HIDE DEF d, n
<1>4. Len(d) = n - 1
  <2>1. n = 1 \/ 1 <= n - 1
    BY <1>1
  <2>2. n - 1 - 1 + 1 = n - 1
    BY <1>1
  <2>3. n = 1 => ~(1 <= n - 1) /\ n - 1 = 0
    BY <1>1
  <2>. QED BY <2>1, <2>2, <2>3, <1>3, Zenon
<1>5. n - 1 - 1 + 1 = n - 1 /\ \A i \in 1 .. n - 1 : 1 + i - 1 = i
  BY <1>1
<1>6. d \in Seq(S) /\ Len(d) = n - 1 /\ \A i \in 1 .. n - 1 : d[i] = q[i]
  BY <1>3, <1>4, <1>5
<1>. QED BY <1>6 DEF d, n

(* Closing the innermost section keeps it.                                 *)
LEMMA CloseKeepsInv ==
    ASSUME NEW c, NEW s, SectionsOK(c, s), c # <<>>
    PROVE  SectionsOK(SubSeq(c, 1, Len(c) - 1), c[Len(c)].was)
<1> DEFINE n == Len(c)
           d == SubSeq(c, 1, n - 1)
           t == c[n].was
<1>1. c \in Seq(Section) /\ n \in Nat /\ n # 0
  BY DEF SectionsOK
<1>2. \A i \in 1 .. n : c[i] \in Section
  BY <1>1
<1>3. t \in BOOLEAN
  <2>1. c[n] \in Section
    BY <1>1, <1>2
  <2>. QED BY <2>1 DEF Section
<1>4. /\ d \in Seq(Section) /\ Len(d) = n - 1
      /\ \A i \in 1 .. n - 1 : d[i] = c[i]
  BY <1>1, FrontProperties
<1>5. c # <<>> => ~c[1].was
  BY DEF SectionsOK
<1> HIDE DEF d
<1>6. d = <<>> => ~t
  <2>1. d = <<>> => Len(d) = 0
    BY EmptySeq, Zenon
  <2>2. d = <<>> => n = 1
    BY <1>1, <1>4, <2>1
  <2>. QED BY <2>2, <1>5
<1>7. d # <<>> => ~d[1].was
  <2>1. d # <<>> => 1 \in 1 .. n - 1
    BY <1>1, <1>4
  <2>. QED BY <2>1, <1>4, <1>5
<1>8. ASSUME NEW i \in 1 .. Len(d)
      PROVE  SectionOK(d[i], Skip(d, t, i))
  <2>1. i \in 1 .. n - 1 /\ i \in 1 .. n /\ i # n
    BY <1>1, <1>4
  <2>2. Skip(d, t, i) = Skip(c, s, i)
    <3>1. CASE i = n - 1
      BY <3>1, <1>1, <1>4, <2>1 DEF Skip
    <3>2. CASE i # n - 1
      <4>1. i + 1 \in 1 .. n - 1
        BY <3>2, <1>1, <2>1
      <4>. QED BY <4>1, <3>2, <1>4, <2>1 DEF Skip
    <3>. QED BY <3>1, <3>2
  <2>3. SectionOK(c[i], Skip(c, s, i))
    BY <2>1 DEF SectionsOK
  <2>. QED BY <2>1, <2>2, <2>3, <1>4
<1>9. SectionsOK(d, t)
  BY <1>3, <1>4, <1>6, <1>7, <1>8 DEF SectionsOK
<1>. QED BY <1>9 DEF d

(* A section step keeps the invariant.                                     *)
LEMMA SectionStepInv == SectionInv /\ SectionStep => SectionInv'
<1> SUFFICES ASSUME SectionInv, SectionStep PROVE SectionsOK(cond', skipping')
  BY DEF SectionInv
<1>0. SectionsOK(cond, skipping)
  BY DEF SectionInv
<1>1. CASE UNCHANGED sections
  BY <1>0, <1>1 DEF sections
<1>2. CASE cond' = <<>> /\ skipping' = FALSE
  BY <1>2, EmptyKeepsInv
<1>3. ASSUME NEW c \in BOOLEAN, OpenSection(c)
      PROVE  SectionsOK(cond', skipping')
  <2>1. SectionsOK(Append(cond, [was |-> skipping, found |-> c, els |-> FALSE,
                                 past |-> FALSE]), skipping \/ ~c)
    BY <1>0, OpenKeepsInv
  <2>. QED BY <1>3, <2>1, Zenon DEF OpenSection
<1>4. ASSUME NEW c \in BOOLEAN, NEW e \in BOOLEAN, GoOn(c, e)
      PROVE  SectionsOK(cond', skipping')
  <2> DEFINE in == cond[Len(cond)]
             taken == c /\ ~in.was /\ ~in.found
  <2>1. SectionsOK([cond EXCEPT ![Len(cond)] =
                      [was |-> in.was, found |-> in.found \/ (taken /\ ~e),
                       els |-> e, past |-> in.past \/ ~skipping]], ~taken)
    <3>1. ~cond[Len(cond)].els
      BY <1>4 DEF GoOn, NoGroupLeft, Inner
    <3>2. cond # <<>> /\ (e => c)
      BY <1>4 DEF GoOn
    <3>. QED BY <1>0, <3>1, <3>2, NextGroupKeepsInv
  <2>. QED BY <1>4, <2>1, Zenon DEF GoOn, NextGroup, Inner
<1>5. CASE cond # <<>> /\ CloseSection
  <2>1. SectionsOK(SubSeq(cond, 1, Len(cond) - 1), cond[Len(cond)].was)
    BY <1>0, <1>5, CloseKeepsInv
  <2>. QED BY <1>5, <2>1, Zenon DEF CloseSection, Inner
<1>. QED
  <2>1. CASE \E c \in BOOLEAN : OpenSection(c)
    BY <2>1, <1>3
  <2>2. CASE \E c, e \in BOOLEAN : GoOn(c, e)
    BY <2>2, <1>4
  <2>. QED BY <1>1, <1>2, <1>5, <2>1, <2>2 DEF SectionStep

(* The section stack is well formed in every reachable state.              *)
THEOREM SectionsCorrect == Spec => []SectionInv
<1>1. Init => SectionInv
  BY EmptyKeepsInv DEF Init, SectionInv
<1>2. SectionInv /\ [Next]_vars => SectionInv'
  BY NextIsSectionStep, SectionStepInv
<1>. QED BY <1>1, <1>2, PTL DEF Spec

(* What the invariant says in the terms of the properties.                 *)
LEMMA SectionFacts ==
    ASSUME SectionInv
    PROVE  /\ cond = <<>> => ~skipping
           /\ cond # <<>> => ~cond[1].was
           /\ \A i \in DOMAIN cond : SectionOK(cond[i], SkippedIn(i))
<1>1. DOMAIN cond = 1 .. Len(cond)
  BY DEF SectionInv, SectionsOK
<1>2. \A i : SkippedIn(i) = Skip(cond, skipping, i)
  BY DEF SkippedIn, Skip
<1>. QED BY <1>1, <1>2 DEF SectionInv, SectionsOK

(* Skipping is inherited by nested sections and restored by #endif.        *)
THEOREM SkippingInherited == Spec => []SkippingIsInherited
<1>1. SectionInv => SkippingIsInherited
  BY SectionFacts DEF SectionOK, SkippingIsInherited
<1>. QED BY <1>1, SectionsCorrect, PTL

(* At most one group of a conditional section is not skipped.              *)
THEOREM OneGroup == Spec => []AtMostOneGroup
<1>1. SectionInv => AtMostOneGroup
  BY SectionFacts DEF SectionOK, AtMostOneGroup
<1>. QED BY <1>1, SectionsCorrect, PTL

(* A section with an #else outside skipped text has a group not skipped.   *)
THEOREM ElseIsComplement == Spec => []ElseCompletes
<1>1. SectionInv => ElseCompletes
  BY SectionFacts DEF SectionOK, ElseCompletes
<1>. QED BY <1>1, SectionsCorrect, PTL

-----------------------------------------------------------------------------
(* The type invariant.                                                     *)

(* The first of some indices exists, so the searches of HeaderSearch find  *)
(* what they choose.                                                       *)
LEMMA LeastIndex ==
    ASSUME NEW T, T \subseteq Nat, T # {}
    PROVE  \E x \in T : \A y \in T : x <= y
<1>1. PICK x \in T : \A y \in T : ~ (<<y, x>> \in OpToRel(<, Nat))
  BY NatLessThanWellFounded, WFMin
<1>2. ASSUME NEW y \in T PROVE x <= y
  <2>1. ~(y < x)
    BY <1>1 DEF OpToRel
  <2>. QED BY <2>1
<1>. QED BY <1>2

(* A lookup yields a path or no file.                                      *)
LEMMA FirstAfterType ==
    ASSUME NEW f \in FileNames, NEW k \in Nat
    PROVE  FirstAfter(f, k) \in Paths \cup {NoFile}
<1> DEFINE hits == {i \in FoundAt(f) : i > k}
           i0 == CHOOSE i \in hits : \A j \in hits : i <= j
<1>1. hits \subseteq DOMAIN SearchPaths /\ hits \subseteq Nat
  BY HeaderSearchAssumption DEF FoundAt
<1>2. CASE hits = {}
  BY <1>2 DEF FirstAfter
<1>3. CASE hits # {}
  <2>1. \E i \in hits : \A j \in hits : i <= j
    BY <1>1, <1>3, LeastIndex
  <2>2. i0 \in DOMAIN SearchPaths
    BY <1>1, <2>1
  <2>3. SearchPaths[i0] \in Dirs
    BY <2>2, HeaderSearchAssumption
  <2>4. Joined[SearchPaths[i0]][f] \in Paths
    BY <2>3, HeaderSearchAssumption
  <2>. QED BY <1>3, <2>4 DEF FirstAfter
<1>. QED BY <1>2, <1>3

LEMMA LookupHeaderType ==
    ASSUME NEW from \in FileNames, NEW f \in FileNames
    PROVE  LookupHeader(from, f) \in Paths \cup {NoFile}
<1>1. FirstAfter(f, 0) \in Paths \cup {NoFile}
  BY FirstAfterType
<1>2. DirPart[from] # NoDir => Joined[DirPart[from]][f] \in Paths
  BY HeaderSearchAssumption
<1>3. IfOnDisk(f) \in Paths \cup {NoFile}
  BY HeaderSearchAssumption DEF IfOnDisk
<1>. QED BY <1>1, <1>2, <1>3 DEF LookupHeader

LEMMA LookupHeaderNextType ==
    ASSUME NEW current \in FileNames, NEW f \in FileNames
    PROVE  LookupHeaderNext(f, current) \in Paths \cup {NoFile}
<1> DEFINE here == FoundAt(current)
           i0 == CHOOSE i \in here : \A j \in here : i <= j
<1>1. here \subseteq Nat
  BY HeaderSearchAssumption DEF FoundAt
<1>2. here # {} => i0 \in Nat
  <2>1. here # {} => \E i \in here : \A j \in here : i <= j
    BY <1>1, LeastIndex
  <2>. QED BY <1>1, <2>1
<1>3. (IF here = {} THEN 0 ELSE i0) \in Nat
  BY <1>2
<1>. QED BY <1>3, FirstAfterType DEF LookupHeaderNext

(* The frame on top of the include stack, and replacing or dropping it.    *)
LEMMA FrameTypes ==
    ASSUME NEW s \in Seq(Frame), s # <<>>
    PROVE  /\ s[Len(s)] \in Frame
           /\ \A f \in Frame : /\ [s EXCEPT ![Len(s)] = f] \in Seq(Frame)
                               /\ \A g \in Frame : Append([s EXCEPT ![Len(s)] = f], g)
                                                     \in Seq(Frame)
           /\ SubSeq(s, 1, Len(s) - 1) \in Seq(Frame)
<1>1. Len(s) \in Nat /\ Len(s) # 0
  BY EmptySeq
<1>2. s[Len(s)] \in Frame
  BY <1>1
<1>3. \A f \in Frame : [s EXCEPT ![Len(s)] = f] \in Seq(Frame)
  BY <1>1
<1>4. SubSeq(s, 1, Len(s) - 1) \in Seq(Frame)
  BY FrontProperties
<1>. QED BY <1>2, <1>3, <1>4

SectionTypes == cond \in Seq(Section) /\ skipping \in BOOLEAN

FileTypes ==
    /\ stack \in Seq(Frame)
    /\ fileID \in [Paths -> IDs \cup {NoID}]
    /\ nextID \in 0 .. MaxID + 1
    /\ curID \in IDs \cup {NoID}
    /\ curName \in FileNames

OtherTypes ==
    /\ macros \subseteq Names
    /\ once \subseteq IDs /\ oncePaths \subseteq Paths
    /\ guards \in [IDs -> GuardInfo]
    /\ pending \in Names \cup {NoName}
    /\ guarded \subseteq FileNames
    /\ err \in BOOLEAN
    /\ tok \in {"none", "text", "eod", "eof"}

(* The include stack and the file tables keep their types.                 *)
LEMMA FileTypesStep ==
    ASSUME FileTypes, SectionTypes, [Next]_vars
    PROVE  FileTypes'
<1>0. /\ MaxID \in Nat /\ MaxID # 0 /\ MainFiles \subseteq FileNames
      /\ FileNames \subseteq Paths /\ IDs = 0 .. MaxID /\ NoID = MaxID + 1
      /\ Len(cond) \in Nat
  BY PreprocessorAssumption, HeaderSearchAssumption DEF SectionTypes, IDs, NoID
<1> USE DEF FileTypes
<1>1. CASE UNCHANGED files
  BY <1>1 DEF files
<1>2. ASSUME NEW f \in MainFiles, EnterSourceFile(f)
      PROVE  FileTypes'
  <2> DEFINE fr == [name |-> f, path |-> f, id |-> 0, dmode |-> FALSE,
                    end |-> FALSE]
  <2>1. fr \in Frame
    BY <1>0 DEF Frame
  <2>2. stack' = <<fr>>
    BY <1>2 DEF EnterSourceFile
  <2>3. stack' \in Seq(Frame)
    BY <2>1, <2>2
  <2>4. fileID' \in [Paths -> IDs \cup {NoID}]
    BY <1>0, <1>2 DEF EnterSourceFile
  <2>5. nextID' \in 0 .. MaxID + 1
    BY <1>0, <1>2 DEF EnterSourceFile, MainFileID
  <2>. QED BY <1>0, <1>2, <2>3, <2>4, <2>5 DEF EnterSourceFile
<1>3. CASE Reset
  BY <1>0, <1>3 DEF Reset
<1>4. CASE EndOfDirective
  <2>1. Top \in Frame
    BY <1>4, FrameTypes DEF EndOfDirective, Top
  <2>2. [Top EXCEPT !.dmode = FALSE] \in Frame
    BY <2>1 DEF Frame
  <2>3. stack' \in Seq(Frame)
    BY <1>4, <2>2, FrameTypes DEF EndOfDirective, SetTop
  <2>. QED BY <1>4, <2>3 DEF EndOfDirective
<1>5. CASE EndOfFile
  BY <1>5, FrameTypes DEF EndOfFile
<1>6. ASSUME NEW l \in Lines, SkipToEndOfDirective(l), stack # <<>>,
             UNCHANGED <<fileID, nextID, curID, curName>>
      PROVE  FileTypes'
  <2>0. Top \in Frame
    BY <1>6, FrameTypes DEF Top
  <2>1. [Top EXCEPT !.end = TRUE] \in Frame
    BY <2>0 DEF Frame
  <2>2. stack' \in Seq(Frame)
    BY <1>6, <2>1, FrameTypes DEF SkipToEndOfDirective, SetTop
  <2>. QED BY <1>6, <2>2
<1>7. ASSUME NEW f \in FileNames, NEW p \in Paths, stack # <<>>, Enter(f, p),
             curID' \in {curID, nextID}
      PROVE  FileTypes'
  <2> DEFINE top == [Top EXCEPT !.dmode = TRUE]
             new == [name |-> f, path |-> p, id |-> nextID, dmode |-> FALSE,
                     end |-> FALSE]
  <2>1. nextID \in IDs
    BY <1>0, <1>7 DEF Enter
  <2>2. top \in Frame
    <3>1. Top \in Frame
      BY <1>7, FrameTypes DEF Top
    <3>. QED BY <3>1 DEF Frame
  <2>3. new \in Frame
    BY <1>0, <2>1 DEF Frame
  <2>4. stack' \in Seq(Frame)
    <3>1. stack' = Append([stack EXCEPT ![Len(stack)] = top], new)
      BY <1>7 DEF Enter, SetTop
    <3>. QED BY <1>7, <2>2, <2>3, <3>1, FrameTypes
  <2>5. fileID' \in [Paths -> IDs \cup {NoID}] /\ nextID' \in 0 .. MaxID + 1
    BY <1>0, <1>7, <2>1 DEF Enter
  <2>6. curID' \in IDs \cup {NoID} /\ curName' \in FileNames
    BY <1>7, <2>1 DEF Enter
  <2>. QED BY <2>4, <2>5, <2>6
<1>8. ASSUME NEW l \in Lines, HandleDirective(l)
      PROVE  FileTypes'
  <2>0. l.f \in FileNames /\ l \in Line
    BY PreprocessorAssumption DEF Line
  <2>1. CASE Define(l) \/ Undef(l) \/ BadDirective(l)
    BY <2>1, <1>1 DEF Define, Undef, BadDirective
  <2>2. CASE If(l) \/ Elif(l) \/ Else(l) \/ Endif(l) \/ Misplaced(l)
    BY <2>2, <1>1 DEF If, Elif, Else, Endif, Misplaced
  <2>3. CASE Ifdef(l) \/ Ifndef(l) \/ Elifdef(l) \/ Elifndef(l)
    BY <2>3, <1>6 DEF Ifdef, Ifndef, Elifdef, Elifndef, AtLine
  <2>4. CASE Include(l)
    <3> DEFINE p == LookupHeader(Top.name, l.f)
    <3>1. stack # <<>> /\ p # NoFile /\ Enter(l.f, p) /\ curID' = nextID
      BY <2>4 DEF Include, AtLine
    <3>2. Top.name \in FileNames
      BY <3>1, FrameTypes DEF Top, Frame
    <3>3. p \in Paths
      BY <2>0, <3>1, <3>2, LookupHeaderType
    <3>. QED BY <1>7, <2>0, <3>1, <3>3
  <2>5. CASE IncludeRefused(l)
    BY <2>5, <1>1 DEF IncludeRefused
  <2>6. CASE IncludeNext(l)
    <3> DEFINE p == LookupHeaderNext(l.f, curName)
    <3>1. CASE UNCHANGED files
      BY <3>1, <1>1
    <3>2. CASE stack # <<>> /\ p # NoFile /\ Enter(l.f, p) /\ UNCHANGED curID
      <4>1. p \in Paths
        BY <2>0, <3>2, LookupHeaderNextType
      <4>. QED BY <1>7, <2>0, <3>2, <4>1
    <3>. QED BY <2>6, <3>1, <3>2 DEF IncludeNext, AtLine
  <2>7. CASE PragmaOnce(l)
    BY <2>7, <1>1 DEF PragmaOnce
  <2>8. CASE LineDirective(l)
    BY <2>0, <2>8 DEF LineDirective
  <2>. QED BY <1>8, <2>1, <2>2, <2>3, <2>4, <2>5, <2>6, <2>7, <2>8
           DEF HandleDirective
<1>9. ASSUME NEW l \in Lines, Text(l)
      PROVE  FileTypes'
  BY <1>9, <1>1 DEF Text
<1>10. CASE UNCHANGED vars
  BY <1>10, <1>1 DEF vars
<1>. QED BY <1>2, <1>3, <1>4, <1>5, <1>8, <1>9, <1>10 DEF Next

(* So do the macro table, the guard detector and the rest.                 *)
LEMMA OtherTypesStep ==
    ASSUME OtherTypes, FileTypes, [Next]_vars
    PROVE  OtherTypes'
<1>0. /\ NoName \notin Names /\ curName \in FileNames
      /\ \A l \in Lines : l.n \in Names \cup {NoName}
      /\ curID \in IDs \cup {NoID} /\ NoID \notin IDs
  BY PreprocessorAssumption DEF FileTypes, Line, IDs, NoID
<1> USE DEF OtherTypes
<1>1. CASE UNCHANGED vars
  BY <1>1 DEF vars, guardVars, onceVars
<1>2. ASSUME NEW f \in MainFiles, EnterSourceFile(f)
      PROVE  OtherTypes'
  BY <1>2 DEF EnterSourceFile, guardVars, onceVars, Quiet
<1>3. CASE Reset
  BY <1>0, <1>3 DEF Reset, NoGuard, GuardInfo, Quiet
<1>4. CASE EndOfDirective \/ EndOfFile
  BY <1>4 DEF EndOfDirective, EndOfFile, guardVars, onceVars, Deliver
<1>5. ASSUME NEW l \in Lines, Text(l)
      PROVE  OtherTypes'
  BY <1>5 DEF Text, guardVars, onceVars, Deliver
<1>6. ASSUME NEW l \in Lines, HandleDirective(l)
      PROVE  OtherTypes'
  <2>1. CASE Define(l)
    <3>1. l.n \in Names
      BY <1>0, <2>1 DEF Define
    <3>2. pending' \in Names \cup {NoName} /\ guarded' \subseteq FileNames
      BY <1>0, <2>1 DEF Define, SawGuardDefine, guardVars
    <3>3. guards' \in [IDs -> GuardInfo]
      <4>1. CASE UNCHANGED guards
        BY <4>1
      <4>2. CASE curID # NoID /\ guards' = [guards EXCEPT ![curID].saw = TRUE]
        <5>1. curID \in IDs /\ guards[curID] \in GuardInfo
          BY <1>0, <4>2
        <5>2. [guards[curID] EXCEPT !.saw = TRUE] \in GuardInfo
          BY <5>1 DEF GuardInfo
        <5>. QED BY <4>2, <5>1, <5>2
      <4>. QED BY <2>1, <4>1, <4>2 DEF Define, SawGuardDefine, guardVars
    <3>. QED BY <2>1, <3>1, <3>2, <3>3 DEF Define, onceVars, Quiet
  <2>2. CASE Undef(l)
    BY <2>2 DEF Undef, guardVars, onceVars, Quiet
  <2>3. CASE BadDirective(l)
    BY <2>3 DEF BadDirective, guardVars, onceVars, Report, Quiet
  <2>4. CASE Ifndef(l)
    <3>1. l.n \in Names \cup {NoName}
      BY <1>0
    <3>2. [macro |-> l.n, saw |-> FALSE] \in GuardInfo
      BY <3>1 DEF GuardInfo
    <3>3. guards' \in [IDs -> GuardInfo] /\ pending' \in Names \cup {NoName}
      BY <1>0, <2>4, <3>1, <3>2 DEF Ifndef, guardVars
    <3>. QED BY <2>4, <3>3 DEF Ifndef, guardVars, onceVars, Quiet
  <2>5. CASE If(l) \/ Ifdef(l)
    BY <2>5 DEF If, Ifdef, guardVars, onceVars, Quiet
  <2>6. CASE Elif(l) \/ Elifdef(l) \/ Elifndef(l) \/ Else(l) \/ Endif(l)
    BY <2>6 DEF Elif, Elifdef, Elifndef, Else, Endif, guardVars, onceVars, Quiet
  <2>7. CASE Misplaced(l)
    BY <2>7 DEF Misplaced, guardVars, onceVars, Quiet, Deliver, Report
  <2>8. CASE Include(l) \/ IncludeRefused(l) \/ IncludeNext(l)
    BY <2>8 DEF Include, IncludeRefused, IncludeNext, guardVars, onceVars, Quiet,
                Report
  <2>9. CASE PragmaOnce(l)
    <3>1. Top.path \in Paths
      <4>1. Top \in Frame
        BY <2>9, FrameTypes DEF PragmaOnce, AtLine, FileTypes, Top
      <4>. QED BY <4>1 DEF Frame
    <3>. QED BY <1>0, <2>9, <3>1 DEF PragmaOnce, guardVars, Quiet
  <2>10. CASE LineDirective(l)
    BY <2>10 DEF LineDirective, guardVars, onceVars, Quiet
  <2>. QED BY <1>6, <2>1, <2>2, <2>3, <2>4, <2>5, <2>6, <2>7, <2>8, <2>9, <2>10
           DEF HandleDirective
<1>. QED BY <1>1, <1>2, <1>3, <1>4, <1>5, <1>6 DEF Next

(* The machine keeps the types of all its variables.                       *)
THEOREM TypeCorrect == Spec => []TypeOK
<1> DEFINE Inv == SectionInv /\ FileTypes /\ OtherTypes
<1>1. Init => Inv
  <2> SUFFICES ASSUME Init PROVE Inv
    OBVIOUS
  <2>1. SectionInv
    BY EmptyKeepsInv DEF Init, SectionInv
  <2>2. FileTypes
    BY HeaderSearchAssumption, PreprocessorAssumption DEF Init, FileTypes, NoID
  <2>3. OtherTypes
    BY PreprocessorAssumption DEF Init, OtherTypes, NoGuard, GuardInfo
  <2>. QED BY <2>1, <2>2, <2>3
<1>2. Inv /\ [Next]_vars => Inv'
  <2> SUFFICES ASSUME Inv, [Next]_vars PROVE Inv'
    OBVIOUS
  <2>1. SectionInv'
    BY NextIsSectionStep, SectionStepInv
  <2>2. SectionTypes
    BY DEF SectionInv, SectionsOK, SectionTypes
  <2>3. FileTypes'
    BY <2>2, FileTypesStep
  <2>4. OtherTypes'
    BY OtherTypesStep
  <2>. QED BY <2>1, <2>3, <2>4
<1>3. Inv => TypeOK
  BY DEF SectionInv, SectionsOK, FileTypes, OtherTypes, TypeOK
<1>. QED BY <1>1, <1>2, <1>3, PTL DEF Spec

-----------------------------------------------------------------------------
(* The section stack implements ConditionalSections.                       *)

(* Outside skipped text no open section is inside a skipped group: of the  *)
(* sections that are, the innermost one contradicts SectionOK.             *)
LEMMA NoneDead ==
    ASSUME NEW c, NEW s, SectionsOK(c, s), ~s
    PROVE  \A i \in 1 .. Len(c) : ~c[i].was
<1> DEFINE n == Len(c)
           T == {k \in 0 .. n - 1 : c[n - k].was}
<1>1. n \in Nat
  BY DEF SectionsOK
<1>2. T = {}
  <2> SUFFICES ASSUME T # {} PROVE FALSE
    OBVIOUS
  <2>1. T \subseteq Nat
    BY <1>1
  <2> HIDE DEF T
  <2>2. PICK k \in T : \A j \in T : k <= j
    BY <2>1, LeastIndex
  <2> USE DEF T
  <2>3. k \in 0 .. n - 1 /\ n - k \in 1 .. n /\ c[n - k].was
    BY <1>1
  <2>4. Skip(c, s, n - k)
    BY <2>3 DEF SectionsOK, SectionOK
  <2>5. k # 0
    BY <1>1, <2>4 DEF Skip
  <2>6. k - 1 \in 0 .. n - 1 /\ c[n - (k - 1)].was
    <3>1. n - k + 1 = n - (k - 1) /\ n - k # n
      BY <1>1, <2>3, <2>5
    <3>2. c[n - k + 1].was
      BY <2>4, <3>1 DEF Skip
    <3>3. k - 1 \in 0 .. n - 1
      BY <1>1, <2>3, <2>5
    <3>. QED BY <3>1, <3>2, <3>3
  <2>7. k - 1 \in T
    BY <2>6
  <2> HIDE DEF T
  <2>8. k <= k - 1
    BY <2>2, <2>7
  <2>. QED BY <1>1, <2>3, <2>8
<1>. QED
  <2> SUFFICES ASSUME NEW i \in 1 .. n, c[i].was PROVE FALSE
    OBVIOUS
  <2>1. n - i \in 0 .. n - 1 /\ n - (n - i) = i
    BY <1>1
  <2>. QED BY <1>2, <2>1

Stat(c, s, i) ==
    CASE c[i].was -> "dead"
      [] ~c[i].was /\ ~Skip(c, s, i) -> "active"
      [] ~c[i].was /\ Skip(c, s, i) /\ c[i].found -> "done"
      [] OTHER -> "waiting"

Abs(c, s) ==
    [i \in 1 .. Len(c) |-> [status |-> Stat(c, s, i), els |-> c[i].els]]

AbsSection == [status : {"waiting", "active", "done", "dead"}, els : BOOLEAN]

LEMMA AbsType ==
    ASSUME NEW c \in Seq(Section), NEW s
    PROVE  Abs(c, s) \in Seq(AbsSection) /\ Len(Abs(c, s)) = Len(c)
<1>1. Len(c) \in Nat
  OBVIOUS
<1>2. ASSUME NEW i \in 1 .. Len(c)
      PROVE  [status |-> Stat(c, s, i), els |-> c[i].els] \in AbsSection
  <2>1. c[i].els \in BOOLEAN
    <3>1. c[i] \in Section
      BY <1>1
    <3>. QED BY <3>1 DEF Section
  <2>2. Stat(c, s, i) \in {"waiting", "active", "done", "dead"}
    BY DEF Stat
  <2>. QED BY <2>1, <2>2 DEF AbsSection
<1>3. Abs(c, s) \in [1 .. Len(c) -> AbsSection]
  BY <1>2 DEF Abs
<1>. QED BY <1>1, <1>3

AllActive(c, s) == \A i \in 1 .. Len(c) : Stat(c, s, i) = "active"

(* All sections are active exactly when nothing is skipped.                *)
LEMMA ActiveIffNotSkipping ==
    ASSUME NEW c, NEW s, SectionsOK(c, s)
    PROVE  AllActive(c, s) <=> ~s
<1>1. c \in Seq(Section) /\ Len(c) \in Nat /\ s \in BOOLEAN
  BY DEF SectionsOK
<1>2. ASSUME ~s PROVE AllActive(c, s)
  <2>1. \A i \in 1 .. Len(c) : ~c[i].was
    BY <1>2, NoneDead
  <2>2. ASSUME NEW i \in 1 .. Len(c) PROVE ~Skip(c, s, i)
    <3>1. i = Len(c) \/ i + 1 \in 1 .. Len(c)
      BY <1>1
    <3>. QED BY <1>2, <2>1, <3>1 DEF Skip
  <2>. QED BY <2>1, <2>2 DEF AllActive, Stat
<1>3. ASSUME s PROVE ~AllActive(c, s)
  <2>1. c # <<>>
    BY <1>3 DEF SectionsOK
  <2>2. Len(c) \in 1 .. Len(c)
    BY <1>1, <2>1
  <2>3. Skip(c, s, Len(c))
    BY <1>3 DEF Skip
  <2>4. Stat(c, s, Len(c)) # "active"
    BY <2>3 DEF Stat
  <2>. QED BY <2>2, <2>4 DEF AllActive
<1>. QED BY <1>2, <1>3

(* Each way to change the sections is a step of the abstract one.          *)
LEMMA AbsOpen ==
    ASSUME NEW c, NEW s, SectionsOK(c, s), NEW b \in BOOLEAN
    PROVE  LET new == [was |-> s, found |-> b, els |-> FALSE, past |-> FALSE]
           IN  Abs(Append(c, new), s \/ ~b) =
                 Append(Abs(c, s), [status |-> IF s THEN "dead" ELSE
                                               IF b THEN "active" ELSE "waiting",
                                    els |-> FALSE])
<1> DEFINE new == [was |-> s, found |-> b, els |-> FALSE, past |-> FALSE]
           d == Append(c, new)
           t == (s \/ ~b)
           anew == [status |-> IF s THEN "dead" ELSE
                               IF b THEN "active" ELSE "waiting", els |-> FALSE]
<1>1. c \in Seq(Section) /\ Len(c) \in Nat /\ s \in BOOLEAN /\ new \in Section
  BY DEF SectionsOK, Section
<1>2. /\ Len(d) = Len(c) + 1
      /\ \A i \in 1 .. Len(c) : d[i] = c[i]
      /\ d[Len(c) + 1] = new
  BY <1>1
<1>3. ASSUME NEW i \in 1 .. Len(c)
      PROVE  Skip(d, t, i) = Skip(c, s, i)
  BY <1>1, <1>2 DEF Skip
<1>4. ASSUME NEW i \in 1 .. Len(c)
      PROVE  Stat(d, t, i) = Stat(c, s, i) /\ d[i].els = c[i].els
  BY <1>2, <1>3 DEF Stat
<1>5. Stat(d, t, Len(c) + 1) = anew.status /\ d[Len(c) + 1].els = FALSE
  BY <1>1, <1>2 DEF Stat, Skip
<1> DEFINE a == Abs(c, s)
           r(dd, tt, i) == [status |-> Stat(dd, tt, i), els |-> dd[i].els]
<1>6. a \in Seq(AbsSection) /\ Len(a) = Len(c)
  BY <1>1, AbsType
<1>7. Append(a, anew) = [i \in 1 .. Len(c) + 1 |-> IF i = Len(c) + 1 THEN anew ELSE a[i]]
  BY <1>1, <1>6
<1>8. \A i \in 1 .. Len(c) : r(d, t, i) = a[i]
  BY <1>4 DEF Abs
<1>9. r(d, t, Len(c) + 1) = anew
  BY <1>5
<1>10. Abs(d, t) = [i \in 1 .. Len(c) + 1 |-> r(d, t, i)]
  BY <1>2 DEF Abs
<1>11. \A i \in 1 .. Len(c) + 1 :
          r(d, t, i) = IF i = Len(c) + 1 THEN anew ELSE a[i]
  <2> HIDE DEF r, a, anew, d, t
  <2>1. \A i \in 1 .. Len(c) + 1 : i = Len(c) + 1 \/ i \in 1 .. Len(c)
    BY <1>1
  <2>2. Len(c) + 1 \notin 1 .. Len(c)
    BY <1>1
  <2>. QED BY <1>8, <1>9, <2>1, <2>2
<1> HIDE DEF r, a, anew
<1>12. [i \in 1 .. Len(c) + 1 |-> r(d, t, i)] =
          [i \in 1 .. Len(c) + 1 |-> IF i = Len(c) + 1 THEN anew ELSE a[i]]
  BY <1>11
<1>13. Abs(d, t) = Append(a, anew)
  BY <1>7, <1>10, <1>12
<1>. QED BY <1>13 DEF a, anew

\* What NextGroup writes, and what the abstract step does to the status.
Takes(in, b) == b /\ ~in.was /\ ~in.found

NextSection(in, s, b, e) ==
    [was |-> in.was, found |-> in.found \/ (Takes(in, b) /\ ~e),
     els |-> e, past |-> in.past \/ ~s]

NextStatus(st, b) ==
    CASE st = "active" -> "done"
      [] st = "waiting" /\ b -> "active"
      [] OTHER -> st

NextSections(c, s, b, e) ==
    [c EXCEPT ![Len(c)] = NextSection(c[Len(c)], s, b, e)]

NextGroups(a, n, b, e) ==
    [a EXCEPT ![n] = [status |-> NextStatus(a[n].status, b), els |-> e]]

LEMMA AbsNext ==
    ASSUME NEW c, NEW s, SectionsOK(c, s), c # <<>>, ~c[Len(c)].els,
           NEW b \in BOOLEAN, NEW e \in BOOLEAN, e => b
    PROVE  Abs(NextSections(c, s, b, e), ~Takes(c[Len(c)], b)) =
             NextGroups(Abs(c, s), Len(c), b, e)
<1> DEFINE n == Len(c)
           in == c[n]
           taken == b /\ ~in.was /\ ~in.found
           new == [was |-> in.was, found |-> in.found \/ (taken /\ ~e),
                   els |-> e, past |-> in.past \/ ~s]
           d == [c EXCEPT ![n] = new]
           t == ~taken
           a == Abs(c, s)
           st == a[n].status
           anew == [status |-> NextStatus(st, b), els |-> e]
           r(i) == [status |-> Stat(d, t, i), els |-> d[i].els]
<1>1. c \in Seq(Section) /\ n \in Nat /\ n # 0 /\ s \in BOOLEAN /\ in \in Section
  BY DEF SectionsOK
<1>2. new \in Section
  BY <1>1 DEF Section
<1>3. /\ Len(d) = n /\ d[n] = new
      /\ \A i \in 1 .. n : i # n => d[i] = c[i]
  BY <1>1, <1>2
<1>4. SectionOK(in, s)
  BY <1>1 DEF SectionsOK, Skip
<1>5. st = Stat(c, s, n) /\ Skip(c, s, n) = s /\ Skip(d, t, n) = t
  BY <1>1, <1>3 DEF Abs, Skip
<1>6. r(n) = anew
  <2>1. d[n].was = in.was /\ d[n].els = e /\ d[n].found = (in.found \/ (taken /\ ~e))
    BY <1>3
  <2>2. /\ in.was \in BOOLEAN /\ in.found \in BOOLEAN /\ in.past \in BOOLEAN
        /\ in.els = FALSE
    BY <1>1 DEF Section
  <2>3. in.was => Stat(d, t, n) = "dead" /\ st = "dead"
    BY <2>1, <1>5 DEF Stat
  <2>4. ~in.was /\ taken => Stat(d, t, n) = "active" /\ st = "waiting" /\ b
    BY <1>4, <1>5, <2>1, <2>2 DEF Stat, SectionOK
  <2>5. ~in.was /\ ~taken /\ in.found =>
          Stat(d, t, n) = "done" /\ st \in {"active", "done"}
    BY <1>5, <2>1, <2>2 DEF Stat
  <2>6. ~in.was /\ ~taken /\ ~in.found =>
          Stat(d, t, n) = "waiting" /\ st = "waiting" /\ ~b
    BY <1>4, <1>5, <2>1, <2>2 DEF Stat, SectionOK
  <2>7. Stat(d, t, n) = anew.status
    <3> HIDE DEF st, d, t
    <3>. QED BY <2>3, <2>4, <2>5, <2>6 DEF NextStatus
  <2>. QED BY <2>1, <2>7
<1>7. \A i \in 1 .. n : i # n => r(i) = a[i]
  <2> SUFFICES ASSUME NEW i \in 1 .. n, i # n PROVE r(i) = a[i]
    OBVIOUS
  <2>1. i + 1 \in 1 .. n
    BY <1>1
  <2>2. d[i + 1].was = c[i + 1].was
    BY <1>3, <2>1
  <2>3. Skip(d, t, i) = Skip(c, s, i)
    BY <1>3, <2>2 DEF Skip
  <2>4. d[i] = c[i]
    BY <1>3
  <2>5. Stat(d, t, i) = Stat(c, s, i)
    BY <2>3, <2>4 DEF Stat
  <2>. QED BY <2>4, <2>5 DEF Abs
<1>8. Abs(d, t) = [i \in 1 .. n |-> r(i)]
  BY <1>3 DEF Abs
<1>9. DOMAIN a = 1 .. n /\ n \in 1 .. n
  BY <1>1 DEF Abs
<1> HIDE DEF a, r, anew
<1>10. [a EXCEPT ![n] = anew] = [i \in 1 .. n |-> IF i = n THEN anew ELSE a[i]]
  <2>1. a = [i \in 1 .. n |-> a[i]]
    BY <1>9 DEF a, Abs
  <2>. QED BY <1>9, <2>1
<1>11. Abs(d, t) = [a EXCEPT ![n] = anew]
  BY <1>6, <1>7, <1>8, <1>9, <1>10
<1>. QED BY <1>11 DEF a, anew, NextSections, NextGroups, NextSection, Takes

LEMMA AbsClose ==
    ASSUME NEW c, NEW s, SectionsOK(c, s), c # <<>>
    PROVE  Abs(SubSeq(c, 1, Len(c) - 1), c[Len(c)].was) =
             SubSeq(Abs(c, s), 1, Len(Abs(c, s)) - 1)
<1> DEFINE n == Len(c)
           d == SubSeq(c, 1, n - 1)
           t == c[n].was
           a == Abs(c, s)
<1>1. c \in Seq(Section) /\ n \in Nat /\ n # 0
  BY DEF SectionsOK
<1>2. Len(d) = n - 1 /\ \A i \in 1 .. n - 1 : d[i] = c[i]
  BY <1>1, FrontProperties
<1>3. Len(a) = n /\ a \in Seq(AbsSection)
  BY <1>1, AbsType
<1>4. SubSeq(a, 1, n - 1) = [i \in 1 .. n - 1 |-> a[i]]
  <2> HIDE DEF a
  <2>. QED BY <1>1, <1>3
<1> HIDE DEF d
<1>5. ASSUME NEW i \in 1 .. n - 1
      PROVE  [status |-> Stat(d, t, i), els |-> d[i].els] = a[i]
  <2>1. Skip(d, t, i) = Skip(c, s, i)
    <3>1. i = n - 1 \/ i + 1 \in 1 .. n - 1
      BY <1>1
    <3>2. i + 1 = n <=> i = n - 1
      BY <1>1
    <3>3. i # n
      BY <1>1
    <3>. QED BY <1>2, <3>1, <3>2, <3>3 DEF Skip
  <2>2. Stat(d, t, i) = Stat(c, s, i) /\ d[i].els = c[i].els
    BY <1>2, <2>1 DEF Stat
  <2>3. i \in 1 .. n
    BY <1>1
  <2>. QED BY <2>2, <2>3 DEF Abs
<1>6. Abs(d, t) = [i \in 1 .. n - 1 |-> [status |-> Stat(d, t, i), els |-> d[i].els]]
  BY <1>2 DEF Abs
<1>7. Abs(d, t) = SubSeq(a, 1, n - 1)
  <2> HIDE DEF a, t
  <2>. QED BY <1>4, <1>5, <1>6
<1>. QED BY <1>3, <1>7 DEF d

LEMMA GroupsAbs == Groups = Abs(cond, skipping) /\ Groups' = Abs(cond', skipping')
<1>1. \A i : StatusOf(i) = Stat(cond, skipping, i)
  BY DEF StatusOf, Stat, SkippedIn, Skip
<1>2. \A i : StatusOf(i)' = Stat(cond', skipping', i)
  BY DEF StatusOf, Stat, SkippedIn, Skip
<1>. QED BY <1>1, <1>2 DEF Abs, Groups

LEMMA ReadingIffNotSkipping == SectionInv => (Promise!Reading <=> ~skipping)
<1> SUFFICES ASSUME SectionInv PROVE Promise!Reading <=> ~skipping
  OBVIOUS
<1>1. AllActive(cond, skipping) <=> ~skipping
  BY ActiveIffNotSkipping DEF SectionInv
<1>2. \A i \in DOMAIN Groups : Groups[i].status = Stat(cond, skipping, i)
  BY GroupsAbs DEF Abs
<1>3. DOMAIN Groups = 1 .. Len(cond)
  BY DEF Groups
<1>. QED BY <1>1, <1>2, <1>3 DEF Promise!Reading, AllActive

(* Every step on the sections is a step of ConditionalSections.            *)
LEMMA SectionStepRefines ==
    ASSUME SectionInv, SectionStep
    PROVE  [Promise!Next]_Groups
<1>0. SectionsOK(cond, skipping) /\ (Promise!Reading <=> ~skipping)
  BY ReadingIffNotSkipping DEF SectionInv
<1>1. CASE UNCHANGED sections
  BY <1>1, GroupsAbs DEF sections
<1>2. CASE cond' = <<>> /\ skipping' = FALSE
  <2>1. Groups' = <<>>
    BY <1>2, GroupsAbs DEF Abs
  <2>. QED BY <2>1 DEF Promise!Next, Promise!Clear
<1>3. ASSUME NEW c \in BOOLEAN, OpenSection(c)
      PROVE  Promise!Next
  <2> DEFINE new == [was |-> skipping, found |-> c, els |-> FALSE, past |-> FALSE]
  <2>1. Abs(Append(cond, new), skipping \/ ~c) =
          Append(Abs(cond, skipping),
                 [status |-> IF skipping THEN "dead" ELSE
                             IF c THEN "active" ELSE "waiting",
                  els |-> FALSE])
    BY <1>0, AbsOpen
  <2>2. cond' = Append(cond, new) /\ skipping' = (skipping \/ ~c)
    BY <1>3 DEF OpenSection
  <2>3. Groups' = Append(Groups, [status |-> IF skipping THEN "dead" ELSE
                                             IF c THEN "active" ELSE "waiting",
                                  els |-> FALSE])
    BY <2>1, <2>2, GroupsAbs, Zenon
  <2>4. Promise!Start(c)
    BY <1>0, <2>3 DEF Promise!Start
  <2>. QED BY <2>4 DEF Promise!Next
<1>4. ASSUME NEW c \in BOOLEAN, NEW e \in BOOLEAN, GoOn(c, e)
      PROVE  Promise!Next
  <2> DEFINE n == Len(cond)
  <2>1. cond # <<>> /\ ~cond[n].els /\ (e => c)
    BY <1>4 DEF GoOn, NoGroupLeft, Inner
  <2>2. Abs(NextSections(cond, skipping, c, e), ~Takes(cond[n], c)) =
          NextGroups(Abs(cond, skipping), n, c, e)
    BY <1>0, <2>1, AbsNext
  <2>3. cond' = NextSections(cond, skipping, c, e) /\ skipping' = ~Takes(cond[n], c)
    BY <1>4 DEF GoOn, NextGroup, Inner, NextSections, NextSection, Takes
  <2>4. Len(Groups) = n /\ Groups # <<>> /\ ~Groups[n].els
    <3>1. n \in Nat /\ n # 0 /\ n \in 1 .. n
      BY <1>0, <2>1 DEF SectionsOK
    <3>2. Len(Groups) = n /\ Groups[n].els = cond[n].els
      BY <3>1 DEF Groups
    <3>. QED BY <2>1, <3>1, <3>2
  <2>5. Groups' = NextGroups(Groups, n, c, e)
    BY <2>2, <2>3, GroupsAbs, Zenon
  <2>6. Promise!Continue(c, e)
    BY <2>4, <2>5, Zenon DEF Promise!Continue, NextGroups, NextStatus
  <2>7. e = FALSE \/ (c = TRUE /\ e = TRUE)
    BY <2>1
  <2>. QED BY <2>6, <2>7 DEF Promise!Next
<1>5. CASE cond # <<>> /\ CloseSection
  <2>1. Abs(SubSeq(cond, 1, Len(cond) - 1), cond[Len(cond)].was) =
          SubSeq(Abs(cond, skipping), 1, Len(Abs(cond, skipping)) - 1)
    BY <1>0, <1>5, AbsClose
  <2>2. cond' = SubSeq(cond, 1, Len(cond) - 1) /\ skipping' = cond[Len(cond)].was
    BY <1>5 DEF CloseSection, Inner
  <2>3. Groups' = SubSeq(Groups, 1, Len(Groups) - 1)
    BY <2>1, <2>2, GroupsAbs, Zenon
  <2>4. Groups # <<>>
    <3>1. Len(cond) \in Nat /\ Len(cond) # 0
      BY <1>0, <1>5 DEF SectionsOK
    <3>. QED BY <3>1 DEF Groups
  <2>. QED BY <2>3, <2>4 DEF Promise!Next, Promise!Finish
<1>. QED BY <1>1, <1>2, <1>3, <1>4, <1>5 DEF SectionStep

(* The flags of ConditionalInfo implement the promise of the directives.   *)
THEOREM SectionsRefine == Spec => ImplementsSections
<1>1. Init => Promise!Init
  BY GroupsAbs DEF Init, Abs, Promise!Init
<1>2. SectionInv /\ [Next]_vars => [Promise!Next]_Groups
  BY NextIsSectionStep, SectionStepRefines
<1>. QED BY <1>1, <1>2, SectionsCorrect, PTL DEF Spec, ImplementsSections, Promise!Spec

(* A token reaches the caller only in groups that are read.                *)
THEOREM TextIsRead == Spec => TextOnlyWhileReading
<1>1. [Next]_vars => [tok' = "text" => ~skipping]_vars
  <2> SUFFICES ASSUME Next, tok' = "text" PROVE ~skipping
    OBVIOUS
  <2>1. ASSUME NEW f \in MainFiles, EnterSourceFile(f) PROVE FALSE
    BY <2>1 DEF EnterSourceFile, Quiet
  <2>2. ~Reset
    BY DEF Reset, Quiet
  <2>3. CASE EndOfDirective \/ EndOfFile
    BY <2>3 DEF EndOfDirective, EndOfFile, Deliver
  <2>4. ASSUME NEW l \in Lines, Text(l) PROVE ~skipping
    BY <2>4 DEF Text, Deliver
  <2>5. ASSUME NEW l \in Lines, Misplaced(l) PROVE ~skipping
    BY <2>5 DEF Misplaced, Deliver, Quiet
  <2>6. ASSUME NEW l \in Lines, HandleDirective(l), ~Misplaced(l) PROVE FALSE
    BY <2>6 DEF HandleDirective, Define, Undef, BadDirective, If, Ifdef, Ifndef,
                Elif, Elifdef, Elifndef, Else, Endif, Include, IncludeRefused,
                IncludeNext, PragmaOnce, LineDirective, Quiet
  <2>. QED BY <2>1, <2>2, <2>3, <2>4, <2>5, <2>6 DEF Next
<1>2. SectionInv /\ [tok' = "text" => ~skipping]_vars
        => [tok' = "text" => Promise!Reading]_vars
  BY ReadingIffNotSkipping
<1>. QED BY <1>1, <1>2, SectionsCorrect, PTL DEF Spec, TextOnlyWhileReading

-----------------------------------------------------------------------------
(* The files on the include stack, and their IDs.                          *)

\* The ways a step can change what is open: the flags of a frame aside,
\* nothing, or one more file, or one less.
SameFrames(n) ==
    \A i \in 1 .. n : stack'[i].name = stack[i].name /\ stack'[i].id = stack[i].id

KeepFiles ==
    Len(stack') = Len(stack) /\ SameFrames(Len(stack)) /\ UNCHANGED <<fileID, nextID>>

OpenFile(f) ==
    LET n == Len(stack) IN
    /\ stack # <<>> /\ Len(stack') = n + 1 /\ SameFrames(n)
    /\ stack'[n + 1].name = f /\ stack'[n + 1].id = nextID
    /\ fileID' = [fileID EXCEPT ![f] = nextID] /\ nextID' = nextID + 1

CloseFile ==
    /\ stack # <<>> /\ Len(stack') = Len(stack) - 1 /\ SameFrames(Len(stack) - 1)
    /\ UNCHANGED <<fileID, nextID>>

CloseAll == stack' = <<>> /\ UNCHANGED <<fileID, nextID>>

\* Changing the flags of the top frame keeps the files.
LEMMA SetTopKeepsFiles ==
    ASSUME stack \in Seq(Frame), stack # <<>>, NEW t,
           t.name = Top.name, t.id = Top.id
    PROVE  LET s == [stack EXCEPT ![Len(stack)] = t]
           IN  /\ Len(s) = Len(stack)
               /\ \A i \in 1 .. Len(stack) : s[i].name = stack[i].name /\ s[i].id = stack[i].id
<1>1. Len(stack) \in Nat /\ Len(stack) # 0
  BY EmptySeq
<1>. QED BY <1>1 DEF Top

(* A line changes the open files only if it includes one more, and unless  *)
(* it is an #include_next, a file whose name is not open.                  *)
LEMMA LineFiles ==
    ASSUME stack \in Seq(Frame), NEW l \in Line, Text(l) \/ HandleDirective(l)
    PROVE  \/ KeepFiles
           \/ \E f \in FileNames : OpenFile(f) /\ (l.d # "include_next" => ~OnStack(f))
<1>0. l.f \in FileNames
  BY DEF Line
<1>1. UNCHANGED <<stack, fileID, nextID>> => KeepFiles
  BY DEF KeepFiles, SameFrames
<1>2. ASSUME SkipToEndOfDirective(l), stack # <<>>, UNCHANGED <<fileID, nextID>>
      PROVE  KeepFiles
  <2>1. CASE l.n # NoName
    BY <2>1, <1>1, <1>2 DEF SkipToEndOfDirective
  <2>2. CASE l.n = NoName
    <3>1. Top \in Frame
      BY <1>2, FrameTypes DEF Top
    <3>2. /\ [Top EXCEPT !.end = TRUE].name = Top.name
          /\ [Top EXCEPT !.end = TRUE].id = Top.id
      BY <3>1 DEF Frame
    <3>. QED BY <3>2, <2>2, <1>2, SetTopKeepsFiles
             DEF SkipToEndOfDirective, SetTop, KeepFiles, SameFrames
  <2>. QED BY <2>1, <2>2
<1>3. ASSUME NEW f, NEW p, stack # <<>>, Enter(f, p)
      PROVE  OpenFile(f)
  <2> DEFINE t == [Top EXCEPT !.dmode = TRUE]
             s == [stack EXCEPT ![Len(stack)] = t]
             new == [name |-> f, path |-> p, id |-> nextID, dmode |-> FALSE,
                     end |-> FALSE]
  <2>1. Top \in Frame
    BY <1>3, FrameTypes DEF Top
  <2>2. t.name = Top.name /\ t.id = Top.id /\ t \in Frame
    BY <2>1 DEF Frame
  <2>3. s \in Seq(Frame)
    BY <2>2, <1>3, FrameTypes
  <2>4. /\ Len(s) = Len(stack)
        /\ \A i \in 1 .. Len(stack) : s[i].name = stack[i].name /\ s[i].id = stack[i].id
    BY <2>2, <1>3, SetTopKeepsFiles
  <2>5. stack' = Append(s, new)
    BY <1>3 DEF Enter, SetTop
  <2>6. /\ Len(stack') = Len(s) + 1 /\ stack'[Len(s) + 1] = new
        /\ \A i \in 1 .. Len(s) : stack'[i] = s[i]
    BY <2>3, <2>5
  <2>7. new.name = f /\ new.id = nextID
    OBVIOUS
  <2>8. fileID' = [fileID EXCEPT ![f] = nextID] /\ nextID' = nextID + 1
    BY <1>3 DEF Enter
  <2> HIDE DEF s, new
  <2>9. Len(stack) \in Nat
    OBVIOUS
  <2>. QED BY <1>3, <2>4, <2>6, <2>7, <2>8, <2>9 DEF OpenFile, SameFrames
<1>4. CASE Text(l)
  BY <1>4, <1>1 DEF Text, files
<1>5. CASE HandleDirective(l)
  <2>1. CASE Define(l) \/ Undef(l) \/ BadDirective(l) \/ PragmaOnce(l) \/ LineDirective(l)
    BY <2>1, <1>1 DEF Define, Undef, BadDirective, PragmaOnce, LineDirective, files
  <2>2. CASE If(l) \/ Elif(l) \/ Else(l) \/ Endif(l) \/ Misplaced(l) \/ IncludeRefused(l)
    BY <2>2, <1>1 DEF If, Elif, Else, Endif, Misplaced, IncludeRefused, files
  <2>3. CASE Ifdef(l) \/ Ifndef(l) \/ Elifdef(l) \/ Elifndef(l)
    BY <2>3, <1>2 DEF Ifdef, Ifndef, Elifdef, Elifndef, AtLine
  <2>4. CASE Include(l)
    BY <2>4, <1>0, <1>3 DEF Include, AtLine
  <2>5. CASE IncludeNext(l)
    BY <2>5, <1>0, <1>1, <1>3 DEF IncludeNext, AtLine, files
  <2>. QED BY <1>5, <2>1, <2>2, <2>3, <2>4, <2>5 DEF HandleDirective
<1>. QED BY <1>4, <1>5

(* The ends of lines and files keep or close the file on top.              *)
LEMMA EndFiles ==
    ASSUME stack \in Seq(Frame)
    PROVE  (EndOfDirective => KeepFiles) /\ (EndOfFile => CloseFile) /\ (Reset => CloseAll)
<1>1. ASSUME EndOfDirective PROVE KeepFiles
  <2>1. Top \in Frame /\ stack # <<>>
    BY <1>1, FrameTypes DEF Top, EndOfDirective
  <2>2. /\ [Top EXCEPT !.dmode = FALSE].name = Top.name
        /\ [Top EXCEPT !.dmode = FALSE].id = Top.id
    BY <2>1 DEF Frame
  <2>. QED BY <2>1, <2>2, <1>1, SetTopKeepsFiles
           DEF EndOfDirective, SetTop, KeepFiles, SameFrames
<1>2. ASSUME EndOfFile PROVE CloseFile
  <2>1. stack # <<>> /\ stack' = SubSeq(stack, 1, Len(stack) - 1)
    BY <1>2 DEF EndOfFile
  <2>2. /\ Len(stack') = Len(stack) - 1
        /\ \A i \in 1 .. Len(stack) - 1 : stack'[i] = stack[i]
    BY <2>1, FrontProperties
  <2>. QED BY <2>1, <2>2, <1>2 DEF CloseFile, SameFrames, EndOfFile
<1>3. Reset => CloseAll
  BY DEF Reset, CloseAll
<1>. QED BY <1>1, <1>2, <1>3

\* IDs below nextID have been handed out.
FileIDsInv == OpenIDsDistinct /\ \A i \in DOMAIN stack : stack[i].id < nextID

(* A new file gets an ID that no open file has.                            *)
LEMMA FileIDsStep ==
    ASSUME TypeOK, FileIDsInv, [Next]_vars
    PROVE  FileIDsInv'
<1>0. /\ stack \in Seq(Frame) /\ nextID \in Nat /\ Len(stack) \in Nat
      /\ \A i \in 1 .. Len(stack) : stack[i].id \in Nat
      /\ DOMAIN stack = 1 .. Len(stack)
  <2>1. stack \in Seq(Frame) /\ nextID \in Nat
    BY PreprocessorAssumption DEF TypeOK
  <2>2. \A i \in 1 .. Len(stack) : stack[i] \in Frame
    BY <2>1
  <2>. QED BY <2>1, <2>2 DEF Frame, IDs
<1> USE DEF FileIDsInv, OpenIDsDistinct
<1>1. ASSUME KeepFiles, DOMAIN stack' = 1 .. Len(stack') PROVE FileIDsInv'
  BY <1>0, <1>1 DEF KeepFiles, SameFrames
<1>2. ASSUME CloseFile, DOMAIN stack' = 1 .. Len(stack') PROVE FileIDsInv'
  <2>1. Len(stack') <= Len(stack) /\ Len(stack') \in Nat /\ nextID' = nextID
    BY <1>0, <1>2 DEF CloseFile
  <2>2. \A i \in DOMAIN stack' : i \in DOMAIN stack /\ stack'[i].id = stack[i].id
    BY <1>0, <1>2, <2>1 DEF CloseFile, SameFrames
  <2>. QED BY <2>1, <2>2
<1>3. ASSUME CloseAll PROVE FileIDsInv'
  BY <1>3 DEF CloseAll
<1>4. ASSUME NEW f \in MainFiles, EnterSourceFile(f) PROVE FileIDsInv'
  <2>1. DOMAIN stack' = {1} /\ stack'[1].id = 0 /\ nextID' > 0
    BY <1>0, <1>4 DEF EnterSourceFile, MainFileID
  <2>. QED BY <2>1
<1>5. ASSUME NEW f, OpenFile(f), DOMAIN stack' = 1 .. Len(stack') PROVE FileIDsInv'
  <2>1. \A i \in 1 .. Len(stack) : stack'[i].id = stack[i].id /\ stack[i].id < nextID
    BY <1>0, <1>5 DEF OpenFile, SameFrames
  <2>2. DOMAIN stack' = 1 .. Len(stack) + 1 /\ stack'[Len(stack) + 1].id = nextID
        /\ nextID' = nextID + 1
    BY <1>0, <1>5 DEF OpenFile
  <2>3. \A i \in DOMAIN stack' : i \in 1 .. Len(stack) \/ i = Len(stack) + 1
    BY <1>0, <2>2
  <2>4. \A i \in DOMAIN stack' : stack'[i].id < nextID'
    BY <1>0, <2>1, <2>2, <2>3
  <2>5. ASSUME NEW i \in DOMAIN stack', NEW j \in DOMAIN stack',
               stack'[i].id = stack'[j].id
        PROVE  i = j
    <3>1. CASE i \in 1 .. Len(stack) /\ j \in 1 .. Len(stack)
      BY <1>0, <2>1, <2>5, <3>1
    <3>2. CASE i \in 1 .. Len(stack) /\ j = Len(stack) + 1
      BY <1>0, <2>1, <2>2, <2>5, <3>2
    <3>3. CASE i = Len(stack) + 1 /\ j \in 1 .. Len(stack)
      BY <1>0, <2>1, <2>2, <2>5, <3>3
    <3>. QED BY <2>3, <2>5, <3>1, <3>2, <3>3
  <2>. QED BY <2>4, <2>5
<1>6. DOMAIN stack' = 1 .. Len(stack')
  <2>1. stack' \in Seq(Frame)
    BY FileTypesStep DEF TypeOK, FileTypes, SectionTypes
  <2>. QED BY <2>1
<1>7. ASSUME NEW l \in Lines, Text(l) \/ HandleDirective(l) PROVE FileIDsInv'
  BY <1>0, <1>1, <1>5, <1>6, <1>7, LineFiles, PreprocessorAssumption
<1>8. CASE UNCHANGED vars
  BY <1>8 DEF vars, files
<1>. QED BY <1>0, <1>1, <1>2, <1>3, <1>4, <1>6, <1>7, <1>8, EndFiles DEF Next

(* No two open files share a file ID, whatever includes what, whether IDs  *)
(* are used again after reset or names mapped again.                       *)
THEOREM IDsDistinct == Spec => []OpenIDsDistinct
<1>1. Init => FileIDsInv
  BY DEF Init, FileIDsInv, OpenIDsDistinct
<1>2. TypeOK /\ FileIDsInv /\ [Next]_vars => FileIDsInv'
  BY FileIDsStep
<1>3. FileIDsInv => OpenIDsDistinct
  BY DEF FileIDsInv
<1>. QED BY <1>1, <1>2, <1>3, TypeCorrect, PTL DEF Spec

\* What the circularity check keeps, as long as #include_next is not used.
PlainInv == NoCircularInclude /\ OpenFilesResolve

PlainStep ==
    \/ \E f \in MainFiles : EnterSourceFile(f)
    \/ Reset \/ EndOfDirective \/ EndOfFile
    \/ \E l \in Lines : l.d # "include_next" /\ (Text(l) \/ HandleDirective(l))

(* A file whose name is not open keeps the names distinct, and mapping its *)
(* name to a new ID leaves the IDs of the open names alone.                *)
LEMMA PlainStepInv ==
    ASSUME TypeOK, PlainInv, PlainStep
    PROVE  PlainInv'
<1>0. /\ stack \in Seq(Frame) /\ Len(stack) \in Nat
      /\ \A i \in 1 .. Len(stack) : stack[i].name \in FileNames
      /\ \A f \in FileNames : f \in DOMAIN fileID
      /\ DOMAIN stack' = 1 .. Len(stack')
  <2>1. stack \in Seq(Frame) /\ fileID \in [Paths -> IDs \cup {NoID}]
    BY DEF TypeOK
  <2>2. \A i \in 1 .. Len(stack) : stack[i] \in Frame
    BY <2>1
  <2>3. stack' \in Seq(Frame)
    BY FileTypesStep DEF TypeOK, FileTypes, SectionTypes, PlainStep, Next
  <2>. QED BY <2>1, <2>2, <2>3, HeaderSearchAssumption DEF Frame
<1> USE DEF PlainInv, NoCircularInclude, OpenFilesResolve
<1>1. KeepFiles => PlainInv'
  BY <1>0 DEF KeepFiles, SameFrames
<1>2. CloseFile => PlainInv'
  BY <1>0 DEF CloseFile, SameFrames
<1>3. CloseAll => PlainInv'
  BY DEF CloseAll
<1>4. ASSUME NEW f \in MainFiles, EnterSourceFile(f) PROVE PlainInv'
  <2>1. DOMAIN stack' = {1} /\ stack'[1].id = 0 /\ stack'[1].name = f
    BY <1>4 DEF EnterSourceFile
  <2>2. fileID'[f] = 0
    BY <1>0, <1>4, PreprocessorAssumption DEF EnterSourceFile
  <2>. QED BY <2>1, <2>2
<1>5. ASSUME NEW f \in FileNames, OpenFile(f), ~OnStack(f) PROVE PlainInv'
  <2>1. \A i \in 1 .. Len(stack) : /\ stack'[i].id = stack[i].id
                                   /\ stack'[i].name = stack[i].name
                                   /\ stack[i].name # f
    BY <1>0, <1>5 DEF OpenFile, SameFrames, OnStack
  <2>2. DOMAIN stack' = 1 .. Len(stack) + 1 /\ stack'[Len(stack) + 1].id = nextID
        /\ stack'[Len(stack) + 1].name = f
    BY <1>0, <1>5 DEF OpenFile
  <2>3. fileID'[f] = nextID /\ \A g \in FileNames \ {f} : fileID'[g] = fileID[g]
    BY <1>0, <1>5 DEF OpenFile
  <2>4. NoCircularInclude'
    BY <1>0, <2>1, <2>2
  <2>5. OpenFilesResolve'
    BY <1>0, <2>1, <2>2, <2>3
  <2>. QED BY <2>4, <2>5
<1>6. ASSUME NEW l \in Lines, l.d # "include_next", Text(l) \/ HandleDirective(l)
      PROVE  PlainInv'
  BY <1>0, <1>1, <1>5, <1>6, LineFiles, PreprocessorAssumption
<1>. QED BY <1>0, <1>1, <1>2, <1>3, <1>4, <1>6, EndFiles DEF PlainStep

(* In a program without #include_next no name is twice on the include      *)
(* stack and every open file is found under its name: for every set of     *)
(* lines, every search path, and whatever was read before reset.           *)
THEOREM PlainIncludes ==
    ASSUME \A l \in Lines : l.d # "include_next"
    PROVE  Spec => [](NoCircularInclude /\ OpenFilesResolve)
<1>1. Init => PlainInv
  BY DEF Init, PlainInv, NoCircularInclude, OpenFilesResolve
<1>2. TypeOK /\ PlainInv /\ [Next]_vars => PlainInv'
  <2>1. Next => PlainStep
    BY DEF Next, PlainStep
  <2>2. PlainInv /\ UNCHANGED vars => PlainInv'
    BY DEF PlainInv, NoCircularInclude, OpenFilesResolve, vars, files
  <2>. QED BY <2>1, <2>2, PlainStepInv
<1>3. PlainInv => NoCircularInclude /\ OpenFilesResolve
  BY DEF PlainInv
<1>. QED BY <1>1, <1>2, <1>3, TypeCorrect, PTL DEF Spec

(* The runs of MCHeaders are runs of the machine.                          *)
LEMMA HeaderStep ==
    ASSUME vocabulary \in {IncludeLines, GuardLines}, [HeaderNext]_headerVars
    PROVE  /\ [Next]_vars /\ vocabulary' = vocabulary
           /\ vocabulary = IncludeLines => PlainStep \/ UNCHANGED vars
<1>1. vocabulary \subseteq Lines
  BY VocabularyAssumption DEF HeaderLines
<1>2. vocabulary = IncludeLines => \A l \in vocabulary : l.d # "include_next"
  <2>1. \A d, f : F(d, f).d = d
    BY DEF F
  <2>. QED BY <2>1 DEF IncludeLines
<1>. QED BY <1>1, <1>2 DEF HeaderNext, headerVars, Next, PlainStep

LEMMA HeaderTypes == HeaderSpec => [](TypeOK /\ vocabulary \in {IncludeLines, GuardLines})
<1>1. HeaderInit => Init /\ vocabulary \in {IncludeLines, GuardLines}
  BY DEF HeaderInit
<1>2. vocabulary \in {IncludeLines, GuardLines} /\ [HeaderNext]_headerVars
        => [Next]_vars /\ (vocabulary \in {IncludeLines, GuardLines})'
  BY HeaderStep
<1>. QED BY <1>1, <1>2, TypeCorrect, PTL DEF HeaderSpec, Spec

\* The inductive invariant of both.
HeaderInv == vocabulary = IncludeLines => PlainInv

LEMMA HeaderCorrect == HeaderSpec => []HeaderInv
<1>1. HeaderInit => HeaderInv
  BY DEF HeaderInit, HeaderInv, Init, PlainInv, NoCircularInclude, OpenFilesResolve
<1>2. TypeOK /\ vocabulary \in {IncludeLines, GuardLines} /\ HeaderInv
        /\ [HeaderNext]_headerVars => HeaderInv'
  <2>1. PlainInv /\ UNCHANGED vars => PlainInv'
    BY DEF PlainInv, NoCircularInclude, OpenFilesResolve, vars, files
  <2>. QED BY <2>1, HeaderStep, PlainStepInv DEF HeaderInv
<1>. QED BY <1>1, <1>2, HeaderTypes, PTL DEF HeaderSpec

(* A name is at most once on the include stack, so that inclusion without  *)
(* #include_next ends.                                                     *)
THEOREM HeadersNeverCircular == HeaderSpec => []NoCircularHeader
<1>1. HeaderInv => NoCircularHeader
  BY DEF HeaderInv, PlainInv, NoCircularHeader
<1>. QED BY <1>1, HeaderCorrect, PTL

(* SourceManager finds every open file under its name.                     *)
THEOREM HeadersResolve == HeaderSpec => []OpenHeadersResolve
<1>1. HeaderInv => OpenHeadersResolve
  BY DEF HeaderInv, PlainInv, OpenHeadersResolve
<1>. QED BY <1>1, HeaderCorrect, PTL

-----------------------------------------------------------------------------
(* The include-guard detector.                                             *)

\* The ways a step can change what the detector waits for.
GuardStep ==
    \/ UNCHANGED <<guards, pending>>
    \/ pending' = NoName
    \/ curID \in IDs /\ \E n : pending' = n
          /\ guards' = [guards EXCEPT ![curID] = [macro |-> n, saw |-> FALSE]]

LEMMA NextIsGuardStep == ASSUME TypeOK, [Next]_vars PROVE GuardStep
<1>0. curID # NoID => curID \in IDs
  BY DEF TypeOK
<1>1. CASE UNCHANGED vars
  BY <1>1 DEF vars, guardVars, GuardStep
<1>2. ASSUME NEW f \in MainFiles, EnterSourceFile(f) PROVE GuardStep
  BY <1>2 DEF EnterSourceFile, guardVars, GuardStep
<1>3. CASE Reset \/ EndOfDirective \/ EndOfFile
  BY <1>3 DEF Reset, EndOfDirective, EndOfFile, guardVars, GuardStep
<1>4. ASSUME NEW l \in Lines, Text(l) PROVE GuardStep
  BY <1>4 DEF Text, guardVars, GuardStep
<1>5. ASSUME NEW l \in Lines, HandleDirective(l) PROVE GuardStep
  <2>1. CASE Define(l)
    BY <2>1 DEF Define, SawGuardDefine, guardVars, GuardStep
  <2>2. CASE Ifndef(l)
    BY <1>0, <2>2 DEF Ifndef, guardVars, GuardStep
  <2>3. CASE Undef(l) \/ BadDirective(l) \/ If(l) \/ Ifdef(l) \/ Elif(l) \/ Elifdef(l)
             \/ Elifndef(l) \/ Else(l) \/ Endif(l) \/ Misplaced(l)
    BY <2>3 DEF Undef, BadDirective, If, Ifdef, Elif, Elifdef, Elifndef, Else, Endif,
                Misplaced, guardVars, GuardStep
  <2>4. CASE Include(l) \/ IncludeRefused(l) \/ IncludeNext(l) \/ PragmaOnce(l)
             \/ LineDirective(l)
    BY <2>4 DEF Include, IncludeRefused, IncludeNext, PragmaOnce, LineDirective,
                guardVars, GuardStep
  <2>. QED BY <1>5, <2>1, <2>2, <2>3, <2>4 DEF HandleDirective
<1>. QED BY <1>1, <1>2, <1>3, <1>4, <1>5 DEF Next

(* The detector waits only for the #define of a macro that some file is    *)
(* recorded with, in every interleaving of includes, ends and #ifndefs.    *)
THEOREM PendingRecorded == Spec => []PendingGuardIsRecorded
<1>1. Init => PendingGuardIsRecorded
  BY DEF Init, PendingGuardIsRecorded
<1>2. TypeOK /\ PendingGuardIsRecorded /\ [Next]_vars => PendingGuardIsRecorded'
  <2>1. SUFFICES ASSUME TypeOK, PendingGuardIsRecorded, GuardStep
                 PROVE  PendingGuardIsRecorded'
    BY NextIsGuardStep
  <2>2. guards \in [IDs -> GuardInfo]
    BY <2>1 DEF TypeOK
  <2>. QED BY <2>1, <2>2 DEF GuardStep, PendingGuardIsRecorded
<1>. QED BY <1>1, <1>2, TypeCorrect, PTL DEF Spec
=============================================================================
