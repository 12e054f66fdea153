------------------------------ MODULE DataLemmas ------------------------------
(* Facts about natural numbers and about the folds of the community modules  *)
(* (FlattenSeq, MapThenSumSet, Max) that the proofs about several components *)
(* need.  Induction is by the least counterexample: a set of natural numbers *)
(* that is not empty has a least element.                                    *)
EXTENDS SequencesExt, SequenceTheorems, FiniteSetTheorems, WellFoundedInduction, TLAPS

(* Every set of natural numbers but the empty one has a least element.       *)
LEMMA LeastNatural ==
    ASSUME NEW T \in SUBSET Nat, T # {}
    PROVE  \E n \in T : \A m \in T : n <= m
<1> DEFINE Less == {p \in Nat \X Nat : p[1] < p[2]}
<1>1. IsWellFoundedOn(Less, Nat)
  BY NatLessThanWellFounded DEF OpToRel
<1>2. PICK n \in T : \A m \in T : <<m, n>> \notin Less
  <2> HIDE DEF Less
  <2>. QED BY <1>1, WFMin
<1>3. ASSUME NEW m \in T PROVE n <= m
  <2>1. ~(m < n) /\ m \in Nat /\ n \in Nat
    BY <1>2, <1>3
  <2>. QED BY <2>1
<1>. QED BY <1>2, <1>3

(* What holds at 0 and at the successor of each number below n at which it   *)
(* holds, holds up to n.                                                     *)
LEMMA UpTo ==
    ASSUME NEW n \in Nat, NEW T, 0 \in T, \A k \in 0 .. (n - 1) : k \in T => k + 1 \in T
    PROVE  \A k \in 0 .. n : k \in T
<1> DEFINE B == {k \in 0 .. n : k \notin T}
<1>1. SUFFICES ASSUME B # {} PROVE FALSE
  OBVIOUS
<1>2. B \in SUBSET Nat
  OBVIOUS
<1>3. PICK k \in B : \A m \in B : k <= m
  <2> HIDE DEF B
  <2>. QED BY <1>1, <1>2, LeastNatural
<1>4. k \in 0 .. n /\ k \notin T /\ k # 0
  BY <1>3
<1>5. k - 1 \in 0 .. (n - 1) /\ k - 1 + 1 = k
  BY <1>4
<1>6. k - 1 \notin T
  BY <1>4, <1>5
<1>7. k - 1 \in B
  BY <1>5, <1>6
<1>. QED BY <1>3, <1>4, <1>7

-----------------------------------------------------------------------------
(* FlattenSeq.                                                               *)

\* f flattens the prefixes of s up to length n.
Flattens(f, s, n) ==
    f = [i \in 1 .. n |-> IF i = 1 THEN s[i] ELSE f[i - 1] \o s[i]]

LEMMA FlattenExists ==
    ASSUME NEW s, NEW n \in Nat
    PROVE  \E f : Flattens(f, s, n)
<1> DEFINE T == {k \in Nat : \E f : Flattens(f, s, k)}
<1>1. 0 \in T
  <2>1. [i \in {} |-> i] = [i \in 1 .. 0 |-> IF i = 1 THEN s[i] ELSE [j \in {} |-> j][i - 1] \o s[i]]
    OBVIOUS
  <2>. QED BY <2>1 DEF Flattens
<1>2. ASSUME NEW k \in 0 .. (n - 1), k \in T PROVE k + 1 \in T
  <2>1. PICK f : Flattens(f, s, k)
    BY <1>2
  <2> DEFINE g == [i \in 1 .. (k + 1) |->
                     IF i = 1 THEN s[i] ELSE f[i - 1] \o s[i]]
  <2>2. ASSUME NEW i \in 1 .. k PROVE g[i] = f[i]
    <3>1. g[i] = IF i = 1 THEN s[i] ELSE f[i - 1] \o s[i]
      OBVIOUS
    <3>2. f[i] = IF i = 1 THEN s[i] ELSE f[i - 1] \o s[i]
      <4>1. f = [j \in 1 .. k |-> IF j = 1 THEN s[j] ELSE f[j - 1] \o s[j]]
        BY <2>1 DEF Flattens
      <4> HIDE DEF g
      <4>. QED BY <4>1
    <3>. QED BY <3>1, <3>2
  <2>3. ASSUME NEW i \in 1 .. (k + 1), i # 1 PROVE g[i - 1] = f[i - 1]
    <3>1. i - 1 \in 1 .. k
      BY <2>3
    <3>. QED BY <2>2, <3>1
  <2>4. g = [i \in 1 .. (k + 1) |-> IF i = 1 THEN s[i] ELSE g[i - 1] \o s[i]]
    BY <2>3
  <2>5. Flattens(g, s, k + 1)
    BY <2>4 DEF Flattens
  <2>6. k + 1 \in Nat
    OBVIOUS
  <2>. QED BY <2>5, <2>6
<1>3. \A k \in 0 .. n : k \in T
  <2> HIDE DEF T
  <2>. QED BY <1>1, <1>2, UpTo
<1>. QED BY <1>3

LEMMA FlattenValue ==
    ASSUME NEW s, Len(s) \in Nat, Len(s) # 0
    PROVE  \E f : Flattens(f, s, Len(s)) /\ FlattenSeq(s) = f[Len(s)]
<1> DEFINE F == CHOOSE f : Flattens(f, s, Len(s))
<1>1. Flattens(F, s, Len(s))
  BY FlattenExists
<1>2. FlattenSeq(s) = F[Len(s)]
  BY DEF FlattenSeq, Flattens
<1>. QED BY <1>1, <1>2

\* The equation at one place.
LEMMA FlattensAt ==
    ASSUME NEW f, NEW s, NEW n \in Nat, Flattens(f, s, n), NEW i \in 1 .. n
    PROVE  f[i] = IF i = 1 THEN s[i] ELSE f[i - 1] \o s[i]
<1>1. f = [j \in 1 .. n |-> IF j = 1 THEN s[j] ELSE f[j - 1] \o s[j]]
  BY DEF Flattens
<1> DEFINE e(j) == IF j = 1 THEN s[j] ELSE f[j - 1] \o s[j]
<1>2. f = [j \in 1 .. n |-> e(j)]
  BY <1>1
<1> HIDE DEF e
<1>3. f[i] = e(i)
  BY <1>2
<1>. QED BY <1>3 DEF e

\* Where two sequences agree, so does what flattens them.
Agree(s, t, n) == \A i \in 1 .. n : s[i] = t[i]

LEMMA FlattensAgree ==
    ASSUME NEW s, NEW t, NEW n \in Nat, NEW m \in Nat, NEW f, NEW g,
           Flattens(f, s, n), Flattens(g, t, m), n <= m, Agree(s, t, n)
    PROVE  Agree(f, g, n)
<1> USE DEF Agree
<1> DEFINE T == {i \in Nat : i = 0 \/ f[i] = g[i]}
<1>1. ASSUME NEW i \in 0 .. (n - 1), i \in T PROVE i + 1 \in T
  <2>1. i + 1 \in 1 .. m /\ i + 1 \in 1 .. n /\ i + 1 - 1 = i
        /\ (i + 1 = 1 <=> i = 0)
    BY <1>1
  <2>2. f[i + 1] = IF i + 1 = 1 THEN s[i + 1] ELSE f[i + 1 - 1] \o s[i + 1]
    BY <2>1, FlattensAt
  <2>3. g[i + 1] = IF i + 1 = 1 THEN t[i + 1] ELSE g[i + 1 - 1] \o t[i + 1]
    BY <2>1, FlattensAt
  <2>4. f[i + 1] = g[i + 1]
    BY <1>1, <2>1, <2>2, <2>3
  <2>. QED BY <2>4
<1>2. \A i \in 0 .. n : i \in T
  <2>1. 0 \in T
    OBVIOUS
  <2> HIDE DEF T
  <2>. QED BY <1>1, <2>1, UpTo
<1>. QED BY <1>2

LEMMA FlattensType ==
    ASSUME NEW S, NEW s, NEW n \in Nat, NEW f, Flattens(f, s, n),
           \A i \in 1 .. n : s[i] \in Seq(S)
    PROVE  \A i \in 1 .. n : f[i] \in Seq(S)
<1> DEFINE T == {i \in Nat : i = 0 \/ f[i] \in Seq(S)}
<1>1. ASSUME NEW i \in 0 .. (n - 1), i \in T PROVE i + 1 \in T
  <2>1. i + 1 \in 1 .. n /\ i + 1 - 1 = i /\ (i + 1 = 1 <=> i = 0)
    BY <1>1
  <2>2. f[i + 1] = IF i + 1 = 1 THEN s[i + 1] ELSE f[i + 1 - 1] \o s[i + 1]
    BY <2>1, FlattensAt
  <2>3. s[i + 1] \in Seq(S) /\ (i # 0 => f[i] \in Seq(S))
    BY <1>1, <2>1
  <2>4. f[i + 1] \in Seq(S)
    BY <2>1, <2>2, <2>3, ConcatProperties
  <2>. QED BY <2>4
<1>2. \A i \in 0 .. n : i \in T
  <2>1. 0 \in T
    OBVIOUS
  <2> HIDE DEF T
  <2>. QED BY <1>1, <2>1, UpTo
<1>. QED BY <1>2

(* Nothing to flatten.                                                       *)
LEMMA FlattenEmpty == FlattenSeq(<<>>) = <<>>
BY DEF FlattenSeq

(* The result is a sequence of the elements.                                 *)
LEMMA FlattenType ==
    ASSUME NEW S, NEW s \in Seq(Seq(S))
    PROVE  FlattenSeq(s) \in Seq(S)
<1>1. Len(s) \in Nat /\ \A i \in 1 .. Len(s) : s[i] \in Seq(S)
  OBVIOUS
<1>2. CASE Len(s) = 0
  <2>1. s = <<>>
    BY <1>2
  <2>2. <<>> \in Seq(S)
    OBVIOUS
  <2>. QED BY <2>1, <2>2, FlattenEmpty
<1>3. CASE Len(s) # 0
  <2>1. PICK f : Flattens(f, s, Len(s)) /\ FlattenSeq(s) = f[Len(s)]
    BY <1>1, <1>3, FlattenValue
  <2>2. Len(s) \in 1 .. Len(s)
    BY <1>1, <1>3
  <2>3. \A i \in 1 .. Len(s) : f[i] \in Seq(S)
    BY <1>1, <2>1, FlattensType
  <2>. QED BY <2>1, <2>2, <2>3
<1>. QED BY <1>2, <1>3

(* A sequence more.                                                          *)
LEMMA FlattenAppend ==
    ASSUME NEW S, NEW s \in Seq(Seq(S)), NEW a \in Seq(S)
    PROVE  FlattenSeq(Append(s, a)) = FlattenSeq(s) \o a
<1> DEFINE t == Append(s, a)
           n == Len(s)
           m == n + 1
<1>1. /\ n \in Nat /\ m \in Nat /\ m # 0 /\ Len(t) = m /\ t[m] = a /\ m \in 1 .. m
      /\ \A i \in 1 .. n : s[i] = t[i]
      /\ m - 1 = n /\ n <= n /\ n <= m
  OBVIOUS
<1> HIDE DEF t, n, m
<1>2. PICK g : Flattens(g, t, m) /\ FlattenSeq(t) = g[m]
  BY <1>1, FlattenValue
<1>3. g[m] = IF m = 1 THEN a ELSE g[n] \o a
  BY <1>1, <1>2, FlattensAt
<1>4. CASE n = 0
  <2>1. s = <<>> /\ m = 1
    BY <1>4 DEF n, m
  <2>2. FlattenSeq(t) = a
    BY <1>2, <1>3, <2>1
  <2>. QED BY <2>1, <2>2, FlattenEmpty, ConcatEmptySeq DEF t
<1>5. CASE n # 0
  <2>1. PICK f : Flattens(f, s, n) /\ FlattenSeq(s) = f[n]
    BY <1>1, <1>5, FlattenValue DEF n
  <2>2. n \in 1 .. n /\ m # 1
    BY <1>1, <1>5 DEF m
  <2>3. f[n] = g[n]
    <3>1. Agree(s, t, n)
      BY <1>1 DEF Agree
    <3>2. Agree(f, g, n)
      BY <1>1, <1>2, <2>1, <3>1, FlattensAgree
    <3>. QED BY <2>2, <3>2 DEF Agree
  <2>. QED BY <1>2, <1>3, <2>1, <2>2, <2>3 DEF t
<1>. QED BY <1>4, <1>5

(* One sequence.                                                             *)
LEMMA FlattenOne ==
    ASSUME NEW S, NEW a \in Seq(S)
    PROVE  FlattenSeq(<<a>>) = a
<1>1. <<a>> = Append(<<>>, a) /\ <<>> \in Seq(Seq(S))
  OBVIOUS
<1>2. FlattenSeq(<<a>>) = FlattenSeq(<<>>) \o a
  BY <1>1, FlattenAppend
<1>. QED BY <1>2, FlattenEmpty, ConcatEmptySeq

\* Prefixes.
LEMMA PrefixGrows ==
    ASSUME NEW S, NEW s \in Seq(S), NEW k \in Nat, k < Len(s)
    PROVE  /\ SubSeq(s, 1, k) \in Seq(S)
           /\ SubSeq(s, 1, k + 1) = Append(SubSeq(s, 1, k), s[k + 1])
<1>1. k + 1 \in 1 .. Len(s) /\ k + 1 \in Nat
  OBVIOUS
<1>2. SubSeq(s, 1, k) \in Seq(S) /\ s[k + 1] \in S /\ SubSeq(s, 1, k + 1) \in Seq(S)
  <2>1. \A i \in 1 .. (k + 1) : s[i] \in S
    BY <1>1
  <2>. QED BY <1>1, <2>1, SubSeqProperties
<1>. QED
  <2>1. 1 \in 1 .. Len(s) /\ k + 1 \in 1 .. Len(s) /\ k + 1 - 1 = k
    BY <1>1
  <2>2. SubSeq(s, 1, k + 1) = SubSeq(s, 1, k) \o <<s[k + 1]>>
    BY <2>1, SubSeqRecursiveSecond
  <2>. QED BY <1>2, <2>2, AppendIsConcat

\* One more element on the right.
LEMMA AppendToConcat ==
    ASSUME NEW A, NEW x \in Seq(A), NEW y \in Seq(A), NEW e \in A
    PROVE  x \o y \in Seq(A) /\ x \o Append(y, e) = Append(x \o y, e)
OBVIOUS

\* A sequence more on the right.
LEMMA FlattenStep ==
    ASSUME NEW S, NEW s \in Seq(Seq(S)), NEW u \in Seq(Seq(S)), NEW a \in Seq(S),
           FlattenSeq(s \o u) = FlattenSeq(s) \o FlattenSeq(u)
    PROVE  FlattenSeq(s \o Append(u, a)) = FlattenSeq(s) \o FlattenSeq(Append(u, a))
<1>1. s \o u \in Seq(Seq(S)) /\ s \o Append(u, a) = Append(s \o u, a)
  BY ONLY AppendToConcat, s \in Seq(Seq(S)), u \in Seq(Seq(S)), a \in Seq(S)
<1>2. FlattenSeq(Append(s \o u, a)) = FlattenSeq(s \o u) \o a
  BY <1>1, FlattenAppend
<1>3. FlattenSeq(Append(u, a)) = FlattenSeq(u) \o a
  BY FlattenAppend
<1>4. FlattenSeq(s) \in Seq(S) /\ FlattenSeq(u) \in Seq(S)
  BY FlattenType
<1>5. (FlattenSeq(s) \o FlattenSeq(u)) \o a = FlattenSeq(s) \o (FlattenSeq(u) \o a)
  <2> DEFINE fs == FlattenSeq(s)
             fu == FlattenSeq(u)
  <2>1. fs \in Seq(S) /\ fu \in Seq(S)
    BY <1>4
  <2> HIDE DEF fs, fu
  <2>2. (fs \o fu) \o a = fs \o (fu \o a)
    BY ONLY <2>1, a \in Seq(S)
  <2>. QED BY <2>2 DEF fs, fu
<1>. QED BY <1>1, <1>2, <1>3, <1>5

(* Two sequences of sequences.                                               *)
LEMMA FlattenConcat ==
    ASSUME NEW S, NEW s \in Seq(Seq(S)), NEW t \in Seq(Seq(S))
    PROVE  FlattenSeq(s \o t) = FlattenSeq(s) \o FlattenSeq(t)
<1> DEFINE P(k) == SubSeq(t, 1, k)
           T == {k \in Nat : FlattenSeq(s \o P(k)) = FlattenSeq(s) \o FlattenSeq(P(k))}
<1>1. Len(t) \in Nat /\ FlattenSeq(s) \in Seq(S)
  BY FlattenType
<1>2. 0 \in T
  <2>1. P(0) = <<>>
    BY SubSeqEmpty
  <2>2. s \o P(0) = s
    BY <2>1, ConcatEmptySeq
  <2>. QED BY <1>1, <2>1, <2>2, FlattenEmpty, ConcatEmptySeq
<1>3. ASSUME NEW k \in 0 .. (Len(t) - 1), k \in T PROVE k + 1 \in T
  <2>1. k \in Nat /\ k < Len(t) /\ k + 1 \in 1 .. Len(t)
    BY <1>1, <1>3
  <2> DEFINE v == Append(P(k), t[k + 1])
  <2>2. P(k) \in Seq(Seq(S)) /\ P(k + 1) = v /\ t[k + 1] \in Seq(S)
    BY <2>1, PrefixGrows
  <2>3. FlattenSeq(s \o P(k)) = FlattenSeq(s) \o FlattenSeq(P(k))
    BY <1>3
  <2> HIDE DEF P
  <2>4. FlattenSeq(s \o v) = FlattenSeq(s) \o FlattenSeq(v)
    BY <2>2, <2>3, FlattenStep
  <2> HIDE DEF v
  <2>5. FlattenSeq(s \o P(k + 1)) = FlattenSeq(s) \o FlattenSeq(P(k + 1)) /\ k + 1 \in Nat
    BY <2>1, <2>2, <2>4
  <2>. QED BY <2>5
<1>4. Len(t) \in T
  <2> HIDE DEF T
  <2>1. \A k \in 0 .. Len(t) : k \in T
    BY <1>1, <1>2, <1>3, UpTo
  <2>. QED BY <1>1, <2>1
<1>5. P(Len(t)) = t
  BY SubSeqFull
<1> HIDE DEF P
<1>. QED BY <1>4, <1>5

(* Only empty sequences.                                                     *)
LEMMA FlattenNothing ==
    ASSUME NEW S, NEW s \in Seq(Seq(S)), \A i \in 1 .. Len(s) : s[i] = <<>>
    PROVE  FlattenSeq(s) = <<>>
<1> DEFINE T == {k \in Nat : FlattenSeq(SubSeq(s, 1, k)) = <<>>}
<1>1. Len(s) \in Nat
  OBVIOUS
<1>2. 0 \in T
  <2>1. SubSeq(s, 1, 0) = <<>>
    BY SubSeqEmpty
  <2>. QED BY <2>1, FlattenEmpty
<1>3. ASSUME NEW k \in 0 .. (Len(s) - 1), k \in T PROVE k + 1 \in T
  <2>1. k \in Nat /\ k < Len(s) /\ k + 1 \in 1 .. Len(s)
    BY <1>1, <1>3
  <2>2. SubSeq(s, 1, k) \in Seq(Seq(S)) /\ SubSeq(s, 1, k + 1) = Append(SubSeq(s, 1, k), s[k + 1])
        /\ s[k + 1] = <<>> /\ <<>> \in Seq(S)
    BY <2>1, PrefixGrows
  <2> DEFINE u == SubSeq(s, 1, k)
  <2>3. FlattenSeq(Append(u, <<>>)) = FlattenSeq(u) \o <<>>
    <3> DEFINE e == <<>>
    <3>1. u \in Seq(Seq(S)) /\ e \in Seq(S)
      BY <2>2
    <3> HIDE DEF u, e
    <3>2. FlattenSeq(Append(u, e)) = FlattenSeq(u) \o e
      BY <3>1, FlattenAppend
    <3>. QED BY <3>2 DEF e
  <2>4. FlattenSeq(SubSeq(s, 1, k + 1)) = FlattenSeq(u) \o <<>> /\ FlattenSeq(u) = <<>>
    BY <1>3, <2>2, <2>3
  <2>5. FlattenSeq(SubSeq(s, 1, k + 1)) = <<>>
    BY <2>4, ConcatEmptySeq
  <2>. QED BY <2>1, <2>5
<1>4. Len(s) \in T
  <2> HIDE DEF T
  <2>1. \A k \in 0 .. Len(s) : k \in T
    BY <1>1, <1>2, <1>3, UpTo
  <2>. QED BY <1>1, <2>1
<1>. QED BY <1>4, SubSeqFull

(* Sequences of one element or none give no more elements than they are.     *)
LEMMA FlattenShort ==
    ASSUME NEW S, NEW s \in Seq(Seq(S)), \A i \in 1 .. Len(s) : Len(s[i]) <= 1
    PROVE  Len(FlattenSeq(s)) <= Len(s)
<1> DEFINE T == {k \in Nat : Len(FlattenSeq(SubSeq(s, 1, k))) <= k}
<1>1. Len(s) \in Nat
  OBVIOUS
<1>2. 0 \in T
  <2>1. SubSeq(s, 1, 0) = <<>>
    BY SubSeqEmpty
  <2> DEFINE e == SubSeq(s, 1, 0)
  <2>2. FlattenSeq(e) = <<>>
    BY <2>1, FlattenEmpty
  <2> HIDE DEF e
  <2>3. Len(FlattenSeq(e)) <= 0
    BY <2>2
  <2>. QED BY <2>3 DEF e
<1>3. ASSUME NEW k \in 0 .. (Len(s) - 1), k \in T PROVE k + 1 \in T
  <2> DEFINE u == SubSeq(s, 1, k)
             a == s[k + 1]
  <2>1. k \in Nat /\ k < Len(s) /\ k + 1 \in 1 .. Len(s)
    BY <1>1, <1>3
  <2>2. u \in Seq(Seq(S)) /\ SubSeq(s, 1, k + 1) = Append(u, a) /\ a \in Seq(S) /\ Len(a) <= 1
    BY <2>1, PrefixGrows
  <2> HIDE DEF u, a
  <2>3. FlattenSeq(Append(u, a)) = FlattenSeq(u) \o a /\ FlattenSeq(u) \in Seq(S)
    BY <2>2, FlattenAppend, FlattenType
  <2>4. Len(FlattenSeq(u)) <= k
    BY <1>3 DEF u
  <2>5. Len(FlattenSeq(u) \o a) = Len(FlattenSeq(u)) + Len(a) /\ Len(FlattenSeq(u)) \in Nat /\ Len(a) \in Nat
    BY <2>2, <2>3
  <2> DEFINE v == SubSeq(s, 1, k + 1)
  <2>6. v = Append(u, a)
    BY <2>2
  <2> HIDE DEF v
  <2>7. Len(FlattenSeq(v)) <= k + 1
    BY <2>1, <2>2, <2>3, <2>4, <2>5, <2>6
  <2>. QED BY <2>1, <2>7 DEF v
<1>4. Len(s) \in T
  <2> HIDE DEF T
  <2>1. \A k \in 0 .. Len(s) : k \in T
    BY <1>1, <1>2, <1>3, UpTo
  <2>. QED BY <1>1, <2>1
<1>. QED BY <1>4, SubSeqFull

-----------------------------------------------------------------------------
(* What the elements of a sequence stand for, one after the other.           *)
Mapped(g, s) == [i \in DOMAIN s |-> g[s[i]]]
FlatMap(g, s) == FlattenSeq(Mapped(g, s))

\* A function of 1 to n.
LEMMA FunctionSeq ==
    ASSUME NEW B, NEW n \in Nat, NEW m \in [1 .. n -> B]
    PROVE  m \in Seq(B) /\ Len(m) = n
<1>1. m \in Seq(B)
  OBVIOUS
<1>. QED BY <1>1

\* The sequence that is flattened.
LEMMA MappedSeq ==
    ASSUME NEW A, NEW S, NEW g \in [A -> Seq(S)], NEW s \in Seq(A)
    PROVE  Mapped(g, s) \in Seq(Seq(S))
<1>1. DOMAIN s = 1 .. Len(s) /\ Len(s) \in Nat /\ \A i \in 1 .. Len(s) : s[i] \in A
  OBVIOUS
<1>2. Mapped(g, s) \in [1 .. Len(s) -> Seq(S)]
  BY <1>1 DEF Mapped
<1>. QED BY <1>1, <1>2, FunctionSeq

LEMMA MappedLen ==
    ASSUME NEW g, NEW s, DOMAIN s = 1 .. Len(s), Len(s) \in Nat
    PROVE  /\ Len(Mapped(g, s)) = Len(s)
           /\ \A i \in 1 .. Len(s) : Mapped(g, s)[i] = g[s[i]]
<1>1. Mapped(g, s) \in [1 .. Len(s) -> {g[s[i]] : i \in 1 .. Len(s)}]
  BY DEF Mapped
<1>2. Len(Mapped(g, s)) = Len(s)
  BY <1>1, FunctionSeq
<1>. QED BY <1>2 DEF Mapped

LEMMA FlatMapType ==
    ASSUME NEW A, NEW S, NEW g \in [A -> Seq(S)], NEW s \in Seq(A)
    PROVE  FlatMap(g, s) \in Seq(S)
BY MappedSeq, FlattenType DEF FlatMap

LEMMA FlatMapEmpty == \A g : FlatMap(g, <<>>) = <<>>
<1>1. ASSUME NEW g PROVE Mapped(g, <<>>) = <<>>
  BY DEF Mapped
<1>. QED BY <1>1, FlattenEmpty DEF FlatMap

LEMMA FlatMapOne ==
    ASSUME NEW A, NEW S, NEW g \in [A -> Seq(S)], NEW a \in A
    PROVE  FlatMap(g, <<a>>) = g[a]
<1>1. Mapped(g, <<a>>) = <<g[a]>>
  BY DEF Mapped
<1>. QED BY <1>1, FlattenOne DEF FlatMap

LEMMA FlatMapConcat ==
    ASSUME NEW A, NEW S, NEW g \in [A -> Seq(S)], NEW s \in Seq(A), NEW t \in Seq(A)
    PROVE  FlatMap(g, s \o t) = FlatMap(g, s) \o FlatMap(g, t)
<1> DEFINE u == Mapped(g, s)
           v == Mapped(g, t)
           w == Mapped(g, s \o t)
<1>1. /\ u \in Seq(Seq(S)) /\ Len(u) = Len(s) /\ v \in Seq(Seq(S)) /\ Len(v) = Len(t)
      /\ s \o t \in Seq(A)
  <2>1. s \o t \in Seq(A)
    OBVIOUS
  <2>2. u \in Seq(Seq(S)) /\ Len(u) = Len(s)
    BY MappedSeq, MappedLen
  <2>3. v \in Seq(Seq(S)) /\ Len(v) = Len(t)
    BY MappedSeq, MappedLen
  <2>. QED BY <2>1, <2>2, <2>3
<1>2. /\ w \in Seq(Seq(S)) /\ Len(w) = Len(s) + Len(t)
      /\ u \o v \in Seq(Seq(S)) /\ Len(u \o v) = Len(s) + Len(t)
  <2>1. w \in Seq(Seq(S)) /\ Len(w) = Len(s) + Len(t)
    <3> DEFINE r == s \o t
    <3>1. /\ r \in Seq(A) /\ Len(r) = Len(s) + Len(t)
          /\ DOMAIN r = 1 .. Len(r) /\ Len(r) \in Nat
      BY <1>1
    <3> HIDE DEF r
    <3>2. Mapped(g, r) \in Seq(Seq(S)) /\ Len(Mapped(g, r)) = Len(r)
      BY <3>1, MappedSeq, MappedLen
    <3>. QED BY <3>1, <3>2 DEF r
  <2> HIDE DEF u, v, w
  <2>3. u \o v \in Seq(Seq(S)) /\ Len(u \o v) = Len(u) + Len(v)
    BY <1>1, ConcatProperties
  <2>. QED BY <1>1, <2>1, <2>3
<1>3. ASSUME NEW i \in 1 .. Len(w) PROVE w[i] = (u \o v)[i]
  <2>1. /\ i \in 1 .. Len(s) + Len(t) /\ Len(s) \in Nat /\ Len(t) \in Nat
        /\ DOMAIN s = 1 .. Len(s) /\ DOMAIN t = 1 .. Len(t)
        /\ DOMAIN (s \o t) = 1 .. Len(s) + Len(t)
    BY <1>1, <1>2
  <2>2. w[i] = g[(s \o t)[i]]
    BY <2>1 DEF Mapped
  <2>3. CASE i <= Len(s)
    <3>1. (s \o t)[i] = s[i] /\ (u \o v)[i] = u[i] /\ i \in DOMAIN s
      BY <1>1, <2>1, <2>3, ConcatProperties
    <3>. QED BY <2>2, <3>1 DEF Mapped
  <2>4. CASE ~(i <= Len(s))
    <3>1. (s \o t)[i] = t[i - Len(s)]
      BY <1>1, <2>1, <2>4, ConcatProperties
    <3>2. (u \o v)[i] = v[i - Len(s)]
      <4>1. i \in 1 .. Len(u) + Len(v) /\ Len(u) = Len(s) /\ ~(i <= Len(u))
        BY <1>1, <2>1, <2>4
      <4>2. (u \o v)[i] = IF i <= Len(u) THEN u[i] ELSE v[i - Len(u)]
        <5> HIDE DEF u, v, w
        <5>. QED BY <1>1, <4>1, ConcatProperties
      <4>. QED BY <4>1, <4>2
    <3>3. i - Len(s) \in DOMAIN t
      BY <2>1, <2>4
    <3>. QED BY <2>2, <3>1, <3>2, <3>3 DEF Mapped
  <2>. QED BY <2>3, <2>4
<1>4. w = u \o v
  <2> HIDE DEF u, v, w
  <2>. QED BY <1>2, <1>3, SeqEqual
<1> HIDE DEF u, v, w
<1>5. FlattenSeq(w) = FlattenSeq(u) \o FlattenSeq(v)
  BY <1>1, <1>4, FlattenConcat
<1>. QED BY <1>5 DEF FlatMap, u, v, w

LEMMA FlatMapNothing ==
    ASSUME NEW A, NEW S, NEW g \in [A -> Seq(S)], NEW s \in Seq(A),
           \A i \in 1 .. Len(s) : g[s[i]] = <<>>
    PROVE  FlatMap(g, s) = <<>>
<1> DEFINE u == Mapped(g, s)
<1>1. u \in Seq(Seq(S)) /\ Len(u) = Len(s) /\ \A i \in 1 .. Len(s) : u[i] = g[s[i]]
  <2>1. DOMAIN s = 1 .. Len(s) /\ Len(s) \in Nat
    OBVIOUS
  <2>2. u \in Seq(Seq(S))
    BY MappedSeq
  <2>3. Len(u) = Len(s) /\ \A i \in 1 .. Len(s) : u[i] = g[s[i]]
    BY <2>1, MappedLen
  <2>. QED BY <2>2, <2>3
<1>2. \A i \in 1 .. Len(u) : u[i] = <<>>
  <2>1. \A i \in 1 .. Len(s) : u[i] = g[s[i]]
    BY <1>1
  <2>. QED BY <1>1, <2>1
<1> HIDE DEF u
<1>3. FlattenSeq(u) = <<>>
  BY <1>1, <1>2, FlattenNothing
<1>. QED BY <1>3 DEF FlatMap, u

\* Two elements, one after the other.
LEMMA PairElements ==
    ASSUME NEW S, NEW x \in Seq(S), NEW y \in Seq(S), Len(x) = 1, Len(y) = 1
    PROVE  /\ x \o y \in Seq(S) /\ Len(x \o y) = 2
           /\ (x \o y)[1] = x[1] /\ (x \o y)[2] = y[1]
<1>1. x \o y \in Seq(S) /\ Len(x \o y) = 2
  OBVIOUS
<1>2. (x \o y)[1] = x[1]
  OBVIOUS
<1>3. (x \o y)[2] = y[1]
  <2>1. \A i \in 1 .. Len(x) + Len(y) :
            (x \o y)[i] = IF i <= Len(x) THEN x[i] ELSE y[i - Len(x)]
    BY ConcatProperties
  <2>2. 2 \in 1 .. Len(x) + Len(y) /\ ~(2 <= Len(x)) /\ 2 - Len(x) = 1
    OBVIOUS
  <2>. QED BY <2>1, <2>2
<1>. QED BY <1>1, <1>2, <1>3

LEMMA PairConcat ==
    ASSUME NEW a, NEW b
    PROVE  <<a>> \o <<b>> = <<a, b>>
<1> DEFINE S == {a, b}
           x == <<a>>
           y == <<b>>
           z == <<a, b>>
<1>1. /\ x \in Seq(S) /\ y \in Seq(S) /\ z \in Seq(S)
      /\ Len(x) = 1 /\ Len(y) = 1 /\ Len(z) = 2 /\ x[1] = z[1] /\ y[1] = z[2]
  OBVIOUS
<1> HIDE DEF S, x, y, z
<1>2. x \o y \in Seq(S) /\ Len(x \o y) = 2
      /\ (x \o y)[1] = x[1] /\ (x \o y)[2] = y[1]
  BY <1>1, PairElements
<1>3. \A i \in 1 .. Len(x \o y) : (x \o y)[i] = z[i]
  <2>1. \A i \in 1 .. Len(x \o y) : i = 1 \/ i = 2
    BY <1>2
  <2>. QED BY <1>1, <1>2, <2>1
<1>4. x \o y = z
  BY <1>1, <1>2, <1>3, SeqEqual
<1>. QED BY <1>4 DEF x, y, z

-----------------------------------------------------------------------------
(* Sums over a finite set, as MapThenSumSet forms them, and maxima.          *)

\* The element that CHOOSE takes.
Chosen(s) == CHOOSE x \in s : TRUE

\* it adds g up over the subsets of S, one element after the other.
Sums(it, g, S) ==
    it = [s \in SUBSET S |-> IF s = {} THEN 0 ELSE g[Chosen(s)] + it[s \ {Chosen(s)}]]

\* The same for the subsets of at most n elements.
SumsUpTo(it, g, S, n) ==
    it = [s \in {t \in SUBSET S : Cardinality(t) <= n} |->
            IF s = {} THEN 0 ELSE g[Chosen(s)] + it[s \ {Chosen(s)}]]

\* The chosen element and the rest of a set.
LEMMA ChosenOfSet ==
    ASSUME NEW S, IsFiniteSet(S), NEW s \in SUBSET S, s # {}, NEW x, x = Chosen(s)
    PROVE  /\ x \in s /\ x \in S /\ s \ {x} \in SUBSET S
           /\ IsFiniteSet(s) /\ IsFiniteSet(s \ {x}) /\ Cardinality(s) \in Nat \ {0}
           /\ Cardinality(s \ {x}) = Cardinality(s) - 1
<1>1. x \in s
  BY DEF Chosen
<1>2. IsFiniteSet(s)
  BY FS_Subset
<1>3. Cardinality(s) \in Nat /\ Cardinality(s) # 0
  BY <1>2, FS_CardinalityType, FS_EmptySet
<1>. QED BY <1>1, <1>2, <1>3, FS_RemoveElement

LEMMA SumsAt ==
    ASSUME NEW it, NEW g, NEW S, Sums(it, g, S), NEW s \in SUBSET S
    PROVE  it[s] = IF s = {} THEN 0 ELSE g[Chosen(s)] + it[s \ {Chosen(s)}]
<1> DEFINE e(t) == IF t = {} THEN 0 ELSE g[Chosen(t)] + it[t \ {Chosen(t)}]
<1>1. it = [t \in SUBSET S |-> e(t)]
  BY DEF Sums
<1> HIDE DEF e
<1>2. it[s] = e(s)
  BY <1>1
<1>. QED BY <1>2 DEF e

LEMMA SumsExist ==
    ASSUME NEW g, NEW S, IsFiniteSet(S)
    PROVE  \E it : Sums(it, g, S)
<1> DEFINE T == {n \in Nat : \E it : SumsUpTo(it, g, S, n)}
           Up(n) == {t \in SUBSET S : Cardinality(t) <= n}
<1>1. 0 \in T
  <2> DEFINE it == [s \in Up(0) |-> 0]
  <2>1. \A s \in Up(0) : s = {}
    BY FS_Subset, FS_CardinalityType, FS_EmptySet
  <2>2. it = [s \in Up(0) |-> IF s = {} THEN 0 ELSE g[Chosen(s)] + it[s \ {Chosen(s)}]]
    BY <2>1
  <2>. QED BY <2>2 DEF SumsUpTo
<1>2. ASSUME NEW n \in 0 .. (Cardinality(S) - 1), n \in T PROVE n + 1 \in T
  <2>1. n \in Nat
    BY FS_CardinalityType
  <2>2. PICK it : SumsUpTo(it, g, S, n)
    BY <1>2
  <2> DEFINE e(f, s) == IF s = {} THEN 0 ELSE g[Chosen(s)] + f[s \ {Chosen(s)}]
             jt == [s \in Up(n + 1) |-> e(it, s)]
  <2>3. it = [s \in Up(n) |-> e(it, s)]
    BY <2>2 DEF SumsUpTo
  <2>4. ASSUME NEW s \in Up(n + 1), s # {} PROVE s \ {Chosen(s)} \in Up(n) /\ s \ {Chosen(s)} \in Up(n + 1)
    <3>1. s \in SUBSET S /\ Cardinality(s) <= n + 1
      OBVIOUS
    <3> DEFINE x == Chosen(s)
    <3>2. s \ {x} \in SUBSET S /\ Cardinality(s \ {x}) = Cardinality(s) - 1 /\ Cardinality(s) \in Nat
      BY <2>4, <3>1, ChosenOfSet
    <3>. QED BY <2>1, <3>1, <3>2
  <2>5. ASSUME NEW s \in Up(n + 1), s # {} PROVE it[s \ {Chosen(s)}] = jt[s \ {Chosen(s)}]
    <3> DEFINE r == s \ {Chosen(s)}
    <3>1. r \in Up(n) /\ r \in Up(n + 1)
      BY <2>4, <2>5
    <3> HIDE DEF r, e, Up
    <3>2. it[r] = e(it, r)
      BY <2>3, <3>1
    <3>3. jt[r] = e(it, r)
      BY <3>1
    <3>. QED BY <3>2, <3>3 DEF r
  <2>6. ASSUME NEW s \in Up(n + 1) PROVE e(it, s) = e(jt, s)
    <3> HIDE DEF jt, Up
    <3>. QED BY <2>5, <2>6
  <2>7. jt = [s \in Up(n + 1) |-> e(jt, s)]
    <3> HIDE DEF e, Up
    <3>. QED BY <2>6
  <2>8. SumsUpTo(jt, g, S, n + 1)
    <3> HIDE DEF jt
    <3>. QED BY <2>7 DEF SumsUpTo
  <2>. QED BY <2>1, <2>8
<1>3. Cardinality(S) \in T
  <2> HIDE DEF T
  <2>. QED BY <1>1, <1>2, UpTo, FS_CardinalityType
<1>4. PICK it : SumsUpTo(it, g, S, Cardinality(S))
  BY <1>3
<1>5. Up(Cardinality(S)) = SUBSET S
  BY FS_Subset
<1>6. Sums(it, g, S)
  BY <1>4, <1>5 DEF Sums, SumsUpTo
<1>. QED BY <1>6

\* Induction over the size of the subsets of a finite set.
LEMMA SubsetInduction ==
    ASSUME NEW S, IsFiniteSet(S), NEW A, {} \in A,
           \A s \in SUBSET S : s # {} /\ (\A x \in s : s \ {x} \in A) => s \in A
    PROVE  \A s \in SUBSET S : s \in A
<1> DEFINE T == {n \in Nat : \A s \in SUBSET S : Cardinality(s) = n => s \in A}
<1>1. 0 \in T
  BY FS_Subset, FS_EmptySet
<1>2. ASSUME NEW n \in 0 .. (Cardinality(S) - 1), n \in T PROVE n + 1 \in T
  <2>1. n \in Nat
    BY FS_CardinalityType
  <2>2. ASSUME NEW s \in SUBSET S, Cardinality(s) = n + 1 PROVE s \in A
    <3>0. Cardinality({}) = 0
      BY FS_EmptySet
    <3>1. s # {}
      <4>1. SUFFICES ASSUME s = {} PROVE FALSE
        OBVIOUS
      <4>2. Cardinality(s) = 0 /\ Cardinality(s) = n + 1
        BY <2>2, <3>0, <4>1, Zenon
      <4>. QED BY <2>1, <4>2
    <3>2. ASSUME NEW x \in s PROVE s \ {x} \in A
      <4>1. IsFiniteSet(s)
        BY FS_Subset
      <4>2. Cardinality(s \ {x}) = Cardinality(s) - 1
        BY <4>1, FS_RemoveElement
      <4>3. s \ {x} \in SUBSET S /\ Cardinality(s \ {x}) = n
        BY <2>1, <2>2, <4>2
      <4>. QED BY <1>2, <4>3
    <3>. QED BY <3>1, <3>2
  <2>. QED BY <2>1, <2>2
<1>3. \A n \in 0 .. Cardinality(S) : n \in T
  <2> HIDE DEF T
  <2>. QED BY <1>1, <1>2, UpTo, FS_CardinalityType
<1>4. ASSUME NEW s \in SUBSET S PROVE Cardinality(s) \in 0 .. Cardinality(S)
  BY FS_Subset, FS_CardinalityType
<1>. QED BY <1>3, <1>4

(* A sum of natural numbers is one.                                          *)
LEMMA SumsNat ==
    ASSUME NEW S, IsFiniteSet(S), NEW g \in [S -> Nat], NEW it, Sums(it, g, S)
    PROVE  \A s \in SUBSET S : it[s] \in Nat
<1> DEFINE A == {s \in SUBSET S : it[s] \in Nat}
<1>1. {} \in A
  <2>1. it[{}] = 0
    BY SumsAt
  <2>. QED BY <2>1
<1>2. ASSUME NEW s \in SUBSET S, s # {}, \A x \in s : s \ {x} \in A PROVE s \in A
  <2>1. it[s] = g[Chosen(s)] + it[s \ {Chosen(s)}]
    BY <1>2, SumsAt
  <2>2. Chosen(s) \in S /\ it[s \ {Chosen(s)}] \in Nat
    BY <1>2, ChosenOfSet
  <2>. QED BY <2>1, <2>2
<1> HIDE DEF A
<1>3. \A s \in SUBSET S : s \in A
  BY <1>1, <1>2, SubsetInduction
<1>. QED BY <1>3 DEF A

(* Larger terms, larger sum.                                                 *)
LEMMA SumsMonotone ==
    ASSUME NEW S, IsFiniteSet(S), NEW g \in [S -> Nat], NEW h \in [S -> Nat],
           \A x \in S : g[x] <= h[x], NEW it, Sums(it, g, S), NEW jt, Sums(jt, h, S)
    PROVE  \A s \in SUBSET S : it[s] <= jt[s]
<1> DEFINE A == {s \in SUBSET S : it[s] <= jt[s]}
<1>1. {} \in A
  <2>1. it[{}] = 0
    BY SumsAt
  <2>2. jt[{}] = 0
    BY SumsAt
  <2>. QED BY <2>1, <2>2
<1>2. ASSUME NEW s \in SUBSET S, s # {}, \A x \in s : s \ {x} \in A PROVE s \in A
  <2> DEFINE r == s \ {Chosen(s)}
  <2>0. it[s] = (IF s = {} THEN 0 ELSE g[Chosen(s)] + it[r])
        /\ jt[s] = (IF s = {} THEN 0 ELSE h[Chosen(s)] + jt[r])
    <3> HIDE DEF A
    <3>. QED BY SumsAt
  <2>1. it[s] = g[Chosen(s)] + it[r]
    BY <1>2, <2>0
  <2>2. jt[s] = h[Chosen(s)] + jt[r]
    BY <1>2, <2>0
  <2>3. Chosen(s) \in S /\ r \in SUBSET S /\ it[r] <= jt[r]
    BY <1>2, ChosenOfSet
  <2> HIDE DEF r
  <2>4. it[r] \in Nat /\ jt[r] \in Nat
    BY <2>3, SumsNat
  <2>5. g[Chosen(s)] \in Nat /\ h[Chosen(s)] \in Nat /\ g[Chosen(s)] <= h[Chosen(s)]
    BY <2>3
  <2>. QED BY <2>1, <2>2, <2>3, <2>4, <2>5
<1> HIDE DEF A
<1>3. \A s \in SUBSET S : s \in A
  BY <1>1, <1>2, SubsetInduction
<1>. QED BY <1>3 DEF A

(* Any element may be taken first.                                           *)
LEMMA SumsTake ==
    ASSUME NEW S, IsFiniteSet(S), NEW g \in [S -> Nat], NEW it, Sums(it, g, S)
    PROVE  \A s \in SUBSET S : \A x \in s : it[s] = g[x] + it[s \ {x}]
<1> DEFINE A == {s \in SUBSET S : \A x \in s : it[s] = g[x] + it[s \ {x}]}
<1>1. {} \in A
  OBVIOUS
<1>2. ASSUME NEW s \in SUBSET S, s # {}, \A x \in s : s \ {x} \in A PROVE s \in A
  <2> SUFFICES ASSUME NEW x \in s PROVE it[s] = g[x] + it[s \ {x}]
    OBVIOUS
  <2> DEFINE y == Chosen(s)
  <2>1. it[s] = g[y] + it[s \ {y}] /\ y \in s
    <3>1. it[s] = g[y] + it[s \ {y}]
      BY <1>2, SumsAt
    <3>2. y \in s
      BY <1>2, ChosenOfSet
    <3>. QED BY <3>1, <3>2
  <2> HIDE DEF y
  <2>2. CASE x = y
    BY <2>1, <2>2
  <2>3. CASE x # y
    <3> DEFINE r == (s \ {x}) \ {y}
    <3>1. r = (s \ {y}) \ {x} /\ r \in SUBSET S
      OBVIOUS
    <3>2. it[s \ {x}] = g[y] + it[r]
      BY <1>2, <2>1, <2>3
    <3>3. it[s \ {y}] = g[x] + it[r]
      BY <1>2, <2>1, <2>3, <3>1
    <3> HIDE DEF r
    <3>4. it[r] \in Nat /\ g[x] \in Nat /\ g[y] \in Nat
      BY <2>1, <3>1, SumsNat
    <3>. QED BY <2>1, <3>2, <3>3, <3>4
  <2>. QED BY <2>2, <2>3
<1> HIDE DEF A
<1>3. \A s \in SUBSET S : s \in A
  BY <1>1, <1>2, SubsetInduction
<1>. QED BY <1>3 DEF A

(* Zeros may be left out.                                                    *)
LEMMA SumsRest ==
    ASSUME NEW S, IsFiniteSet(S), NEW g \in [S -> Nat], NEW it, Sums(it, g, S),
           NEW z \in SUBSET S, \A x \in S \ z : g[x] = 0
    PROVE  it[S] = it[z]
<1> DEFINE A == {s \in SUBSET S : it[s \cup z] = it[z]}
<1>1. {} \in A
  <2>1. {} \cup z = z
    OBVIOUS
  <2>. QED BY <2>1
<1>2. ASSUME NEW s \in SUBSET S, s # {}, \A x \in s : s \ {x} \in A PROVE s \in A
  <2>1. CASE s \subseteq z
    <3>1. s \cup z = z
      BY <2>1
    <3>. QED BY <3>1
  <2>2. CASE ~(s \subseteq z)
    <3>1. PICK x \in s : x \notin z
      BY <2>2
    <3> DEFINE u == s \cup z
               r == s \ {x}
    <3>2. u \in SUBSET S /\ x \in u /\ u \ {x} = r \cup z /\ x \in S /\ g[x] = 0
      BY <3>1
    <3>3. it[u] = g[x] + it[u \ {x}]
      <4> HIDE DEF u
      <4>. QED BY <3>2, SumsTake
    <3>4. it[r \cup z] = it[z] /\ it[z] \in Nat
      BY <1>2, SumsNat
    <3> HIDE DEF u, r
    <3>5. it[u] = 0 + it[z]
      <4>1. it[u \ {x}] = it[z] /\ g[x] = 0
        BY <3>2, <3>4
      <4>. QED BY <3>3, <4>1, Zenon
    <3>6. it[u] = it[z]
      BY <3>4, <3>5
    <3>. QED BY <3>6 DEF u
  <2>. QED BY <2>1, <2>2
<1>3. S \in A
  <2> HIDE DEF A
  <2>. QED BY <1>1, <1>2, SubsetInduction
<1>4. S \cup z = S
  OBVIOUS
<1>. QED BY <1>3, <1>4

\* S is a table of rows K and columns F, and z is row k.
Table(S, K, F, z, k) == S = K \X F /\ z = {k} \X F

(* The sum over one row of a table.                                          *)
LEMMA SumsRow ==
    ASSUME NEW K, NEW F, IsFiniteSet(K), IsFiniteSet(F), NEW k \in K,
           NEW S, NEW z, Table(S, K, F, z, k),
           NEW g \in [S -> Nat], NEW h \in [F -> Nat], \A f \in F : g[<<k, f>>] = h[f],
           NEW it, Sums(it, g, S), NEW jt, Sums(jt, h, F)
    PROVE  it[z] = jt[F]
<1> USE DEF Table
<1> DEFINE Row(s) == {k} \X s
           A == {s \in SUBSET F : it[Row(s)] = jt[s]}
<1>0. IsFiniteSet(S)
  BY FS_Product
<1>1. {} \in A
  <2>1. Row({}) = {} /\ {} \in SUBSET S /\ {} \in SUBSET F
    OBVIOUS
  <2>2. it[{}] = 0
    BY <2>1, SumsAt
  <2>3. jt[{}] = 0
    BY <2>1, SumsAt
  <2>. QED BY <2>1, <2>2, <2>3
<1>2. ASSUME NEW s \in SUBSET F, s # {}, \A f \in s : s \ {f} \in A PROVE s \in A
  <2>1. PICK f \in s : TRUE
    BY <1>2
  <2> DEFINE e == <<k, f>>
  <2>2. Row(s) \in SUBSET S /\ e \in Row(s) /\ Row(s) \ {e} = Row(s \ {f}) /\ g[e] = h[f]
    OBVIOUS
  <2>3. it[Row(s)] = g[e] + it[Row(s) \ {e}]
    <3> DEFINE w == Row(s)
    <3>1. w \in SUBSET S /\ e \in w
      BY <2>2
    <3> HIDE DEF w, e
    <3>2. it[w] = g[e] + it[w \ {e}]
      BY <1>0, <3>1, SumsTake
    <3>. QED BY <3>2 DEF w
  <2>4. jt[s] = h[f] + jt[s \ {f}]
    BY SumsTake
  <2>5. it[Row(s \ {f})] = jt[s \ {f}]
    BY <1>2
  <2>. QED BY <2>2, <2>3, <2>4, <2>5
<1>3. F \in A
  <2> HIDE DEF A
  <2>. QED BY <1>1, <1>2, SubsetInduction
<1>. QED BY <1>3

\* Whatever adds up g over S gives the same sum.
LEMMA SumsUnique ==
    ASSUME NEW S, IsFiniteSet(S), NEW g \in [S -> Nat],
           NEW it, Sums(it, g, S), NEW jt, Sums(jt, g, S)
    PROVE  it[S] \in Nat /\ it[S] = jt[S]
<1>1. it[S] \in Nat /\ jt[S] \in Nat
  BY SumsNat
<1>2. it[S] <= jt[S] /\ jt[S] <= it[S]
  BY SumsMonotone
<1>. QED BY <1>1, <1>2

\* The sum of the values of g.
Total(g, S) == (CHOOSE it : Sums(it, g, S))[S]

LEMMA TotalIs ==
    ASSUME NEW S, IsFiniteSet(S), NEW g \in [S -> Nat], NEW it, Sums(it, g, S)
    PROVE  it[S] = Total(g, S) /\ Total(g, S) \in Nat
<1>1. Sums(CHOOSE jt : Sums(jt, g, S), g, S)
  OBVIOUS
<1>. QED BY <1>1, SumsUnique DEF Total

LEMMA TotalMonotone ==
    ASSUME NEW S, IsFiniteSet(S), NEW g \in [S -> Nat], NEW h \in [S -> Nat],
           \A x \in S : g[x] <= h[x]
    PROVE  Total(g, S) <= Total(h, S) /\ Total(g, S) \in Nat /\ Total(h, S) \in Nat
<1>1. Sums(CHOOSE jt : Sums(jt, g, S), g, S) /\ Sums(CHOOSE jt : Sums(jt, h, S), h, S)
  BY SumsExist
<1>2. S \in SUBSET S
  OBVIOUS
<1>. QED BY <1>1, <1>2, SumsMonotone, SumsNat DEF Total

\* A table with zeros in all rows but one.
LEMMA TotalRow ==
    ASSUME NEW K, NEW F, IsFiniteSet(K), IsFiniteSet(F), NEW k \in K,
           NEW S, NEW z, Table(S, K, F, z, k),
           NEW g \in [S -> Nat], NEW h \in [F -> Nat], \A f \in F : g[<<k, f>>] = h[f],
           \A e \in S \ z : g[e] = 0
    PROVE  Total(g, S) = Total(h, F)
<1>1. IsFiniteSet(S) /\ z \in SUBSET S
  <2>1. IsFiniteSet(S)
    BY FS_Product DEF Table
  <2>. QED BY <2>1 DEF Table
<1>2. PICK it : Sums(it, g, S)
  BY <1>1, SumsExist
<1>3. PICK jt : Sums(jt, h, F)
  BY SumsExist
<1>4. it[z] = jt[F]
  BY <1>2, <1>3, SumsRow
<1>5. jt[F] = Total(h, F)
  BY <1>3, TotalIs
<1>6. it[S] = it[z]
  BY <1>1, <1>2, SumsRest
<1>7. it[S] = Total(g, S)
  BY <1>1, <1>2, TotalIs
<1>. QED BY <1>4, <1>5, <1>6, <1>7

(* The largest of some numbers up to n.                                      *)
LEMMA MaxUpTo ==
    ASSUME NEW n \in Nat, NEW T \in SUBSET (1 .. n), T # {}
    PROVE  Max(T) \in T /\ \A t \in T : t <= Max(T)
<1> DEFINE U == {n - t : t \in T}
<1>1. U \in SUBSET Nat /\ U # {}
  <2>1. \A t \in T : n - t \in Nat
    OBVIOUS
  <2>. QED BY <2>1
<1>2. PICK u \in U : \A v \in U : u <= v
  BY <1>1, LeastNatural
<1>3. PICK m \in T : u = n - m
  BY <1>2
<1>4. \A t \in T : m >= t
  <2>1. ASSUME NEW t \in T PROVE m >= t
    <3>1. n - m <= n - t /\ m \in Nat /\ t \in Nat
      BY <1>2, <1>3
    <3>. QED BY <3>1
  <2>. QED BY <2>1
<1>5. Max(T) \in T /\ \A t \in T : Max(T) >= t
  BY <1>3, <1>4 DEF Max
<1>. QED BY <1>5
=============================================================================
