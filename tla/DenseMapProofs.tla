--------------------------- MODULE DenseMapProofs ---------------------------
(***************************************************************************)
(* Proofs about DenseMap.  The argument: every occupied bucket can be      *)
(* reached from its home without meeting an empty bucket, and while the    *)
(* map is idle some bucket is empty; so a search ends, and ends at the     *)
(* bucket of the key if there is one.                                      *)
(***************************************************************************)
EXTENDS DenseMap, FiniteSetTheorems, WellFoundedInduction, TLAPS

-----------------------------------------------------------------------------
(* Arithmetic of probing.                                                  *)

\* The remainder of a division is below the divisor.
LEMMA ModRange ==
    ASSUME NEW a \in Nat, NEW n \in Nat, n > 0
    PROVE  a % n \in 0 .. n - 1
BY SMT

\* A number below 2n is reduced by one subtraction at most.
LEMMA ModWrap ==
    ASSUME NEW a \in Nat, NEW n \in Nat, n > 0, a < 2 * n
    PROVE  a % n = IF a < n THEN a ELSE a - n
BY SMT

\* A probe stays in the table.
LEMMA ProbeRange ==
    ASSUME NEW n \in Nat, NEW h \in Nat, NEW p \in 0 .. n - 1
    PROVE  ((h % n) + p) % n \in 0 .. n - 1
<1>1. n > 0 /\ p \in Nat
  OBVIOUS
<1>2. h % n \in 0 .. n - 1
  BY <1>1, ModRange
<1>3. (h % n) + p \in Nat
  BY <1>1, <1>2
<1>. QED BY <1>1, <1>3, ModRange

\* A non-empty set of numbers has a least element.
LEMMA LeastOf ==
    ASSUME NEW S, S \subseteq Nat, S # {}
    PROVE  Least(S) \in S /\ \A q \in S : Least(S) <= q
<1>1. PICK p \in S : \A q \in S : ~ (<<q, p>> \in OpToRel(<, Nat))
  BY NatLessThanWellFounded, WFMin
<1>2. ASSUME NEW q \in S PROVE p <= q
  <2>1. ~(q < p)
    BY <1>1 DEF OpToRel
  <2>. QED BY <2>1
<1>. QED BY <1>2 DEF Least

\* The probes of a key visit every bucket of the table exactly once.
LEMMA AtProperties ==
    ASSUME size \in Nat, size # 0, NEW k \in Keys
    PROVE  /\ \A p \in Buckets : At(k, p) \in Buckets
           /\ \A p, q \in Buckets : At(k, p) = At(k, q) => p = q
           /\ \A i \in Buckets : \E p \in Buckets : At(k, p) = i
<1> DEFINE home == Hash[k] % size
<1>1. home \in Buckets
  BY ModRange, DenseMapAssumption DEF Buckets
<1>2. \A p \in Buckets :
        At(k, p) = IF home + p < size THEN home + p ELSE home + p - size
  <2> TAKE p \in Buckets
  <2>1. home + p \in Nat /\ home + p < 2 * size /\ size > 0
    BY <1>1 DEF Buckets
  <2>2. At(k, p) = (home + p) % size
    BY DEF At
  <2> DEFINE a == home + p
  <2> HIDE DEF home
  <2> SUFFICES a % size = IF a < size THEN a ELSE a - size
    BY <1>1, <2>1, <2>2 DEF Buckets
  <2> HIDE DEF a
  <2>3. a \in Nat /\ a < 2 * size /\ size > 0
    BY <2>1 DEF a
  <2>. QED BY <2>3, ModWrap
<1> HIDE DEF home
<1>3. \A i \in Buckets : \E p \in Buckets : At(k, p) = i
  <2> TAKE i \in Buckets
  <2>1. CASE home <= i
    <3>1. i - home \in Buckets /\ At(k, i - home) = i
      BY <1>1, <1>2, <2>1 DEF Buckets
    <3>. QED BY <3>1
  <2>2. CASE i < home
    <3>1. i + size - home \in Buckets /\ At(k, i + size - home) = i
      BY <1>1, <1>2, <2>2 DEF Buckets
    <3>. QED BY <3>1
  <2>. QED BY <1>1, <2>1, <2>2 DEF Buckets
<1>4. \A p \in Buckets : At(k, p) \in Buckets
  BY <1>1, <1>2 DEF Buckets
<1>5. \A p, q \in Buckets : At(k, p) = At(k, q) => p = q
  BY <1>1, <1>2 DEF Buckets
<1>. QED BY <1>3, <1>4, <1>5

-----------------------------------------------------------------------------
(* The inductive invariant.                                                *)

\* No empty bucket lies between the home of a key and its bucket.
Reachable ==
    \A k \in Keys, p \in Buckets :
        key[At(k, p)] = k => \A q \in Buckets : q < p => key[At(k, q)] # Empty

Tombed == {i \in Buckets : key[i] = Tombstone}

Counted == EntriesCounted /\ Cardinality(Tombed) <= tombs

\* An insertion is made only in a table of which a quarter is left.
Room == Idle /\ size # 0 => entries + tombs < size

Sized == size = 0 \/ size >= 4

\* While grow() runs the new table has room for all that is left.
Growing ==
    ~Idle =>
        /\ \/ oldSize = 0 /\ size = FirstSize
           \/ oldSize >= 4 /\ size = oldSize * 2
        /\ entries <= moved /\ tombs = 0
        /\ \A e \in todo : e[1] \notin Stored

IInv ==
    /\ TypeOK /\ EachKeyOnce /\ Reachable
    /\ Counted /\ Sized /\ Room /\ Growing

-----------------------------------------------------------------------------
(* Searching.                                                              *)
LEMMA FiniteSubset ==
    ASSUME NEW n \in Nat, NEW S \in SUBSET (0 .. n - 1)
    PROVE  IsFiniteSet(S) /\ Cardinality(S) \in Nat
<1>1. IsFiniteSet(0 .. n - 1)
  BY FS_Interval
<1>2. IsFiniteSet(S)
  BY <1>1, FS_Subset
<1>. QED BY <1>2, FS_CardinalityType

LEMMA FiniteParts ==
    ASSUME size \in Nat
    PROVE  /\ IsFiniteSet(Occupied) /\ Cardinality(Occupied) \in Nat
           /\ IsFiniteSet(Tombed) /\ Cardinality(Tombed) \in Nat
<1>1. Occupied \in SUBSET (0 .. size - 1) /\ Tombed \in SUBSET (0 .. size - 1)
  BY DEF Occupied, Tombed, Buckets
<1>. QED BY <1>1, FiniteSubset

\* The same after a step.
LEMMA FinitePartsNext ==
    ASSUME size' \in Nat
    PROVE  Cardinality(Occupied') \in Nat /\ Cardinality(Tombed') \in Nat
<1>1. Occupied' \in SUBSET (0 .. size' - 1) /\ Tombed' \in SUBSET (0 .. size' - 1)
  BY DEF Occupied, Tombed, Buckets
<1>. QED BY <1>1, FiniteSubset

LEMMA EmptyExists ==
    ASSUME TypeOK, Counted, entries + tombs < size
    PROVE  \E i \in Buckets : key[i] = Empty
<1>1. /\ IsFiniteSet(Buckets) /\ Cardinality(Buckets) = size
  BY FS_Interval DEF TypeOK, Buckets
<1>2. /\ IsFiniteSet(Occupied) /\ IsFiniteSet(Tombed)
      /\ Cardinality(Occupied) \in Nat /\ Cardinality(Tombed) \in Nat
  BY FiniteParts DEF TypeOK
<1>3. /\ IsFiniteSet(Occupied \cup Tombed)
      /\ Cardinality(Occupied \cup Tombed) <= Cardinality(Occupied) + Cardinality(Tombed)
  <2>1. IsFiniteSet(Occupied \cap Tombed) /\ Cardinality(Occupied \cap Tombed) \in Nat
    BY <1>2, FS_Intersection, FS_CardinalityType
  <2>2. /\ IsFiniteSet(Occupied \cup Tombed)
        /\ Cardinality(Occupied \cup Tombed) =
             Cardinality(Occupied) + Cardinality(Tombed) - Cardinality(Occupied \cap Tombed)
    BY <1>2, FS_Union
  <2>. QED BY <1>2, <2>1, <2>2
<1>4. SUFFICES ASSUME \A i \in Buckets : key[i] # Empty PROVE FALSE
  OBVIOUS
<1>5. Buckets = Occupied \cup Tombed
  BY <1>4 DEF TypeOK, States, Occupied, Tombed
<1>6. size <= entries + tombs
  BY <1>1, <1>2, <1>3, <1>5 DEF TypeOK, Counted, EntriesCounted
<1>. QED BY <1>6 DEF TypeOK

\* A search ends at the bucket of the key, or at a free bucket that can be
\* reached from the home of the key.
LEMMA Search ==
    ASSUME TypeOK, EachKeyOnce, Reachable, size # 0, NEW k \in Keys,
           \E i \in Buckets : key[i] = Empty
    PROVE  /\ LookupBucketFor(k) \in Buckets
           /\ \A i \in Buckets : key[i] = k => LookupBucketFor(k) = i
           /\ (\A i \in Buckets : key[i] # k) =>
                 \E r \in Buckets :
                    /\ LookupBucketFor(k) = At(k, r) /\ key[At(k, r)] \notin Keys
                    /\ \A q \in Buckets : q < r => key[At(k, q)] # Empty
<1> DEFINE end == Least(Stops(k))
           tombsBefore == Tombstones(k, end)
<1>1. size \in Nat /\ Buckets \subseteq Nat
  BY DEF TypeOK, Buckets
<1>2. Stops(k) # {} /\ Stops(k) \subseteq Nat
  <2>1. PICK i \in Buckets : key[i] = Empty
    OBVIOUS
  <2>2. \E p \in Buckets : At(k, p) = i
    BY <1>1, AtProperties
  <2>. QED BY <1>1, <2>1, <2>2 DEF Stops
<1>3. end \in Stops(k) /\ \A q \in Stops(k) : end <= q
  BY <1>2, LeastOf
<1>4. end \in Buckets /\ end # size /\ key[At(k, end)] \in {Empty, k}
  BY <1>1, <1>3 DEF Stops, Buckets
<1>5. LookupBucketFor(k) =
        IF key[At(k, end)] = k THEN At(k, end)
        ELSE IF tombsBefore # {} THEN At(k, Least(tombsBefore))
        ELSE At(k, end)
  BY <1>2, <1>4 DEF LookupBucketFor
<1>6. tombsBefore # {} =>
        /\ Least(tombsBefore) \in Buckets /\ Least(tombsBefore) < end
        /\ key[At(k, Least(tombsBefore))] = Tombstone
  BY <1>1, LeastOf DEF Tombstones
<1> HIDE DEF end, tombsBefore
<1>7. \A q \in Buckets : q < end => key[At(k, q)] # Empty
  <2>1. \A q \in Buckets : q < end => q \notin Stops(k)
    BY <1>1, <1>3, <1>4
  <2>. QED BY <2>1 DEF Stops
<1>8. LookupBucketFor(k) \in Buckets
  <2>1. \A p \in Buckets : At(k, p) \in Buckets
    BY <1>1, AtProperties
  <2>. QED BY <1>4, <1>5, <1>6, <2>1
<1>9. ASSUME NEW i \in Buckets, key[i] = k PROVE LookupBucketFor(k) = i
  <2>1. PICK p \in Buckets : At(k, p) = i
    BY <1>1, AtProperties
  <2>2. end <= p
    BY <1>3, <1>9, <2>1 DEF Stops
  <2>3. key[At(k, end)] = k
    <3>1. CASE end = p
      BY <3>1, <2>1, <1>9
    <3>2. CASE end # p
      <4>1. end < p
        BY <1>1, <1>4, <2>2, <3>2
      <4>2. key[At(k, end)] # Empty
        BY <4>1, <1>4, <1>9, <2>1 DEF Reachable
      <4>. QED BY <4>2, <1>4
    <3>. QED BY <3>1, <3>2
  <2>4. At(k, end) \in Occupied /\ i \in Occupied
    BY <1>1, <1>4, <1>9, <2>3, AtProperties DEF Occupied
  <2>5. At(k, end) = i
    BY <1>9, <2>3, <2>4 DEF EachKeyOnce
  <2>. QED BY <1>5, <2>3, <2>5
<1>10. ASSUME \A i \in Buckets : key[i] # k
       PROVE  \E r \in Buckets :
                 /\ LookupBucketFor(k) = At(k, r) /\ key[At(k, r)] \notin Keys
                 /\ \A q \in Buckets : q < r => key[At(k, q)] # Empty
  <2>1. key[At(k, end)] = Empty
    BY <1>1, <1>4, <1>10, AtProperties
  <2>2. Empty \notin Keys /\ Tombstone \notin Keys /\ Empty # k
    BY DenseMapAssumption
  <2>3. CASE tombsBefore = {}
    BY <1>4, <1>5, <1>7, <2>1, <2>2, <2>3
  <2>4. CASE tombsBefore # {}
    <3> DEFINE r == Least(tombsBefore)
    <3>1. r \in Buckets /\ r < end /\ key[At(k, r)] = Tombstone
      BY <1>6, <2>4
    <3>2. LookupBucketFor(k) = At(k, r)
      BY <1>5, <2>1, <2>2, <2>4
    <3> HIDE DEF r
    <3>3. \A q \in Buckets : q < r => key[At(k, q)] # Empty
      BY <1>1, <1>4, <1>7, <3>1
    <3>. QED BY <2>2, <3>1, <3>2, <3>3
  <2>. QED BY <2>3, <2>4
<1>. QED BY <1>8, <1>9, <1>10

\* While the map is idle, find answers whether the key has a bucket.
LEMMA ContainsIff ==
    ASSUME IInv, Idle, NEW k \in Keys
    PROVE  Contains(k) <=> \E i \in Buckets : key[i] = k
<1>1. CASE size = 0
  BY <1>1 DEF Contains, Buckets
<1>2. CASE size # 0
  <2>1. \E i \in Buckets : key[i] = Empty
    BY <1>2, EmptyExists DEF IInv, Room
  <2>2. /\ LookupBucketFor(k) \in Buckets
        /\ \A i \in Buckets : key[i] = k => LookupBucketFor(k) = i
    BY <1>2, <2>1, Search DEF IInv
  <2>3. LookupBucketFor(k) # size
    BY <2>2 DEF IInv, TypeOK, Buckets
  <2>. QED BY <1>2, <2>2, <2>3 DEF Contains
<1>. QED BY <1>1, <1>2

-----------------------------------------------------------------------------
(* What writing a bucket does to the invariant.                            *)

\* A new key in a free bucket that can be reached from its home.
LEMMA PutFresh ==
    ASSUME TypeOK, Reachable, \A i, j \in Occupied : key[i] = key[j] => i = j,
           size # 0, size' = size, NEW k \in Keys, NEW v \in Values,
           NEW r \in Buckets, key[At(k, r)] \notin Keys,
           \A q \in Buckets : q < r => key[At(k, q)] # Empty,
           \A i \in Buckets : key[i] # k,
           Put(At(k, r), k, v)
    PROVE  /\ key' \in [Buckets' -> States] /\ val' \in [Buckets' -> Values]
           /\ Reachable'
           /\ \A i, j \in Occupied' : key'[i] = key'[j] => i = j
           /\ Occupied' = Occupied \cup {At(k, r)}
           /\ Cardinality(Occupied') = Cardinality(Occupied) + 1
           /\ Cardinality(Tombed') <= Cardinality(Tombed)
<1> DEFINE b == At(k, r)
<1>1. size \in Nat /\ Buckets' = Buckets /\ b \in Buckets
  BY AtProperties DEF TypeOK, Buckets
<1>2. \A x \in Keys, p \in Buckets : At(x, p)' = At(x, p) /\ At(x, p) \in Buckets
  BY <1>1, AtProperties DEF At
<1>3. /\ key \in [Buckets -> States] /\ val \in [Buckets -> Values]
      /\ key' = [key EXCEPT ![b] = k] /\ val' = [val EXCEPT ![b] = v]
  BY DEF TypeOK, Put
<1>4. Empty \notin Keys /\ Tombstone \notin Keys
  BY DenseMapAssumption
<1>5. \A p, q \in Buckets : At(k, p) = At(k, q) => p = q
  BY <1>1, AtProperties
<1>6. b \notin Occupied
  BY <1>1 DEF Occupied
<1> HIDE DEF b
<1>7. \A i \in Buckets : key'[i] = IF i = b THEN k ELSE key[i]
  BY <1>1, <1>3
<1>8. key' \in [Buckets' -> States] /\ val' \in [Buckets' -> Values]
  BY <1>1, <1>3 DEF States
<1>9. Reachable'
  <2>1. SUFFICES ASSUME NEW x \in Keys, NEW p \in Buckets, NEW q \in Buckets,
                        key'[At(x, p)] = x, q < p
                 PROVE  key'[At(x, q)] # Empty
    BY <1>1, <1>2 DEF Reachable
  <2>2. key[At(x, q)] # Empty
    <3>1. CASE At(x, p) = b
      <4>1. x = k /\ p = r
        BY <1>2, <1>5, <1>7, <2>1, <3>1 DEF b
      <4>. QED BY <2>1, <4>1
    <3>2. CASE At(x, p) # b
      <4>1. key[At(x, p)] = x
        BY <1>2, <1>7, <2>1, <3>2
      <4>. QED BY <2>1, <4>1 DEF Reachable
    <3>. QED BY <3>1, <3>2
  <2>. QED BY <1>2, <1>4, <1>7, <2>2
<1>10. Occupied' = Occupied \cup {b}
  BY <1>1, <1>7 DEF Occupied
<1>11. \A i, j \in Occupied' : key'[i] = key'[j] => i = j
  BY <1>1, <1>7, <1>10 DEF Occupied
<1>12. IsFiniteSet(Occupied) /\ IsFiniteSet(Tombed)
  BY <1>1, FiniteParts
<1>13. Cardinality(Occupied') = Cardinality(Occupied) + 1
  BY <1>6, <1>10, <1>12, FS_AddElement
<1>14. Cardinality(Tombed') <= Cardinality(Tombed)
  <2>1. Tombed' \subseteq Tombed
    BY <1>1, <1>4, <1>7 DEF Tombed
  <2>. QED BY <1>12, <2>1, FS_Subset
<1>. QED BY <1>8, <1>9, <1>10, <1>11, <1>13, <1>14 DEF b

\* An occupied bucket that becomes a tombstone.
LEMMA PutTombstone ==
    ASSUME TypeOK, Reachable, size' = size, NEW b \in Occupied,
           Put(b, Tombstone, Default)
    PROVE  /\ key' \in [Buckets' -> States] /\ val' \in [Buckets' -> Values]
           /\ Reachable'
           /\ Occupied' = Occupied \ {b}
           /\ Cardinality(Occupied') = Cardinality(Occupied) - 1
           /\ Cardinality(Tombed') = Cardinality(Tombed) + 1
<1>1. size \in Nat /\ size # 0 /\ Buckets' = Buckets /\ b \in Buckets
  BY DEF TypeOK, Buckets, Occupied
<1>2. \A x \in Keys, p \in Buckets : At(x, p)' = At(x, p) /\ At(x, p) \in Buckets
  BY <1>1, AtProperties DEF At
<1>3. /\ key \in [Buckets -> States] /\ val \in [Buckets -> Values]
      /\ key' = [key EXCEPT ![b] = Tombstone]
      /\ val' = [val EXCEPT ![b] = Default]
  BY DEF TypeOK, Put
<1>4. Tombstone \notin Keys /\ Tombstone # Empty /\ Default \in Values
  BY DenseMapAssumption
<1>5. \A i \in Buckets : key'[i] = IF i = b THEN Tombstone ELSE key[i]
  BY <1>1, <1>3
<1>6. key' \in [Buckets' -> States] /\ val' \in [Buckets' -> Values]
  BY <1>1, <1>3, <1>4 DEF States
<1>7. Reachable'
  BY <1>1, <1>2, <1>4, <1>5 DEF Reachable
<1>8. Occupied' = Occupied \ {b} /\ Tombed' = Tombed \cup {b} /\ b \notin Tombed
  BY <1>1, <1>4, <1>5 DEF Occupied, Tombed
<1>9. IsFiniteSet(Occupied) /\ IsFiniteSet(Tombed)
  BY <1>1, FiniteParts
<1>10. Cardinality(Occupied') = Cardinality(Occupied) - 1
  BY <1>8, <1>9, FS_RemoveElement
<1>11. Cardinality(Tombed') = Cardinality(Tombed) + 1
  BY <1>8, <1>9, FS_AddElement
<1>. QED BY <1>6, <1>7, <1>8, <1>10, <1>11

-----------------------------------------------------------------------------
(* The invariant holds at first and is kept by every action.               *)
LEMMA InitInv == Init => IInv
<1> SUFFICES ASSUME Init PROVE IInv
  OBVIOUS
<1>1. Buckets = {} /\ moved .. oldSize - 1 = {} /\ 0 .. oldSize - 1 = {}
  BY DEF Init, Buckets
<1>2. Occupied = {} /\ Tombed = {} /\ Left = {}
  BY <1>1 DEF Occupied, Tombed, Left
<1>3. TypeOK
  BY <1>1 DEF Init, TypeOK, Idle
<1>4. Counted
  BY <1>2, FS_EmptySet DEF Init, Counted, EntriesCounted
<1>5. EachKeyOnce /\ Reachable /\ Sized /\ Room /\ Growing
  BY <1>1, <1>2 DEF Init, EachKeyOnce, Reachable, Sized, Room, Growing, Idle
<1>. QED BY <1>3, <1>4, <1>5 DEF IInv

\* What is known while the map is idle.
LEMMA IdleFacts ==
    ASSUME IInv, Idle
    PROVE  Left = {} /\ oldSize = 0 /\ moved = 0
<1>1. oldSize = 0 /\ moved \in 0 .. oldSize
  BY DEF IInv, TypeOK, Idle
<1>2. moved = 0
  BY <1>1
<1>. QED BY <1>1, <1>2 DEF Left

LEMMA InsertInv ==
    ASSUME IInv, NEW k \in Keys, NEW v \in Values, Insert(k, v)
    PROVE  IInv'
<1>1. /\ Idle /\ ~Contains(k) /\ ~Crowded
      /\ Put(LookupBucketFor(k), k, v) /\ entries' = entries + 1
      /\ size' = size /\ tombs' = tombs /\ UNCHANGED growth
  BY DEF Insert
<1>2. /\ size \in Nat /\ entries \in Nat /\ tombs \in Nat
      /\ size >= 4 /\ size # 0 /\ entries + tombs + 1 < size
  BY <1>1 DEF IInv, TypeOK, Sized, Crowded
<1>3. \E i \in Buckets : key[i] = Empty
  BY <1>2, EmptyExists DEF IInv
<1>4. \A i \in Buckets : key[i] # k
  BY <1>1, ContainsIff
<1>5. PICK r \in Buckets :
        /\ LookupBucketFor(k) = At(k, r) /\ key[At(k, r)] \notin Keys
        /\ \A q \in Buckets : q < r => key[At(k, q)] # Empty
  BY <1>2, <1>3, <1>4, Search DEF IInv
<1>6. /\ key' \in [Buckets' -> States] /\ val' \in [Buckets' -> Values]
      /\ Reachable'
      /\ \A i, j \in Occupied' : key'[i] = key'[j] => i = j
      /\ Cardinality(Occupied') = Cardinality(Occupied) + 1
      /\ Cardinality(Tombed') <= Cardinality(Tombed)
  <2>1. Put(At(k, r), k, v)
    BY <1>1, <1>5
  <2>2. \A i, j \in Occupied : key[i] = key[j] => i = j
    BY DEF IInv, EachKeyOnce
  <2>. QED BY <1>1, <1>2, <1>4, <1>5, <2>1, <2>2, PutFresh DEF IInv
<1>7. Left = {} /\ oldSize = 0 /\ moved = 0 /\ Left' = {} /\ Idle'
  BY <1>1, IdleFacts DEF growth, Idle, Left
<1>8. TypeOK'
  BY <1>1, <1>2, <1>6, <1>7 DEF IInv, TypeOK, growth, Idle
<1>9. EachKeyOnce'
  BY <1>6, <1>7 DEF EachKeyOnce
<1>10. Counted'
  <2>1. Cardinality(Tombed) \in Nat /\ Cardinality(Tombed') \in Nat
    BY <1>1, <1>2, FiniteParts, FinitePartsNext
  <2>. QED BY <1>1, <1>2, <1>6, <2>1 DEF IInv, Counted, EntriesCounted
<1>11. Sized' /\ Room' /\ Growing'
  BY <1>1, <1>2, <1>7 DEF Sized, Room, Growing
<1>. QED BY <1>6, <1>8, <1>9, <1>10, <1>11 DEF IInv

LEMMA EraseInv ==
    ASSUME IInv, NEW k \in Keys, Erase(k)
    PROVE  IInv'
<1> DEFINE b == LookupBucketFor(k)
<1>1. /\ Idle /\ Contains(k) /\ Put(b, Tombstone, Default)
      /\ entries' = entries - 1 /\ tombs' = tombs + 1
      /\ size' = size /\ UNCHANGED growth
  BY DEF Erase
<1>2. size \in Nat /\ size # 0 /\ size >= 4 /\ entries + tombs < size
      /\ entries \in Nat /\ tombs \in Nat
  BY <1>1 DEF Contains, IInv, TypeOK, Sized, Room
<1>3. b \in Occupied
  <2>1. PICK i \in Buckets : key[i] = k
    BY <1>1, ContainsIff
  <2>2. \E j \in Buckets : key[j] = Empty
    BY <1>2, EmptyExists DEF IInv
  <2>3. b = i
    BY <1>2, <2>1, <2>2, Search DEF IInv
  <2>. QED BY <2>1, <2>3 DEF Occupied
<1> HIDE DEF b
<1>4. /\ key' \in [Buckets' -> States] /\ val' \in [Buckets' -> Values]
      /\ Reachable'
      /\ Occupied' = Occupied \ {b}
      /\ Cardinality(Occupied') = Cardinality(Occupied) - 1
      /\ Cardinality(Tombed') = Cardinality(Tombed) + 1
  BY <1>1, <1>3, PutTombstone DEF IInv
<1>5. Left = {} /\ oldSize = 0 /\ moved = 0 /\ Left' = {} /\ Idle'
  BY <1>1, IdleFacts DEF growth, Idle, Left
<1>6. /\ Cardinality(Occupied) \in Nat /\ Cardinality(Tombed) \in Nat
      /\ Cardinality(Occupied') \in Nat
  BY <1>1, <1>2, FiniteParts, FinitePartsNext
<1>7. entries > 0 /\ Counted'
  BY <1>1, <1>2, <1>4, <1>6 DEF IInv, Counted, EntriesCounted
<1>8. TypeOK'
  BY <1>1, <1>2, <1>4, <1>5, <1>7 DEF IInv, TypeOK, growth, Idle
<1>9. EachKeyOnce'
  <2>1. \A i \in Occupied' : key'[i] = key[i] /\ i \in Occupied
    BY <1>1, <1>3, <1>4 DEF IInv, TypeOK, Put, Occupied
  <2>. QED BY <1>5, <2>1 DEF IInv, EachKeyOnce
<1>10. Sized' /\ Room' /\ Growing'
  BY <1>1, <1>2, <1>5 DEF Sized, Room, Growing
<1>. QED BY <1>4, <1>7, <1>8, <1>9, <1>10 DEF IInv

LEMMA WriteInv ==
    ASSUME IInv, NEW k \in Keys, NEW v \in Values, Write(k, v)
    PROVE  IInv'
<1>1. val' \in [Buckets -> Values] /\ UNCHANGED <<size, key, entries, tombs, growth>>
  BY DEF Write, IInv, TypeOK
<1>2. /\ Buckets' = Buckets /\ Occupied' = Occupied /\ Tombed' = Tombed
      /\ Left' = Left /\ Stored' = Stored /\ Idle' = Idle
  BY <1>1 DEF Buckets, Occupied, Tombed, Left, Stored, Idle, growth
<1>3. TypeOK'
  BY <1>1, <1>2 DEF IInv, TypeOK, growth
<1>4. EachKeyOnce'
  BY <1>1, <1>2 DEF IInv, EachKeyOnce, growth
<1>5. Reachable'
  BY <1>1, <1>2 DEF IInv, Reachable, At
<1>6. Counted'
  BY <1>1, <1>2 DEF IInv, Counted, EntriesCounted
<1>7. Sized' /\ Room' /\ Growing'
  BY <1>1, <1>2 DEF IInv, Sized, Room, Growing, growth
<1>. QED BY <1>3, <1>4, <1>5, <1>6, <1>7 DEF IInv

\* An empty table satisfies what the invariant says of a table.
LEMMA EmptyTable ==
    ASSUME size' \in Nat, key' = [i \in Buckets' |-> Empty],
           val' = [i \in Buckets' |-> Default], entries' = 0, tombs' = 0
    PROVE  /\ key' \in [Buckets' -> States] /\ val' \in [Buckets' -> Values]
           /\ Reachable' /\ Counted' /\ Occupied' = {}
<1>1. Empty \notin Keys /\ Empty # Tombstone /\ Default \in Values
  BY DenseMapAssumption
<1>2. Occupied' = {} /\ Tombed' = {}
  BY <1>1 DEF Occupied, Tombed
<1>3. Counted'
  BY <1>2, FS_EmptySet DEF Counted, EntriesCounted
<1>4. Reachable'
  <2>1. SUFFICES ASSUME NEW k \in Keys, NEW p \in Buckets', key'[At(k, p)'] = k
                 PROVE  FALSE
    BY DEF Reachable
  <2>2. At(k, p)' \in Buckets'
    <3>1. p \in 0 .. size' - 1 /\ Hash[k] \in Nat
      BY DenseMapAssumption DEF Buckets
    <3>2. ((Hash[k] % size') + p) % size' \in 0 .. size' - 1
      BY <3>1, ProbeRange
    <3>. QED BY <3>2 DEF At, Buckets
  <2>. QED BY <1>1, <2>1, <2>2
<1>. QED BY <1>1, <1>2, <1>3, <1>4 DEF States

LEMMA ClearInv ==
    ASSUME IInv, Clear
    PROVE  IInv'
<1>1. /\ Idle /\ size' = size /\ Buckets' = Buckets /\ size \in Nat
      /\ entries' = 0 /\ tombs' = 0 /\ UNCHANGED growth
  BY DEF Clear, Buckets, IInv, TypeOK
<1>2. /\ key' \in [Buckets' -> States] /\ val' \in [Buckets' -> Values]
      /\ Reachable' /\ Counted' /\ Occupied' = {}
  BY <1>1, EmptyTable DEF Clear
<1>3. Left = {} /\ oldSize = 0 /\ moved = 0 /\ Left' = {} /\ Idle'
  BY <1>1, IdleFacts DEF growth, Idle, Left
<1>4. TypeOK'
  BY <1>1, <1>2, <1>3 DEF IInv, TypeOK, growth, Idle
<1>5. EachKeyOnce'
  BY <1>2, <1>3 DEF EachKeyOnce
<1>6. Sized' /\ Room' /\ Growing'
  BY <1>1, <1>3 DEF IInv, Sized, Room, Growing
<1>. QED BY <1>2, <1>4, <1>5, <1>6 DEF IInv

LEMMA MoveOutInv ==
    ASSUME IInv, MoveOut
    PROVE  IInv'
<1>1. /\ Idle /\ Idle' /\ size' = 0 /\ key' = <<>> /\ val' = <<>>
      /\ entries' = 0 /\ tombs' = 0 /\ UNCHANGED growth
  BY DEF MoveOut, growth, Idle
<1>2. Buckets' = {} /\ Occupied' = {} /\ Tombed' = {}
  BY <1>1 DEF Buckets, Occupied, Tombed
<1>3. key' \in [Buckets' -> States] /\ val' \in [Buckets' -> Values]
  BY <1>1, <1>2
<1>4. Left = {} /\ oldSize = 0 /\ moved = 0 /\ Left' = {}
  BY <1>1, IdleFacts DEF growth, Left
<1>5. TypeOK'
  BY <1>1, <1>3, <1>4 DEF IInv, TypeOK, growth
<1>6. EachKeyOnce' /\ Reachable'
  BY <1>2, <1>4 DEF EachKeyOnce, Reachable
<1>7. Counted'
  BY <1>1, <1>2, FS_EmptySet DEF Counted, EntriesCounted
<1>8. Sized' /\ Room' /\ Growing'
  BY <1>1, <1>4 DEF IInv, Sized, Room, Growing
<1>. QED BY <1>5, <1>6, <1>7, <1>8 DEF IInv

LEMMA GrowInv ==
    ASSUME IInv, NEW k \in Keys, NEW v \in Values, Grow(k, v)
    PROVE  IInv'
<1>1. /\ Idle /\ ~Contains(k) /\ size' = NewSize
      /\ oldKey' = key /\ oldVal' = val /\ oldSize' = size /\ moved' = 0
      /\ key' = [i \in Buckets' |-> Empty] /\ val' = [i \in Buckets' |-> Default]
      /\ entries' = 0 /\ tombs' = 0 /\ todo' = {<<k, v>>}
  BY DEF Grow, Buckets
<1>2. /\ size \in Nat /\ size' \in Nat /\ size' >= 4
      /\ \/ size = 0 /\ size' = FirstSize
         \/ size >= 4 /\ size' = size * 2
  BY <1>1, DenseMapAssumption DEF IInv, TypeOK, Sized, NewSize
<1>3. /\ key' \in [Buckets' -> States] /\ val' \in [Buckets' -> Values]
      /\ Reachable' /\ Counted' /\ Occupied' = {}
  BY <1>1, <1>2, EmptyTable
<1>4. Left' = Occupied
  BY <1>1, <1>2 DEF Left, Occupied, Buckets
<1>5. TypeOK'
  <2>1. /\ oldKey' \in [0 .. oldSize' - 1 -> States]
        /\ oldVal' \in [0 .. oldSize' - 1 -> Values]
    BY <1>1 DEF IInv, TypeOK, Buckets
  <2>. QED BY <1>1, <1>2, <1>3, <2>1 DEF TypeOK
<1>6. EachKeyOnce'
  BY <1>1, <1>3, <1>4 DEF IInv, EachKeyOnce
<1>7. \A i \in Buckets : key[i] # k
  BY <1>1, ContainsIff
<1>8. Growing'
  <2>1. k \notin Stored'
    BY <1>1, <1>3, <1>4, <1>7 DEF Stored, Occupied
  <2>. QED BY <1>1, <1>2, <2>1 DEF Growing
<1>9. Sized' /\ Room'
  BY <1>1, <1>2 DEF Sized, Room, Idle
<1>. QED BY <1>3, <1>5, <1>6, <1>8, <1>9 DEF IInv

\* While grow() runs insertInto finds a free bucket, as insert does.
LEMMA FreeProbeFound ==
    ASSUME TypeOK, size # 0, NEW k \in Keys, \E i \in Buckets : key[i] = Empty
    PROVE  /\ FreeProbe(k) \in Buckets /\ key[At(k, FreeProbe(k))] \notin Keys
           /\ \A q \in Buckets : q < FreeProbe(k) => key[At(k, q)] # Empty
<1> DEFINE free == {p \in Buckets : key[At(k, p)] \notin Keys}
           r == Least(free)
<1>1. size \in Nat /\ Buckets \subseteq Nat /\ Empty \notin Keys
  BY DenseMapAssumption DEF TypeOK, Buckets
<1>2. free # {}
  BY <1>1, AtProperties
<1>3. r \in free /\ \A q \in free : r <= q
  BY <1>1, <1>2, LeastOf
<1>4. r = FreeProbe(k)
  BY DEF FreeProbe
<1>5. r \in Buckets /\ key[At(k, r)] \notin Keys
  BY <1>3
<1> HIDE DEF r
<1>6. ASSUME NEW q \in Buckets, q < r PROVE key[At(k, q)] # Empty
  <2>1. q \notin free
    BY <1>1, <1>3, <1>5, <1>6
  <2>. QED BY <1>1, <2>1
<1>. QED BY <1>4, <1>5, <1>6

LEMMA MoveInv ==
    ASSUME IInv, Move
    PROVE  IInv'
<1> DEFINE k == oldKey[moved]
           v == oldVal[moved]
<1>1. /\ ~Idle /\ ~Idle' /\ moved < oldSize /\ moved' = moved + 1
      /\ UNCHANGED <<size, tombs, oldKey, oldVal, oldSize, todo>>
      /\ Buckets' = Buckets
  BY DEF Move, Idle, Buckets
<1>2. /\ oldSize \in Nat /\ moved \in 0 .. oldSize - 1
      /\ size \in Nat /\ size # 0 /\ size > oldSize
      /\ entries \in Nat /\ tombs = 0 /\ entries <= moved
  BY <1>1, DenseMapAssumption DEF IInv, TypeOK, Growing
<1>3. \E i \in Buckets : key[i] = Empty
  BY <1>2, EmptyExists DEF IInv
<1>4. k \in States /\ v \in Values
  BY <1>2 DEF IInv, TypeOK
<1>5. Sized' /\ Room'
  BY <1>1 DEF IInv, Sized, Room
<1>6. CASE k \notin Keys
  <2>1. UNCHANGED <<key, val, entries>>
    BY <1>6 DEF Move
  <2>2. Left' = Left
    BY <1>1, <1>2, <1>6 DEF Left
  <2>3. Occupied' = Occupied /\ Tombed' = Tombed /\ Stored' = Stored
    BY <1>1, <2>1, <2>2 DEF Occupied, Tombed, Stored
  <2>4. TypeOK'
    BY <1>1, <1>2, <2>1 DEF IInv, TypeOK, Idle
  <2>5. EachKeyOnce'
    BY <1>1, <2>1, <2>2, <2>3 DEF IInv, EachKeyOnce
  <2>6. Reachable'
    BY <1>1, <2>1 DEF IInv, Reachable, At
  <2>7. Counted'
    BY <1>1, <2>1, <2>3 DEF IInv, Counted, EntriesCounted
  <2>8. Growing'
    BY <1>1, <1>2, <2>1, <2>3 DEF IInv, Growing
  <2>. QED BY <1>5, <2>4, <2>5, <2>6, <2>7, <2>8 DEF IInv
<1>7. CASE k \in Keys
  <2> DEFINE r == FreeProbe(k)
  <2>1. Put(At(k, r), k, v) /\ entries' = entries + 1
    BY <1>7 DEF Move
  <2>2. /\ r \in Buckets /\ key[At(k, r)] \notin Keys
        /\ \A q \in Buckets : q < r => key[At(k, q)] # Empty
    BY <1>2, <1>3, <1>7, FreeProbeFound DEF IInv
  <2> HIDE DEF r
  <2>3. moved \in Left
    BY <1>2, <1>7 DEF Left
  <2>4. \A i \in Buckets : key[i] # k
    BY <1>7, <2>3 DEF IInv, EachKeyOnce, Occupied
  <2>5. /\ key' \in [Buckets' -> States] /\ val' \in [Buckets' -> Values]
        /\ Reachable'
        /\ \A i, j \in Occupied' : key'[i] = key'[j] => i = j
        /\ Occupied' = Occupied \cup {At(k, r)}
        /\ Cardinality(Occupied') = Cardinality(Occupied) + 1
        /\ Cardinality(Tombed') <= Cardinality(Tombed)
    <3>1. \A i, j \in Occupied : key[i] = key[j] => i = j
      BY DEF IInv, EachKeyOnce
    <3> HIDE DEF k, v
    <3>. QED BY <1>1, <1>2, <1>4, <1>7, <2>1, <2>2, <2>4, <3>1, PutFresh DEF IInv
  <2>6. At(k, r) \in Buckets
    BY <1>2, <1>7, <2>2, AtProperties
  <2>7. \A i \in Buckets : key'[i] = IF i = At(k, r) THEN k ELSE key[i]
    BY <2>1, <2>6 DEF Put, IInv, TypeOK
  <2>8. Left' = Left \ {moved}
    BY <1>1, <1>2 DEF Left
  <2>9. EachKeyOnce'
    <3>1. \A i \in Occupied', j \in Left' : key'[i] # oldKey'[j]
      BY <1>1, <2>3, <2>5, <2>6, <2>7, <2>8 DEF IInv, EachKeyOnce, Occupied
    <3>. QED BY <1>1, <2>5, <2>8, <3>1 DEF IInv, EachKeyOnce
  <2>10. Stored' = Stored
    BY <1>1, <2>2, <2>3, <2>5, <2>6, <2>7, <2>8 DEF Stored, Occupied
  <2>11. TypeOK'
    BY <1>1, <1>2, <2>1, <2>5 DEF IInv, TypeOK, Idle
  <2>12. Counted'
    <3>1. Cardinality(Tombed) \in Nat /\ Cardinality(Tombed') \in Nat
      BY <1>1, <1>2, FiniteParts, FinitePartsNext
    <3>. QED BY <1>1, <1>2, <2>1, <2>5, <3>1 DEF IInv, Counted, EntriesCounted
  <2>13. Growing'
    BY <1>1, <1>2, <2>1, <2>10 DEF IInv, Growing
  <2>. QED BY <1>5, <2>5, <2>9, <2>11, <2>12, <2>13 DEF IInv
<1>. QED BY <1>6, <1>7

LEMMA FinishInsertInv ==
    ASSUME IInv, FinishInsert
    PROVE  IInv'
<1>1. PICK k \in Keys, v \in Values : todo = {<<k, v>>}
  BY DEF FinishInsert, IInv, TypeOK
<1>2. /\ ~Idle /\ moved = oldSize /\ Put(LookupBucketFor(k), k, v)
      /\ entries' = entries + 1 /\ size' = size /\ tombs' = tombs
      /\ oldKey' = <<>> /\ oldVal' = <<>> /\ oldSize' = 0 /\ moved' = 0
      /\ todo' = {}
  BY <1>1 DEF FinishInsert
<1>3. /\ oldSize \in Nat /\ size \in Nat /\ size # 0 /\ size > oldSize + 1
      /\ entries \in Nat /\ tombs = 0 /\ entries <= oldSize /\ k \notin Stored
  BY <1>1, <1>2, DenseMapAssumption DEF IInv, TypeOK, Growing
<1>4. \E i \in Buckets : key[i] = Empty
  BY <1>3, EmptyExists DEF IInv
<1>5. \A i \in Buckets : key[i] # k
  BY <1>3 DEF Stored, Occupied
<1>6. PICK r \in Buckets :
        /\ LookupBucketFor(k) = At(k, r) /\ key[At(k, r)] \notin Keys
        /\ \A q \in Buckets : q < r => key[At(k, q)] # Empty
  BY <1>3, <1>4, <1>5, Search DEF IInv
<1>7. /\ key' \in [Buckets' -> States] /\ val' \in [Buckets' -> Values]
      /\ Reachable'
      /\ \A i, j \in Occupied' : key'[i] = key'[j] => i = j
      /\ Cardinality(Occupied') = Cardinality(Occupied) + 1
      /\ Cardinality(Tombed') <= Cardinality(Tombed)
  <2>1. Put(At(k, r), k, v)
    BY <1>2, <1>6
  <2>2. \A i, j \in Occupied : key[i] = key[j] => i = j
    BY DEF IInv, EachKeyOnce
  <2>. QED BY <1>2, <1>3, <1>5, <1>6, <2>1, <2>2, PutFresh DEF IInv
<1>8. Idle' /\ Left' = {}
  BY <1>2 DEF Idle, Left
<1>9. TypeOK'
  <2>1. oldKey' \in [0 .. oldSize' - 1 -> States] /\ oldVal' \in [0 .. oldSize' - 1 -> Values]
    BY <1>2
  <2>. QED BY <1>2, <1>3, <1>7, <1>8, <2>1 DEF TypeOK
<1>10. EachKeyOnce'
  BY <1>7, <1>8 DEF EachKeyOnce
<1>11. Counted'
  <2>1. Cardinality(Tombed) \in Nat /\ Cardinality(Tombed') \in Nat
    BY <1>2, <1>3, FiniteParts, FinitePartsNext
  <2>. QED BY <1>2, <1>3, <1>7, <2>1 DEF IInv, Counted, EntriesCounted
<1>12. Sized' /\ Room' /\ Growing'
  BY <1>2, <1>3, <1>8 DEF IInv, Sized, Room, Growing
<1>. QED BY <1>7, <1>9, <1>10, <1>11, <1>12 DEF IInv

LEMMA StepInv == IInv /\ [Next]_vars => IInv'
<1> SUFFICES ASSUME IInv, [Next]_vars PROVE IInv'
  OBVIOUS
<1>1. CASE UNCHANGED vars
  <2>1. /\ Buckets' = Buckets /\ Occupied' = Occupied /\ Tombed' = Tombed
        /\ Left' = Left /\ Stored' = Stored /\ Idle' = Idle
    BY <1>1 DEF vars, table, growth, Buckets, Occupied, Tombed, Left, Stored, Idle
  <2>2. TypeOK' /\ EachKeyOnce'
    BY <1>1, <2>1 DEF vars, table, growth, IInv, TypeOK, EachKeyOnce
  <2>3. Reachable'
    BY <1>1, <2>1 DEF vars, table, IInv, Reachable, At
  <2>4. Counted' /\ Sized' /\ Room' /\ Growing'
    BY <1>1, <2>1 DEF vars, table, growth, IInv, Counted, EntriesCounted, Sized,
                      Room, Growing
  <2>. QED BY <2>2, <2>3, <2>4 DEF IInv
<1>2. CASE Next
  BY <1>2, InsertInv, GrowInv, WriteInv, MoveInv, FinishInsertInv, EraseInv,
     ClearInv, MoveOutInv DEF Next
<1>. QED BY <1>1, <1>2

(* The invariant of the table, for every set of keys, every hash function, *)
(* every size of the first table from 4 on and every bound.                *)
THEOREM TableCorrect == Spec => []IInv
<1>. QED BY InitInv, StepInv, PTL DEF Spec

(* Every variable of the map keeps its type.                               *)
THEOREM TypeCorrect == Spec => []TypeOK
<1>1. IInv => TypeOK
  BY DEF IInv
<1>. QED BY TableCorrect, <1>1, PTL

(* NumEntries is the number of entries.                                    *)
THEOREM CountCorrect == Spec => []EntriesCounted
<1>1. IInv => EntriesCounted
  BY DEF IInv, Counted
<1>. QED BY TableCorrect, <1>1, PTL

(* No key ever has two buckets.                                            *)
THEOREM KeysUnique == Spec => []EachKeyOnce
<1>1. IInv => EachKeyOnce
  BY DEF IInv
<1>. QED BY TableCorrect, <1>1, PTL

(* A search never runs through the whole table.                            *)
THEOREM EverySearchEnds == Spec => []SearchEnds
<1>1. IInv => SearchEnds
  <2> SUFFICES ASSUME IInv, size # 0, NEW k \in Keys
               PROVE  Stops(k) # {} /\ LookupBucketFor(k) \in Buckets
    BY DEF SearchEnds
  <2>1. size \in Nat /\ entries + tombs < size
    BY DenseMapAssumption DEF IInv, TypeOK, Room, Growing
  <2>2. PICK i \in Buckets : key[i] = Empty
    BY <2>1, EmptyExists DEF IInv
  <2>3. PICK p \in Buckets : At(k, p) = i
    BY <2>1, AtProperties
  <2>4. p \in Stops(k)
    BY <2>2, <2>3 DEF Stops
  <2>. QED BY <2>2, <2>4, Search DEF IInv
<1>. QED BY TableCorrect, <1>1, PTL

-----------------------------------------------------------------------------
(* Refinement of Dictionary.                                               *)

\* The value of a key is the one next to it in either table.
ValuesFound ==
    /\ \A i \in Occupied : Value(key[i]) = val[i]
    /\ \A i \in Left : Value(oldKey[i]) = oldVal[i]

LEMMA ValueOf == IInv => ValuesFound
<1> SUFFICES ASSUME IInv PROVE ValuesFound
  OBVIOUS
<1>1. ASSUME NEW i \in Occupied PROVE Value(key[i]) = val[i]
  <2>1. (CHOOSE j \in Occupied : key[j] = key[i]) = i
    BY DEF IInv, EachKeyOnce
  <2>. QED BY <2>1 DEF Value
<1>2. ASSUME NEW i \in Left PROVE Value(oldKey[i]) = oldVal[i]
  <2>1. (CHOOSE j \in Left : oldKey[j] = oldKey[i]) = i
    BY DEF IInv, EachKeyOnce
  <2>2. ~ \E j \in Occupied : key[j] = oldKey[i]
    BY DEF IInv, EachKeyOnce
  <2>. QED BY <2>1, <2>2 DEF Value
<1>. QED BY <1>1, <1>2 DEF ValuesFound

LEMMA ValueOfNext == IInv' => ValuesFound'
BY ValueOf, PTL

\* A step that keeps every entry is a stutter.
LEMMA SameContents ==
    ASSUME Stored' = Stored, \A x \in Stored : Value(x)' = Value(x)
    PROVE  Contents' = Contents
BY DEF Contents

\* A new entry in a free bucket, with no growth under way afterwards.
LEMMA FreshRefines ==
    ASSUME IInv, IInv', NEW k \in Keys, NEW v \in Values, k \notin Stored,
           Left = {}, Left' = {}, size' = size,
           NEW b \in Buckets, key[b] \notin Keys, Put(b, k, v)
    PROVE  Dict!Insert(k, v)
<1>1. /\ \A i \in Buckets : key'[i] = IF i = b THEN k ELSE key[i]
      /\ \A i \in Buckets : val'[i] = IF i = b THEN v ELSE val[i]
      /\ Buckets' = Buckets
  BY DEF Put, IInv, TypeOK, Buckets
<1>2. Occupied' = Occupied \cup {b} /\ b \notin Occupied
  BY <1>1 DEF Occupied
<1>3. Stored' = Stored \cup {k}
  BY <1>1, <1>2 DEF Stored, Occupied
<1>4. Value(k)' = v
  BY <1>1, <1>2, ValueOfNext DEF ValuesFound
<1>5. ASSUME NEW x \in Stored PROVE Value(x)' = Value(x)
  <2>1. PICK i \in Occupied : key[i] = x
    BY DEF Stored
  <2>2. Value(x) = val[i]
    BY <2>1, ValueOf DEF ValuesFound
  <2>3. i \in Occupied' /\ key'[i] = x /\ val'[i] = val[i]
    BY <1>1, <1>2, <2>1 DEF Occupied
  <2>4. Value(x)' = val'[i]
    BY <2>3, ValueOfNext DEF ValuesFound
  <2>. QED BY <2>2, <2>3, <2>4
<1>6. k \notin DOMAIN Contents /\ DOMAIN Contents = Stored
  BY DEF Contents
<1>7. Contents' = [x \in Stored \cup {k} |-> IF x = k THEN v ELSE Contents[x]]
  BY <1>3, <1>4, <1>5 DEF Contents
<1>. QED BY <1>6, <1>7 DEF Dict!Insert

\* Outside grow() what is stored is what the table holds.
LEMMA StoredIdle ==
    ASSUME IInv, Idle, NEW k \in Keys
    PROVE  Contains(k) <=> k \in Stored
BY ContainsIff, IdleFacts DEF Stored, Occupied

LEMMA InsertRefines ==
    ASSUME IInv, IInv', NEW k \in Keys, NEW v \in Values, Insert(k, v)
    PROVE  Dict!Insert(k, v)
<1>1. /\ Idle /\ Idle' /\ ~Contains(k) /\ ~Crowded /\ size' = size
      /\ Put(LookupBucketFor(k), k, v)
  BY DEF Insert, growth, Idle
<1>2. Left = {} /\ Left' = {}
  BY <1>1, IdleFacts DEF Insert, growth, Left
<1>3. size # 0 /\ entries + tombs < size
  BY <1>1 DEF IInv, TypeOK, Crowded, Room
<1>4. \A i \in Buckets : key[i] # k
  BY <1>1, ContainsIff
<1>5. LookupBucketFor(k) \in Buckets /\ key[LookupBucketFor(k)] \notin Keys
  BY <1>3, <1>4, EmptyExists, Search DEF IInv
<1>6. k \notin Stored
  BY <1>1, StoredIdle
<1>. QED BY <1>1, <1>2, <1>5, <1>6, FreshRefines

LEMMA FinishInsertRefines ==
    ASSUME IInv, IInv', FinishInsert
    PROVE  /\ \E e \in todo : Dict!Insert(e[1], e[2])
           /\ \E k \in Keys, v \in Values : Dict!Insert(k, v)
<1>1. PICK k \in Keys, v \in Values : todo = {<<k, v>>}
  BY DEF FinishInsert, IInv, TypeOK
<1>2. /\ ~Idle /\ Idle' /\ moved = oldSize /\ size' = size
      /\ Put(LookupBucketFor(k), k, v)
  BY <1>1 DEF FinishInsert, Idle
<1>3. Left = {} /\ Left' = {}
  BY <1>2 DEF FinishInsert, Left, IInv, TypeOK
<1>4. size # 0 /\ entries + tombs < size /\ k \notin Stored
  BY <1>1, <1>2, DenseMapAssumption DEF IInv, TypeOK, Growing
<1>5. \A i \in Buckets : key[i] # k
  BY <1>4 DEF Stored, Occupied
<1>6. LookupBucketFor(k) \in Buckets /\ key[LookupBucketFor(k)] \notin Keys
  BY <1>4, <1>5, EmptyExists, Search DEF IInv
<1>7. Dict!Insert(k, v)
  BY <1>2, <1>3, <1>4, <1>6, FreshRefines
<1>8. <<k, v>> \in todo /\ <<k, v>>[1] = k /\ <<k, v>>[2] = v
  BY <1>1
<1>. QED BY <1>7, <1>8

LEMMA GrowRefines ==
    ASSUME IInv, IInv', NEW k \in Keys, NEW v \in Values, Grow(k, v)
    PROVE  Contents' = Contents
<1>1. /\ Idle /\ oldKey' = key /\ oldVal' = val /\ oldSize' = size /\ moved' = 0
      /\ key' = [i \in Buckets' |-> Empty] /\ Empty \notin Keys
  BY DenseMapAssumption DEF Grow, Buckets
<1>2. Left = {} /\ Left' = Occupied /\ Occupied' = {}
  BY <1>1, IdleFacts DEF Left, Occupied, Buckets, IInv, TypeOK
<1>3. Stored' = Stored
  BY <1>1, <1>2 DEF Stored
<1>4. ASSUME NEW x \in Stored PROVE Value(x)' = Value(x)
  <2>1. PICK i \in Occupied : key[i] = x
    BY <1>2 DEF Stored
  <2>2. Value(x) = val[i]
    BY <2>1, ValueOf DEF ValuesFound
  <2>3. i \in Left' /\ oldKey'[i] = x /\ oldVal'[i] = val[i]
    BY <1>1, <1>2, <2>1
  <2>4. Value(x)' = oldVal'[i]
    BY <2>3, ValueOfNext DEF ValuesFound
  <2>. QED BY <2>2, <2>3, <2>4
<1>. QED BY <1>3, <1>4, SameContents

LEMMA MoveRefines ==
    ASSUME IInv, IInv', Move
    PROVE  Contents' = Contents
<1> DEFINE k == oldKey[moved]
           v == oldVal[moved]
<1>1. /\ ~Idle /\ moved < oldSize /\ moved' = moved + 1 /\ Buckets' = Buckets
      /\ UNCHANGED <<size, oldKey, oldVal, oldSize>>
  BY DEF Move, Buckets
<1>2. /\ oldSize \in Nat /\ moved \in 0 .. oldSize - 1 /\ size \in Nat /\ size # 0
      /\ entries + tombs < size
  BY <1>1, DenseMapAssumption DEF IInv, TypeOK, Growing
<1>3. CASE k \notin Keys
  <2>1. UNCHANGED <<key, val>>
    BY <1>3 DEF Move
  <2>2. Left' = Left /\ Occupied' = Occupied
    BY <1>1, <1>2, <1>3, <2>1 DEF Left, Occupied
  <2>. QED BY <1>1, <2>1, <2>2 DEF Contents, Stored, Value
<1>4. CASE k \in Keys
  <2> DEFINE b == At(k, FreeProbe(k))
  <2>1. Put(b, k, v)
    BY <1>4 DEF Move
  <2>2. \E i \in Buckets : key[i] = Empty
    BY <1>2, EmptyExists DEF IInv
  <2>3. FreeProbe(k) \in Buckets /\ key[b] \notin Keys
    BY <1>2, <1>4, <2>2, FreeProbeFound DEF IInv
  <2>4. b \in Buckets
    BY <1>2, <1>4, <2>3, AtProperties
  <2> HIDE DEF b
  <2>5. /\ \A i \in Buckets : key'[i] = IF i = b THEN k ELSE key[i]
        /\ \A i \in Buckets : val'[i] = IF i = b THEN v ELSE val[i]
    BY <2>1, <2>4 DEF Put, IInv, TypeOK
  <2>6. Occupied' = Occupied \cup {b} /\ b \notin Occupied
    BY <1>1, <1>4, <2>3, <2>4, <2>5 DEF Occupied
  <2>7. Left' = Left \ {moved} /\ moved \in Left
    BY <1>1, <1>2, <1>4 DEF Left
  <2>8. Stored' = Stored
    BY <1>1, <2>4, <2>5, <2>6, <2>7 DEF Stored, Occupied
  <2>9. ASSUME NEW x \in Stored PROVE Value(x)' = Value(x)
    <3>1. CASE \E i \in Occupied : key[i] = x
      <4>1. PICK i \in Occupied : key[i] = x
        BY <3>1
      <4>2. i \in Occupied' /\ key'[i] = x /\ val'[i] = val[i]
        BY <2>5, <2>6, <4>1 DEF Occupied
      <4>3. Value(x) = val[i] /\ Value(x)' = val'[i]
        BY <4>1, <4>2, ValueOf, ValueOfNext DEF ValuesFound
      <4>. QED BY <4>2, <4>3
    <3>2. CASE x = k
      <4>1. b \in Occupied' /\ key'[b] = x /\ val'[b] = oldVal[moved]
        BY <2>4, <2>5, <2>6, <3>2
      <4>2. Value(x) = oldVal[moved] /\ Value(x)' = val'[b]
        BY <2>7, <3>2, <4>1, ValueOf, ValueOfNext DEF ValuesFound
      <4>. QED BY <4>1, <4>2
    <3>3. CASE x # k /\ ~ \E i \in Occupied : key[i] = x
      <4>1. PICK i \in Left : oldKey[i] = x
        BY <3>3 DEF Stored
      <4>2. i \in Left' /\ oldKey'[i] = x /\ oldVal'[i] = oldVal[i]
        BY <1>1, <2>7, <3>3, <4>1
      <4>3. Value(x) = oldVal[i] /\ Value(x)' = oldVal'[i]
        BY <4>1, <4>2, ValueOf, ValueOfNext DEF ValuesFound
      <4>. QED BY <4>2, <4>3
    <3>. QED BY <3>1, <3>2, <3>3
  <2>. QED BY <2>8, <2>9, SameContents
<1>. QED BY <1>3, <1>4

\* The bucket that find returns.
LEMMA FoundBucket ==
    ASSUME IInv, Idle, NEW k \in Keys, Contains(k)
    PROVE  LookupBucketFor(k) \in Occupied /\ key[LookupBucketFor(k)] = k
<1>1. size # 0 /\ entries + tombs < size
  BY DEF Contains, IInv, Room
<1>2. PICK i \in Buckets : key[i] = k
  BY ContainsIff
<1>3. LookupBucketFor(k) = i
  BY <1>1, <1>2, EmptyExists, Search DEF IInv
<1>. QED BY <1>2, <1>3 DEF Occupied

(* find sees exactly the entries of the map.                               *)
THEOREM FindSeesEntries == Spec => []FindIsExact
<1>1. IInv => FindIsExact
  <2> SUFFICES ASSUME IInv, Idle, NEW k \in Keys
               PROVE  /\ Contains(k) <=> k \in Stored
                      /\ Contains(k) => val[LookupBucketFor(k)] = Contents[k]
    BY DEF FindIsExact
  <2>1. Contains(k) <=> k \in Stored
    BY StoredIdle
  <2>2. ASSUME Contains(k) PROVE val[LookupBucketFor(k)] = Contents[k]
    <3>1. LookupBucketFor(k) \in Occupied /\ key[LookupBucketFor(k)] = k
      BY <2>2, FoundBucket
    <3>2. Value(k) = val[LookupBucketFor(k)]
      BY <3>1, ValueOf DEF ValuesFound
    <3>. QED BY <2>1, <2>2, <3>2 DEF Contents
  <2>. QED BY <2>1, <2>2
<1>. QED BY TableCorrect, <1>1, PTL

LEMMA WriteRefines ==
    ASSUME IInv, IInv', NEW k \in Keys, NEW v \in Values, Write(k, v)
    PROVE  Dict!Write(k, v)
<1> DEFINE b == LookupBucketFor(k)
<1>1. /\ Idle /\ Contains(k) /\ val' = [val EXCEPT ![b] = v] /\ size # 0
      /\ UNCHANGED <<size, key, entries, tombs, growth>>
  BY DEF Write, Contains
<1>2. b \in Occupied /\ key[b] = k
  BY <1>1, FoundBucket
<1> HIDE DEF b
<1>3. /\ Occupied' = Occupied /\ Left = {} /\ Left' = {} /\ Stored' = Stored
  BY <1>1, IdleFacts DEF Occupied, Buckets, Left, Stored, growth
<1>4. k \in Stored
  BY <1>2 DEF Stored
<1>5. ASSUME NEW x \in Stored PROVE Value(x)' = IF x = k THEN v ELSE Value(x)
  <2>1. PICK i \in Occupied : key[i] = x
    BY <1>3 DEF Stored
  <2>2. i \in Occupied' /\ key'[i] = x
    BY <1>1, <1>3, <2>1
  <2>3. Value(x) = val[i] /\ Value(x)' = val'[i]
    BY <2>1, <2>2, ValueOf, ValueOfNext DEF ValuesFound
  <2>4. val'[i] = IF i = b THEN v ELSE val[i]
    BY <1>1, <2>1 DEF IInv, TypeOK, Occupied
  <2>5. i = b <=> x = k
    BY <1>2, <2>1 DEF IInv, EachKeyOnce
  <2>. QED BY <2>3, <2>4, <2>5
<1>6. Contents' = [Contents EXCEPT ![k] = v]
  BY <1>3, <1>4, <1>5 DEF Contents
<1>. QED BY <1>4, <1>6 DEF Dict!Write, Contents

LEMMA EraseRefines ==
    ASSUME IInv, IInv', NEW k \in Keys, Erase(k)
    PROVE  Dict!Erase(k)
<1> DEFINE b == LookupBucketFor(k)
<1>1. /\ Idle /\ Contains(k) /\ Put(b, Tombstone, Default)
      /\ size' = size /\ UNCHANGED growth
  BY DEF Erase
<1>2. b \in Occupied /\ key[b] = k
  BY <1>1, FoundBucket
<1> HIDE DEF b
<1>3. /\ \A i \in Buckets : key'[i] = IF i = b THEN Tombstone ELSE key[i]
      /\ \A i \in Buckets : i # b => val'[i] = val[i]
      /\ Buckets' = Buckets
  BY <1>1 DEF Put, IInv, TypeOK, Buckets
<1>4. Occupied' = Occupied \ {b}
  BY <1>3, DenseMapAssumption DEF Occupied
<1>5. Left = {} /\ Left' = {}
  BY <1>1, IdleFacts DEF Left, growth
<1>6. \A i \in Occupied : key[i] = k => i = b
  BY <1>2 DEF IInv, EachKeyOnce
<1>7. Stored' = Stored \ {k}
  BY <1>2, <1>3, <1>4, <1>5, <1>6 DEF Stored, Occupied
<1>8. ASSUME NEW x \in Stored' PROVE Value(x)' = Value(x)
  <2>1. PICK i \in Occupied' : key'[i] = x
    BY <1>5, <1>8 DEF Stored
  <2>2. i \in Occupied /\ key[i] = x /\ val'[i] = val[i]
    BY <1>3, <1>4, <2>1 DEF Occupied
  <2>3. Value(x) = val[i] /\ Value(x)' = val'[i]
    BY <2>1, <2>2, ValueOf, ValueOfNext DEF ValuesFound
  <2>. QED BY <2>2, <2>3
<1>9. k \in Stored /\ DOMAIN Contents = Stored
  BY <1>2 DEF Stored, Contents
<1>10. Contents' = [x \in Stored \ {k} |-> Contents[x]]
  BY <1>7, <1>8 DEF Contents
<1>. QED BY <1>9, <1>10 DEF Dict!Erase

\* A table without entries stands for the empty map.
LEMMA NothingStored ==
    ASSUME Occupied' = {}, Left' = {}
    PROVE  Contents' = Dict!Nothing
<1>1. Stored' = {}
  BY DEF Stored
<1>. QED BY <1>1 DEF Contents, Dict!Nothing

LEMMA ClearRefines ==
    ASSUME IInv, Clear \/ MoveOut
    PROVE  Dict!Clear
<1>1. Idle /\ UNCHANGED growth
  BY DEF Clear, MoveOut
<1>2. Left' = {}
  BY <1>1, IdleFacts DEF Left, growth
<1>3. Occupied' = {}
  <2>1. CASE Clear
    BY <2>1, DenseMapAssumption DEF Occupied, Buckets, Clear
  <2>2. CASE MoveOut
    <3>1. Buckets' = {}
      BY <2>2 DEF MoveOut, Buckets
    <3>. QED BY <3>1 DEF Occupied
  <2>. QED BY <2>1, <2>2
<1>. QED BY <1>2, <1>3, NothingStored DEF Dict!Clear

LEMMA InitRefines == Init => Dict!Init
<1> SUFFICES ASSUME Init PROVE Contents = Dict!Nothing
  BY DEF Dict!Init
<1>1. Occupied = {} /\ Left = {}
  BY DEF Init, Occupied, Buckets, Left
<1>2. Stored = {}
  BY <1>1 DEF Stored
<1>. QED BY <1>2 DEF Contents, Dict!Nothing

LEMMA StepRefines == IInv /\ IInv' /\ [Next]_vars => [Dict!Next]_Contents
<1> SUFFICES ASSUME IInv, IInv', [Next]_vars PROVE [Dict!Next]_Contents
  OBVIOUS
<1>1. CASE UNCHANGED vars
  <2>1. Occupied' = Occupied /\ Left' = Left /\ Stored' = Stored
    BY <1>1 DEF vars, table, growth, Occupied, Buckets, Left, Stored
  <2>. QED BY <1>1, <2>1 DEF vars, table, growth, Contents, Value
<1>2. CASE \E k \in Keys, v \in Values : Insert(k, v) \/ Grow(k, v) \/ Write(k, v)
  BY <1>2, InsertRefines, GrowRefines, WriteRefines DEF Dict!Next
<1>3. CASE Move \/ FinishInsert
  BY <1>3, MoveRefines, FinishInsertRefines DEF Dict!Next
<1>4. CASE \E k \in Keys : Erase(k)
  BY <1>4, EraseRefines DEF Dict!Next
<1>5. CASE Clear \/ MoveOut
  BY <1>5, ClearRefines DEF Dict!Next
<1>. QED BY <1>1, <1>2, <1>3, <1>4, <1>5 DEF Next

LEMMA StepAgrees == IInv /\ IInv' /\ [Next]_vars => [SameOperation]_vars
<1> SUFFICES ASSUME IInv, IInv' PROVE SameOperation
  OBVIOUS
<1>1. ASSUME NEW k \in Keys, NEW v \in Values
      PROVE  /\ Insert(k, v) => Dict!Insert(k, v)
             /\ Write(k, v) => Dict!Write(k, v)
             /\ Grow(k, v) => UNCHANGED Contents
  BY InsertRefines, WriteRefines, GrowRefines
<1>2. /\ Move => UNCHANGED Contents
      /\ FinishInsert => \E e \in todo : Dict!Insert(e[1], e[2])
  BY MoveRefines, FinishInsertRefines
<1>3. \A k \in Keys : Erase(k) => Dict!Erase(k)
  BY EraseRefines
<1>4. Clear \/ MoveOut => Dict!Clear
  BY ClearRefines
<1>. QED BY <1>1, <1>2, <1>3, <1>4 DEF SameOperation

(* The table implements the finite map: each operation does what the one   *)
(* of its name promises, and growing is invisible.                         *)
THEOREM MapRefines == Spec => ImplementsDictionary
<1>. QED
  BY InitRefines, StepRefines, StepAgrees, TableCorrect, PTL
  DEF Spec, ImplementsDictionary, Dict!Spec
=============================================================================
