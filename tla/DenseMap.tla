------------------------------ MODULE DenseMap ------------------------------
(***************************************************************************)
(* ir::DenseMap of blocktype/IR/ADT/DenseMap.h: open addressing with       *)
(* linear probing, tombstones, and a table that doubles.                   *)
(*                                                                         *)
(* key[i] stands for the State and the Key of bucket i.  grow() is spread  *)
(* over one step per old bucket; the insertion that called it waits.  A    *)
(* value is whatever can be assigned; what lies in a bucket that is not    *)
(* occupied is written Default.                                            *)
(***************************************************************************)
EXTENDS Naturals, FiniteSets

CONSTANTS
    Keys,
    Values,
    Default,      \* ValueT()
    Hash,         \* getHash
    Empty,        \* Bucket::Empty
    Tombstone,    \* Bucket::Tombstone
    FirstSize,    \* the size of the first table: 16 in the code
    MaxBuckets    \* bound: the size of a table

ASSUME DenseMapAssumption ==
    /\ Hash \in [Keys -> Nat]
    /\ Default \in Values
    /\ Empty \notin Keys /\ Tombstone \notin Keys /\ Empty # Tombstone
    /\ FirstSize \in Nat /\ FirstSize >= 4
    /\ MaxBuckets \in Nat

VARIABLES
    size,       \* NumBuckets
    key,        \* State and Key of Buckets
    val,        \* Value of Buckets
    entries,    \* NumEntries
    tombs,      \* NumTombstones
    oldKey,     \* State and Key of OldBuckets while grow() runs
    oldVal,     \* Value of OldBuckets
    oldSize,    \* OldNum
    moved,      \* the loop variable of grow()
    todo        \* the entry to insert after grow(): {} or {<<k, v>>}

table == <<size, key, val, entries, tombs>>
growth == <<oldKey, oldVal, oldSize, moved, todo>>
vars == <<table, growth>>

Buckets == 0 .. size - 1
Idle == todo = {}

Init ==
    /\ size = 0 /\ key = <<>> /\ val = <<>> /\ entries = 0 /\ tombs = 0
    /\ oldKey = <<>> /\ oldVal = <<>> /\ oldSize = 0 /\ moved = 0
    /\ todo = {}

-----------------------------------------------------------------------------
(* Probing.                                                                *)
At(k, p) == ((Hash[k] % size) + p) % size

Least(S) == CHOOSE p \in S : \A q \in S : p <= q

Tombstones(k, p) == {q \in Buckets : q < p /\ key[At(k, q)] = Tombstone}

\* The probes that end the loop of lookupBucketFor.
Stops(k) == {p \in Buckets : key[At(k, p)] \in {Empty, k}}

\* A faulty variant: the first tombstone ends the search.
LookupAtTombstone(k) ==
    LET stops == {p \in Buckets : key[At(k, p)] \in {Empty, Tombstone, k}} IN
    IF stops = {} THEN size ELSE At(k, Least(stops))

LookupBucketFor(k) ==
    LET end == IF Stops(k) = {} THEN size ELSE Least(Stops(k)) IN
    IF end # size /\ key[At(k, end)] = k THEN At(k, end)
    ELSE IF Tombstones(k, end) # {} THEN At(k, Least(Tombstones(k, end)))
    ELSE IF end # size THEN At(k, end)
    ELSE size

\* find.  A lookup that returns size would read past the table.
Contains(k) ==
    LET i == LookupBucketFor(k) IN size # 0 /\ i # size /\ key[i] = k

\* A faulty variant: tombstones are not counted.
CrowdedByEntries == entries * 4 >= size * 3

Crowded == (entries + tombs) * 4 >= size * 3

-----------------------------------------------------------------------------
Put(i, k, v) ==
    /\ key' = [key EXCEPT ![i] = k]
    /\ val' = [val EXCEPT ![i] = v]

\* insert and operator[] of a key that has no entry, when there is room.
\* NumTombstones is left alone even if the bucket was a tombstone.
Insert(k, v) ==
    /\ Idle /\ ~Contains(k) /\ ~Crowded
    /\ Put(LookupBucketFor(k), k, v)
    /\ entries' = entries + 1
    /\ UNCHANGED <<size, tombs, growth>>

NewSize == IF size = 0 THEN FirstSize ELSE size * 2

\* The same when the table is crowded: grow() sets up the new table.
Grow(k, v) ==
    /\ Idle /\ ~Contains(k) /\ Crowded
    /\ NewSize <= MaxBuckets
    /\ oldKey' = key /\ oldVal' = val /\ oldSize' = size /\ moved' = 0
    /\ size' = NewSize
    /\ key' = [i \in 0 .. NewSize - 1 |-> Empty]
    /\ val' = [i \in 0 .. NewSize - 1 |-> Default]
    /\ entries' = 0 /\ tombs' = 0
    /\ todo' = {<<k, v>>}

\* A faulty variant: the home bucket is taken, occupied or not.
HomeProbe(k) == 0

\* insertInto takes the first bucket that is not occupied.
FreeProbe(k) == Least({p \in Buckets : key[At(k, p)] \notin Keys})

\* A faulty variant: insertInto does not count.
MoveUncounted ==
    /\ ~Idle /\ moved < oldSize
    /\ moved' = moved + 1
    /\ LET k == oldKey[moved] IN
       IF k \in Keys THEN Put(At(k, FreeProbe(k)), k, oldVal[moved])
       ELSE UNCHANGED <<key, val>>
    /\ UNCHANGED <<entries, size, tombs, oldKey, oldVal, oldSize, todo>>

Move ==
    /\ ~Idle /\ moved < oldSize
    /\ moved' = moved + 1
    /\ LET k == oldKey[moved] IN
       IF k \in Keys
       THEN /\ Put(At(k, FreeProbe(k)), k, oldVal[moved])
            /\ entries' = entries + 1
       ELSE UNCHANGED <<key, val, entries>>
    /\ UNCHANGED <<size, tombs, oldKey, oldVal, oldSize, todo>>

\* The old table is deleted and the insertion goes on in the new one.
FinishInsert ==
    /\ ~Idle /\ moved = oldSize
    /\ \E e \in todo : Put(LookupBucketFor(e[1]), e[1], e[2])
    /\ entries' = entries + 1
    /\ oldKey' = <<>> /\ oldVal' = <<>> /\ oldSize' = 0 /\ moved' = 0
    /\ todo' = {}
    /\ UNCHANGED <<size, tombs>>

\* A write through the iterator of find or the reference of operator[].
Write(k, v) ==
    /\ Idle /\ Contains(k)
    /\ val' = [val EXCEPT ![LookupBucketFor(k)] = v]
    /\ UNCHANGED <<size, key, entries, tombs, growth>>

\* Faulty variants: the bucket becomes empty; NumEntries is not decremented.
EraseToEmpty(k) ==
    /\ Idle /\ Contains(k)
    /\ Put(LookupBucketFor(k), Empty, Default)
    /\ entries' = entries - 1
    /\ UNCHANGED <<size, tombs, growth>>

EraseUncounted(k) ==
    /\ Idle /\ Contains(k)
    /\ Put(LookupBucketFor(k), Tombstone, Default)
    /\ tombs' = tombs + 1
    /\ UNCHANGED <<entries, size, growth>>

Erase(k) ==
    /\ Idle /\ Contains(k)
    /\ Put(LookupBucketFor(k), Tombstone, Default)
    /\ entries' = entries - 1 /\ tombs' = tombs + 1
    /\ UNCHANGED <<size, growth>>

Clear ==
    /\ Idle
    /\ key' = [i \in Buckets |-> Empty] /\ val' = [i \in Buckets |-> Default]
    /\ entries' = 0 /\ tombs' = 0
    /\ UNCHANGED <<size, growth>>

\* The map is moved from: the other map takes the table.
MoveOut ==
    /\ Idle
    /\ size' = 0 /\ key' = <<>> /\ val' = <<>> /\ entries' = 0 /\ tombs' = 0
    /\ UNCHANGED growth

Next ==
    \/ \E k \in Keys, v \in Values : Insert(k, v) \/ Grow(k, v) \/ Write(k, v)
    \/ Move \/ FinishInsert
    \/ \E k \in Keys : Erase(k)
    \/ Clear \/ MoveOut

Spec == Init /\ [][Next]_vars

-----------------------------------------------------------------------------
(* Properties.                                                             *)
States == Keys \cup {Empty, Tombstone}

\* The type invariant.
TypeOK ==
    /\ size \in Nat
    /\ key \in [Buckets -> States] /\ val \in [Buckets -> Values]
    /\ entries \in 0 .. size /\ tombs \in 0 .. size
    /\ oldSize \in Nat /\ moved \in 0 .. oldSize
    /\ oldKey \in [0 .. oldSize - 1 -> States]
    /\ oldVal \in [0 .. oldSize - 1 -> Values]
    /\ \/ Idle /\ oldSize = 0
       \/ \E k \in Keys, v \in Values : todo = {<<k, v>>}

Occupied == {i \in Buckets : key[i] \in Keys}

\* The entries of the old table that grow() has not moved yet.
Left == {i \in moved .. oldSize - 1 : oldKey[i] \in Keys}

(* NumEntries is the number of occupied buckets, through erasures, reused  *)
(* tombstones and growth: the load test and size() depend on it.           *)
EntriesCounted == entries = Cardinality(Occupied)

(* A search for any key ends at the key or at an empty bucket, whatever     *)
(* sequence of insertions and erasures came before: find reads             *)
(* Buckets[Idx] without a test, and a table of tombstones would be scanned *)
(* whole by each search.                                                   *)
SearchEnds ==
    size # 0 => \A k \in Keys : Stops(k) # {} /\ LookupBucketFor(k) \in Buckets

(* No key has two buckets, even while grow() moves the entries: a lookup   *)
(* that misses an entry would make insert add it again.                    *)
EachKeyOnce ==
    /\ \A i, j \in Occupied : key[i] = key[j] => i = j
    /\ \A i, j \in Left : oldKey[i] = oldKey[j] => i = j
    /\ \A i \in Occupied, j \in Left : key[i] # oldKey[j]

(* What the table holds, as a map.                                         *)
Stored == {key[i] : i \in Occupied} \cup {oldKey[i] : i \in Left}

Value(k) ==
    IF \E i \in Occupied : key[i] = k
    THEN val[CHOOSE i \in Occupied : key[i] = k]
    ELSE oldVal[CHOOSE i \in Left : oldKey[i] = k]

Contents == [k \in Stored |-> Value(k)]

(* find sees an entry exactly when there is one, and its value: no erasure *)
(* hides an entry further on in the probe chain.                           *)
FindIsExact ==
    Idle => \A k \in Keys :
        /\ Contains(k) <=> k \in Stored
        /\ Contains(k) => val[LookupBucketFor(k)] = Contents[k]

Dict == INSTANCE Dictionary WITH dict <- Contents

\* Each operation does to the map what the operation of its name promises.
SameOperation ==
    /\ \A k \in Keys, v \in Values :
          /\ Insert(k, v) => Dict!Insert(k, v)
          /\ Write(k, v) => Dict!Write(k, v)
          /\ Grow(k, v) => UNCHANGED Contents
    /\ Move => UNCHANGED Contents
    /\ FinishInsert => \E e \in todo : Dict!Insert(e[1], e[2])
    /\ \A k \in Keys : Erase(k) => Dict!Erase(k)
    /\ Clear \/ MoveOut => Dict!Clear

(* The table implements a finite map, operation by operation: an insertion *)
(* adds its entry and no other, and growing changes nothing.               *)
ImplementsDictionary == Dict!Spec /\ [][SameOperation]_vars
=============================================================================
