--------------------------- MODULE RedGreenProofs ---------------------------
(***************************************************************************)
(* Theorems about RedGreenMarker: the walks over the dependency graph      *)
(* answer exactly what the graph says, for every set of queries.           *)
(***************************************************************************)
EXTENDS RedGreenMarker, SequenceTheorems, FiniteSetTheorems, TLAPS

-----------------------------------------------------------------------------
(* The least closed set.                                                   *)

\* It holds what it starts from.
LEMMA ReachBase ==
    ASSUME NEW R, NEW S \in SUBSET IDs
    PROVE  S \subseteq Reach(R, S)
BY DEF Reach

\* It is closed.
LEMMA ReachStep ==
    ASSUME NEW R, NEW S, NEW m \in Reach(R, S), NEW n \in IDs, <<m, n>> \in R
    PROVE  n \in Reach(R, S)
<1>1. SUFFICES ASSUME NEW C \in SUBSET IDs, S \subseteq C, Closed(R, C)
               PROVE  n \in C
  BY DEF Reach
<1>2. m \in C
  BY <1>1 DEF Reach
<1>3. QED
  BY <1>1, <1>2 DEF Closed

\* It is the least one.
LEMMA ReachLeast ==
    ASSUME NEW R, NEW S, NEW C \in SUBSET IDs, S \subseteq C, Closed(R, C)
    PROVE  Reach(R, S) \subseteq C
BY DEF Reach

-----------------------------------------------------------------------------
(* The stack.                                                              *)
Frames == [node : IDs, left : SUBSET IDs]

\* What Pass makes of the stack.
LEMMA PassFacts ==
    ASSUME path \in Seq(Frames), path # <<>>, NEW d
    PROVE  /\ Pass(d) \in Seq(Frames)
           /\ Len(Pass(d)) = Len(path)
           /\ Len(path) \in Nat \ {0}
           /\ \A i \in 1..Len(path) : Pass(d)[i].node = path[i].node
           /\ \A i \in 1..Len(path) : i # Len(path) => Pass(d)[i] = path[i]
           /\ Pass(d)[Len(path)].left = Top.left \ {d}
<1>1. Len(path) \in Nat \ {0} /\ Len(path) \in DOMAIN path
  OBVIOUS
<1>2. \A i \in 1..Len(path) : path[i] \in Frames
  OBVIOUS
<1>3. Pass(d) = [i \in 1..Len(path) |->
                     IF i = Len(path) THEN [path[i] EXCEPT !.left = @ \ {d}] ELSE path[i]]
  <2>1. path = [i \in 1..Len(path) |-> path[i]]
    OBVIOUS
  <2>2. QED
    BY <1>1, <2>1 DEF Pass
<1>4. [path[Len(path)] EXCEPT !.left = @ \ {d}] \in Frames
  BY <1>1, <1>2 DEF Frames
<1>5. Pass(d) \in [1..Len(path) -> Frames]
  BY <1>2, <1>3, <1>4
<1>6. Pass(d) \in Seq(Frames) /\ Len(Pass(d)) = Len(path)
  BY <1>1, <1>5
<1>7. \A i \in 1..Len(path) : Pass(d)[i].node = path[i].node
  BY <1>2, <1>3 DEF Frames
<1>8. Pass(d)[Len(path)].left = Top.left \ {d}
  BY <1>1, <1>2, <1>3 DEF Frames, Top
<1>9. QED
  BY <1>1, <1>3, <1>6, <1>7, <1>8

\* The top of the stack.
LEMMA TopFacts ==
    ASSUME path \in Seq(Frames), path # <<>>
    PROVE  /\ Len(path) \in Nat \ {0} /\ Top = path[Len(path)]
           /\ Top \in Frames /\ Top.node \in IDs /\ Top.left \in SUBSET IDs
<1>1. Len(path) \in Nat \ {0} /\ path[Len(path)] \in Frames
  OBVIOUS
<1>2. QED
  BY <1>1 DEF Top, Frames

\* What Append makes of a stack.
LEMMA AppendFacts ==
    ASSUME NEW s \in Seq(Frames), NEW f \in Frames
    PROVE  /\ Append(s, f) \in Seq(Frames)
           /\ Len(Append(s, f)) = Len(s) + 1
           /\ \A i \in 1..Len(s) : Append(s, f)[i] = s[i]
           /\ Append(s, f)[Len(s) + 1] = f
OBVIOUS

\* What Pop makes of the stack.
LEMMA PopFacts ==
    ASSUME path \in Seq(Frames), path # <<>>
    PROVE  /\ Pop \in Seq(Frames)
           /\ Len(Pop) = Len(path) - 1
           /\ Len(path) \in Nat \ {0}
           /\ \A i \in 1..Len(Pop) : Pop[i] = path[i]
<1>1. Len(path) \in Nat \ {0} /\ Len(path) - 1 \in 0..Len(path)
  OBVIOUS
<1>2. \A i \in 1..(Len(path) - 1) : path[i] \in Frames
  BY <1>1
<1>3. 1 \in Int /\ Len(path) - 1 \in Int
  BY <1>1
<1>4. Pop \in Seq(Frames)
  BY <1>2, <1>3, SubSeqProperties DEF Pop
<1>5. Len(Pop) = IF 1 <= Len(path) - 1 THEN Len(path) - 1 - 1 + 1 ELSE 0
  BY <1>2, <1>3, SubSeqProperties DEF Pop
<1>6. Len(Pop) = Len(path) - 1
  <2>1. ASSUME NEW n \in Nat \ {0}
        PROVE  (IF 1 <= n - 1 THEN n - 1 - 1 + 1 ELSE 0) = n - 1
    <3>1. CASE n = 1
      BY <3>1
    <3>2. CASE n # 1
      BY <3>2
    <3>3. QED
      BY <3>1, <3>2
  <2>2. QED
    BY <1>1, <1>5, <2>1
<1>7. \A i \in 1..(Len(path) - 1 - 1 + 1) : Pop[i] = path[1 + i - 1]
  BY <1>2, <1>3, SubSeqProperties DEF Pop
<1>8. ASSUME NEW i \in 1..(Len(path) - 1)
      PROVE  Pop[i] = path[i]
  <2>1. i \in 1..(Len(path) - 1 - 1 + 1) /\ 1 + i - 1 = i
    BY <1>1
  <2>2. QED
    BY <1>7, <2>1
<1>9. QED
  BY <1>1, <1>4, <1>6, <1>8

\* The frame a node starts with.
LEMMA FrameFacts ==
    ASSUME NEW n \in IDs
    PROVE  Frame(n) \in Frames /\ Frame(n).node = n /\ Frame(n).left = DependenciesOf(n)
BY DEF Frame, Frames, DependenciesOf

-----------------------------------------------------------------------------
(* Types.                                                                  *)

\* A recorded dependency keeps the lists of the two directions in agreement.
LEMMA RecordTypeOK ==
    ASSUME GraphTypeOK, NEW d \in IDs, NEW E \in SUBSET IDs, Record(d, E)
    PROVE  GraphTypeOK'
<1>1. nodes' \subseteq IDs /\ deps' \subseteq nodes' \X nodes'
  BY DEF GraphTypeOK, Record
<1>2. dependents' = {<<e[2], e[1]>> : e \in deps} \cup {<<e[2], e[1]>> : e \in {d} \X E}
  <2>1. E \X {d} = {<<e[2], e[1]>> : e \in {d} \X E}
    <3>1. ASSUME NEW e \in {d} \X E
          PROVE  <<e[2], e[1]>> \in E \X {d}
      OBVIOUS
    <3>2. ASSUME NEW x \in E \X {d}
          PROVE  x \in {<<e[2], e[1]>> : e \in {d} \X E}
      <4>1. x = <<x[1], d>> /\ x[1] \in E
        OBVIOUS
      <4>2. <<d, x[1]>> \in {d} \X E
        BY <4>1
      <4>3. QED
        BY <4>1, <4>2
    <3>3. QED
      BY <3>1, <3>2
  <2>2. QED
    BY <2>1 DEF GraphTypeOK, Record
<1>3. dependents' = {<<e[2], e[1]>> : e \in deps'}
  BY <1>2 DEF Record
<1>4. QED
  BY <1>1, <1>3 DEF GraphTypeOK

\* With the graph unchanged its type is.
LEMMA SameGraph ==
    ASSUME GraphTypeOK, UNCHANGED graph
    PROVE  GraphTypeOK'
BY DEF GraphTypeOK, graph

\* What the other invariants need beside TypeOK: the argument is there while
\* it is looked for, and nothing is on the stack between the walks.
WalkOK ==
    /\ call = "dependents" => arg \in IDs
    /\ call \notin {"cycle", "mark", "overflow"} => path = <<>>

\* It holds at the start.
LEMMA InitTypes == Init => TypeOK /\ WalkOK
<1>1. SUFFICES ASSUME Init PROVE TypeOK /\ WalkOK
  OBVIOUS
<1>2. GraphTypeOK
  BY <1>1 DEF Init, GraphInit, GraphTypeOK
<1>3. path \in Seq(Frames)
  BY <1>1 DEF Init
<1>4. QED
  BY <1>1, <1>2, <1>3 DEF Init, TypeOK, WalkOK, Colors, Frames, Nothing

\* A frame is laid on the stack, with or without a passed dependency.
LEMMA GrownStack ==
    ASSUME path \in Seq(Frames), path # <<>>, NEW d \in IDs
    PROVE  /\ Append(path, Frame(d)) \in Seq(Frames)
           /\ Append(Pass(d), Frame(d)) \in Seq(Frames)
<1>1. Pass(d) \in Seq(Frames) /\ Frame(d) \in Frames
  BY PassFacts, FrameFacts
<1>2. QED
  BY <1>1, AppendFacts

\* Every step keeps the types.
LEMMA NextTypes ==
    ASSUME TypeOK, WalkOK, [Next]_vars
    PROVE  TypeOK' /\ WalkOK'
<1> USE DEF TypeOK, WalkOK
<1>0. path \in Seq(Frames)
  BY DEF Frames
<1>1. ASSUME NEW n \in IDs, NEW E \in SUBSET IDs, RecordDependency(n, E)
      PROVE  TypeOK' /\ WalkOK'
  <2>1. GraphTypeOK'
    BY <1>1, RecordTypeOK DEF RecordDependency
  <2>2. QED
    BY <1>1, <2>1 DEF RecordDependency, Disturb, walk
<1>2. ASSUME (\E n \in IDs : SetFingerprint(n) \/ Modify(n) \/ MarkRed(n)) \/ ResetMarks
      PROVE  TypeOK' /\ WalkOK'
  <2>1. GraphTypeOK'
    BY <1>2, SameGraph DEF SetFingerprint, Modify, MarkRed, ResetMarks
  <2>2. QED
    BY <1>2, <2>1 DEF SetFingerprint, Modify, MarkRed, ResetMarks, Disturb, walk, Colors
<1>3. ASSUME (\E n \in IDs : GetTransitiveDependents(n)) \/ StartHasCycle
      PROVE  TypeOK' /\ WalkOK'
  <2>1. GraphTypeOK'
    BY <1>3, SameGraph DEF GetTransitiveDependents, StartHasCycle
  <2>2. QED
    BY <1>3, <2>1 DEF GetTransitiveDependents, StartHasCycle, marking, Idle, DependentsOf,
                      GraphTypeOK
<1>11. ASSUME NEW n \in IDs, TryMarkGreen(n)
       PROVE  TypeOK' /\ WalkOK'
  <2>1. GraphTypeOK'
    BY <1>11, SameGraph DEF TryMarkGreen
  <2>2. path' \in Seq(Frames)
    BY <1>11, FrameFacts DEF TryMarkGreen
  <2>3. QED
    BY <1>11, <2>1, <2>2 DEF TryMarkGreen, marking, Frames
<1>4. ASSUME Visit \/ DependentsFound \/ NoCycleFound \/ HasCycleReturns \/ Marked
      PROVE  TypeOK' /\ WalkOK'
  <2>1. GraphTypeOK'
    BY <1>4, SameGraph DEF Visit, DependentsFound, NoCycleFound, HasCycleReturns, Marked
  <2>2. QED
    BY <1>4, <2>1 DEF Visit, DependentsFound, NoCycleFound, HasCycleReturns, Marked,
                      marking, NextLevel, DependentsOf, Nothing
<1>5. ASSUME StartNode
      PROVE  TypeOK' /\ WalkOK'
  <2>1. GraphTypeOK'
    BY <1>5, SameGraph DEF StartNode
  <2>2. path' \in Seq(Frames)
    BY <1>5, FrameFacts DEF StartNode
  <2>3. QED
    BY <1>5, <2>1, <2>2 DEF StartNode, marking, Frames
<1>6. ASSUME Blacken \/ Compare
      PROVE  TypeOK' /\ WalkOK'
  <2>1. GraphTypeOK'
    BY <1>6, SameGraph DEF Blacken, Compare
  <2>2. path' \in Seq(Frames) /\ Top.node \in IDs
    BY <1>0, <1>6, PopFacts, TopFacts DEF Blacken, Compare
  <2>3. QED
    BY <1>6, <2>1, <2>2 DEF Blacken, Compare, marking, Frames, SetMark, Colors
<1>7. ASSUME NEW d \in IDs, LookAt(d)
      PROVE  TypeOK' /\ WalkOK'
  <2>1. GraphTypeOK'
    BY <1>7, SameGraph DEF LookAt
  <2>2. path' \in Seq(Frames)
    <3>1. path # <<>>
      BY <1>7 DEF LookAt
    <3>2. Pass(d) \in Seq(Frames) /\ Append(Pass(d), Frame(d)) \in Seq(Frames)
      BY <1>0, <3>1, PassFacts, GrownStack
    <3>3. path' \in {<<>>, Pass(d), Append(Pass(d), Frame(d))}
      BY <1>7 DEF LookAt
    <3>4. <<>> \in Seq(Frames)
      OBVIOUS
    <3>5. QED
      BY <3>2, <3>3, <3>4
  <2>3. QED
    BY <1>7, <2>1, <2>2 DEF LookAt, marking, Frames
<1>8. ASSUME NEW d \in IDs, Depend(d)
      PROVE  TypeOK' /\ WalkOK'
  <2>1. GraphTypeOK'
    BY <1>8, SameGraph DEF Depend
  <2>2. Top.node \in IDs
    BY <1>0, <1>8, TopFacts DEF Depend
  <2>3. path' \in Seq(Frames)
    <3>1. path # <<>>
      BY <1>8 DEF Depend
    <3>2. Pop \in Seq(Frames) /\ Pass(d) \in Seq(Frames)
          /\ Append(path, Frame(d)) \in Seq(Frames)
      BY <1>0, <3>1, PassFacts, PopFacts, GrownStack
    <3>3. path' \in {Pop, Pass(d), path, Append(path, Frame(d))}
      BY <1>8 DEF Depend
    <3>4. QED
      BY <1>0, <3>2, <3>3
  <2>4. marks' \in [IDs -> Colors] /\ call' \in {"mark", "overflow"}
    BY <1>8, <2>2 DEF Depend, SetMark, Colors
  <2>5. QED
    BY <1>8, <2>1, <2>3, <2>4 DEF Depend, Frames
<1>9. CASE UNCHANGED vars
  <2>1. GraphTypeOK'
    BY <1>9, SameGraph DEF vars
  <2>2. QED
    BY <1>9, <2>1 DEF vars, marking, walk
<1>10. QED
  BY <1>1, <1>2, <1>3, <1>4, <1>5, <1>6, <1>7, <1>8, <1>9, <1>11 DEF Next, User, Walk

(* Every variable keeps its type, and the two directions of the graph      *)
(* agree: recordDependency of DependencyGraph.cpp.                         *)
THEOREM TypeCorrect == Spec => []TypeOK
<1>1. TypeOK /\ WalkOK /\ [Next]_vars => TypeOK' /\ WalkOK'
  BY NextTypes
<1>2. QED
  BY <1>1, InitTypes, PTL DEF Spec

-----------------------------------------------------------------------------
(* getTransitiveDependents.                                                *)

\* What has been visited or waits depends on the argument, and the dependents
\* of what has been visited have been visited or wait.
DependentsInv ==
    call = "dependents" =>
        /\ work \cup seen \subseteq AllDependents(arg)
        /\ DependentsOf(arg) \subseteq work \cup seen
        /\ \A n \in seen : DependentsOf(n) \subseteq work \cup seen

\* A dependent of a transitive dependent is one.
LEMMA DependentsStep ==
    ASSUME NEW a, NEW n \in AllDependents(a)
    PROVE  DependentsOf(n) \subseteq AllDependents(a)
<1>1. SUFFICES ASSUME NEW d \in DependentsOf(n)
               PROVE  d \in Reach(dependents, DependentsOf(a))
  BY DEF AllDependents
<1>2. d \in IDs /\ <<n, d>> \in dependents
  BY DEF DependentsOf
<1>3. n \in Reach(dependents, DependentsOf(a))
  BY DEF AllDependents
<1>4. QED
  BY <1>2, <1>3, ReachStep

\* Every step keeps it.
LEMMA NextDependents ==
    ASSUME TypeOK, WalkOK, DependentsInv, [Next]_vars
    PROVE  DependentsInv'
<1>1. SUFFICES ASSUME call' = "dependents"
               PROVE  /\ work' \cup seen' \subseteq AllDependents(arg)'
                      /\ DependentsOf(arg)' \subseteq work' \cup seen'
                      /\ \A n \in seen' : DependentsOf(n)' \subseteq work' \cup seen'
  BY DEF DependentsInv
<1>2. \/ \E n \in IDs : GetTransitiveDependents(n)
      \/ Visit
      \/ UNCHANGED <<graph, walk>>
  <2>1. CASE UNCHANGED vars
    BY <2>1 DEF vars
  <2>2. CASE User
    BY <1>1, <2>2 DEF User, RecordDependency, SetFingerprint, Modify, MarkRed, ResetMarks,
                      TryMarkGreen, StartHasCycle, Idle, walk
  <2>3. CASE Walk
    BY <1>1, <2>3 DEF Walk, DependentsFound, StartNode, Blacken, NoCycleFound,
                      HasCycleReturns, LookAt, Depend, Compare, Marked
  <2>4. QED
    BY <2>1, <2>2, <2>3 DEF Next
<1>3. UNCHANGED graph /\ dependents' = dependents
  BY <1>2 DEF GetTransitiveDependents, Visit, graph
<1>4. /\ AllDependents(arg)' = AllDependents(arg')
      /\ DependentsOf(arg)' = DependentsOf(arg')
      /\ \A n : DependentsOf(n)' = DependentsOf(n)
  BY <1>3 DEF AllDependents, DependentsOf, Reach, Closed
<1>5. CASE \E n \in IDs : GetTransitiveDependents(n)
  <2>1. PICK n \in IDs : GetTransitiveDependents(n)
    BY <1>5
  <2>2. arg' = n /\ work' = DependentsOf(n) /\ seen' = {}
    BY <2>1 DEF GetTransitiveDependents
  <2>3. DependentsOf(n) \subseteq AllDependents(n)
    <3>1. DependentsOf(n) \in SUBSET IDs
      BY DEF DependentsOf
    <3>2. QED
      BY <3>1, ReachBase DEF AllDependents
  <2>4. QED
    BY <1>4, <2>2, <2>3
<1>6. CASE Visit
  <2>1. PICK n \in work : /\ seen' = seen \cup {n}
                          /\ work' = (work \ {n}) \cup (DependentsOf(n) \ seen')
    BY <1>6 DEF Visit, NextLevel
  <2>2. call = "dependents" /\ arg' = arg
    BY <1>6 DEF Visit
  <2>3. n \in AllDependents(arg)
    BY <2>2 DEF DependentsInv
  <2>4. DependentsOf(n) \subseteq AllDependents(arg)
    BY <2>3, DependentsStep
  <2>5. work' \cup seen' = work \cup seen \cup DependentsOf(n)
    BY <2>1
  <2>6. QED
    BY <1>4, <2>1, <2>2, <2>3, <2>4, <2>5 DEF DependentsInv
<1>7. CASE UNCHANGED <<graph, walk>>
  BY <1>1, <1>4, <1>7 DEF DependentsInv, walk
<1>8. QED
  BY <1>2, <1>5, <1>6, <1>7

\* With nothing left to visit the answer is complete.
LEMMA DependentsDone == TypeOK /\ DependentsInv => DependentsExact
<1>1. SUFFICES ASSUME TypeOK, DependentsInv, call = "dependents", work = {}
               PROVE  seen = AllDependents(arg)
  BY DEF DependentsExact
<1>2. seen \subseteq AllDependents(arg) /\ DependentsOf(arg) \subseteq seen
  BY <1>1 DEF DependentsInv
<1>3. seen \in SUBSET IDs
  BY <1>1 DEF TypeOK
<1>4. Closed(dependents, seen)
  <2>1. SUFFICES ASSUME NEW e \in dependents, e[1] \in seen
                 PROVE  e[2] \in seen
    BY DEF Closed
  <2>2. e = <<e[1], e[2]>> /\ e[2] \in IDs
    BY <1>1 DEF TypeOK, GraphTypeOK
  <2>3. e[2] \in DependentsOf(e[1])
    BY <2>2 DEF DependentsOf
  <2>4. QED
    BY <1>1, <2>1, <2>3 DEF DependentsInv
<1>5. AllDependents(arg) \subseteq seen
  BY <1>2, <1>3, <1>4, ReachLeast DEF AllDependents
<1>6. QED
  BY <1>2, <1>5

(* getTransitiveDependents returns exactly the queries that depend on its  *)
(* argument, directly or not, with cycles or without.                      *)
THEOREM DependentsCorrect == Spec => []DependentsExact
<1>1. Init => DependentsInv
  BY DEF Init, DependentsInv
<1>2. TypeOK /\ WalkOK /\ DependentsInv /\ [Next]_vars
      => TypeOK' /\ WalkOK' /\ DependentsInv'
  BY NextTypes, NextDependents
<1>3. QED
  BY <1>1, <1>2, InitTypes, DependentsDone, PTL DEF Spec

-----------------------------------------------------------------------------
(* hasCycle.                                                               *)

\* What holds of a stack p, the black nodes B and the nodes W to start from.
Gathered(p, B) ==
    \A i \in 1..Len(p) : p[i].left \subseteq DependenciesOf(p[i].node) /\ p[i].node \notin B
Chained(p) ==
    \A i, j \in 1..Len(p) :
        i < j => /\ p[i].node # p[j].node
                 /\ p[j].node \in Reach(deps, DependenciesOf(p[i].node))
Passed(p, B) ==
    \A i \in 1..Len(p) : \A d \in DependenciesOf(p[i].node) \ p[i].left :
        d \in B \/ (i < Len(p) /\ d = p[i + 1].node)
Black(B) ==
    \A n \in B : DependenciesOf(n) \subseteq B /\ n \notin Reach(deps, DependenciesOf(n))
Covered(p, B, W) ==
    \A n \in nodes : n \in W \cup B \/ \E i \in 1..Len(p) : p[i].node = n

Search(p, B, W) ==
    Gathered(p, B) /\ Chained(p) /\ Passed(p, B) /\ Black(B) /\ Covered(p, B, W)

\* While it searches, gray nodes are a path of the graph and black nodes reach
\* only black nodes, none of them itself.
CycleInv == (call = "cycle" => Search(path, seen, work)) /\ CycleExact

\* A dependency is reached in one step.
LEMMA DirectlyReached ==
    ASSUME NEW n
    PROVE  DependenciesOf(n) \subseteq Reach(deps, DependenciesOf(n))
<1>1. DependenciesOf(n) \in SUBSET IDs
  BY DEF DependenciesOf
<1>2. QED
  BY <1>1, ReachBase

\* What a reached node depends on is reached.
LEMMA FurtherReached ==
    ASSUME NEW n, NEW m \in Reach(deps, DependenciesOf(n)), NEW d \in DependenciesOf(m)
    PROVE  d \in Reach(deps, DependenciesOf(n))
<1>1. d \in IDs /\ <<m, d>> \in deps
  BY DEF DependenciesOf
<1>2. QED
  BY <1>1, ReachStep

\* Black nodes reach black nodes only.
LEMMA BlackReach ==
    ASSUME TypeOK, NEW B \in SUBSET IDs, Black(B), NEW n, DependenciesOf(n) \subseteq B
    PROVE  Reach(deps, DependenciesOf(n)) \subseteq B
<1>1. Closed(deps, B)
  <2>1. SUFFICES ASSUME NEW e \in deps, e[1] \in B
                 PROVE  e[2] \in B
    BY DEF Closed
  <2>2. e = <<e[1], e[2]>> /\ e[2] \in IDs
    BY DEF TypeOK, GraphTypeOK
  <2>3. e[2] \in DependenciesOf(e[1])
    BY <2>2 DEF DependenciesOf
  <2>4. QED
    BY <2>1, <2>3 DEF Black
<1>2. QED
  BY <1>1, ReachLeast

\* The search starts with a node that is not black.
LEMMA StartKeeps ==
    ASSUME TypeOK, Search(<<>>, seen, work), NEW n \in work
    PROVE  /\ n \in seen => Search(<<>>, seen, work \ {n})
           /\ n \notin seen => Search(<<Frame(n)>>, seen, work \ {n})
<1> n \in IDs
  BY DEF TypeOK
<1>1. Frame(n).node = n /\ Frame(n).left = DependenciesOf(n)
  BY FrameFacts
<1>2. CASE n \in seen
  BY <1>2 DEF Search, Gathered, Chained, Passed, Covered
<1>3. CASE n \notin seen
  <2> DEFINE p == <<Frame(n)>>
  <2>1. Len(p) = 1 /\ p[1] = Frame(n)
    OBVIOUS
  <2> HIDE DEF p
  <2>2. Gathered(p, seen) /\ Chained(p) /\ Passed(p, seen)
    BY <1>1, <1>3, <2>1 DEF Gathered, Chained, Passed
  <2>3. Covered(p, seen, work \ {n})
    BY <1>1, <2>1 DEF Covered, Search
  <2>4. Black(seen)
    BY DEF Search
  <2>5. QED
    BY <1>3, <2>2, <2>3, <2>4 DEF Search, p
<1>4. QED
  BY <1>2, <1>3

\* A black dependency is passed.
LEMMA PassKeeps ==
    ASSUME TypeOK, path # <<>>, Search(path, seen, work), NEW d \in seen
    PROVE  Search(Pass(d), seen, work)
<1>1. path \in Seq(Frames)
  BY DEF TypeOK, Frames
<1> DEFINE q == Pass(d)
<1>2. /\ Len(q) = Len(path)
      /\ Len(path) \in Nat \ {0}
      /\ \A i \in 1..Len(path) : q[i].node = path[i].node
      /\ \A i \in 1..Len(path) : i # Len(path) => q[i] = path[i]
      /\ q[Len(path)].left = path[Len(path)].left \ {d}
  BY <1>1, PassFacts DEF Top
<1> HIDE DEF q
<1>3. Gathered(q, seen) /\ Chained(q)
  BY <1>2 DEF Search, Gathered, Chained
<1>4. Passed(q, seen)
  <2>1. SUFFICES ASSUME NEW i \in 1..Len(path),
                        NEW e \in DependenciesOf(path[i].node) \ q[i].left
                 PROVE  e \in seen \/ (i < Len(path) /\ e = path[i + 1].node)
    BY <1>2 DEF Passed
  <2>2. CASE e = d
    BY <2>2
  <2>3. CASE e # d
    <3>1. e \notin path[i].left
      BY <1>2, <2>1, <2>3
    <3>2. QED
      BY <2>1, <3>1 DEF Search, Passed
  <2>4. QED
    BY <2>2, <2>3
<1>5. Covered(q, seen, work)
  BY <1>2 DEF Search, Covered
<1>6. QED
  BY <1>3, <1>4, <1>5 DEF Search, q

\* A white dependency is entered.
LEMMA EnterKeeps ==
    ASSUME TypeOK, path # <<>>, Search(path, seen, work),
           NEW d \in Top.left, d \notin seen, ~Gray(d)
    PROVE  Search(Append(Pass(d), Frame(d)), seen, work)
<1>1. path \in Seq(Frames)
  BY DEF TypeOK, Frames
<1>2. Top = path[Len(path)] /\ d \in IDs /\ Len(path) \in Nat \ {0}
  BY <1>1, TopFacts
<1> DEFINE n == Len(path)
           q == Append(Pass(d), Frame(d))
<1>3. /\ Len(q) = n + 1
      /\ \A i \in 1..n : q[i].node = path[i].node
      /\ \A i \in 1..n : i # n => q[i].left = path[i].left
      /\ q[n].left = path[n].left \ {d}
      /\ q[n + 1].node = d /\ q[n + 1].left = DependenciesOf(d)
  <2>1. /\ Pass(d) \in Seq(Frames) /\ Len(Pass(d)) = n
        /\ \A i \in 1..n : Pass(d)[i].node = path[i].node
        /\ \A i \in 1..n : i # n => Pass(d)[i] = path[i]
        /\ Pass(d)[n].left = path[n].left \ {d}
    BY <1>1, <1>2, PassFacts
  <2>2. Frame(d) \in Frames /\ Frame(d).node = d /\ Frame(d).left = DependenciesOf(d)
    BY <1>2, FrameFacts
  <2>3. Len(q) = n + 1 /\ (\A i \in 1..n : q[i] = Pass(d)[i]) /\ q[n + 1] = Frame(d)
    BY <2>1, <2>2, AppendFacts
  <2>4. n \in 1..n
    BY <1>2
  <2>5. QED
    BY <2>1, <2>2, <2>3, <2>4
<1>4. n \in Nat \ {0} /\ DOMAIN path = 1..n
  BY <1>1, <1>2
<1>5. d \in DependenciesOf(path[n].node)
  BY <1>2, <1>4 DEF Search, Gathered
<1>6. \A i \in 1..n : path[i].node # d
  BY <1>4 DEF Gray
<1> HIDE DEF q, n
<1>7. Gathered(q, seen)
  <2>1. SUFFICES ASSUME NEW i \in 1..(n + 1)
                 PROVE  q[i].left \subseteq DependenciesOf(q[i].node) /\ q[i].node \notin seen
    BY <1>3 DEF Gathered
  <2>2. CASE i = n + 1
    BY <1>3, <2>2
  <2>3. CASE i \in 1..n
    <3>1. path[i].left \subseteq DependenciesOf(path[i].node) /\ path[i].node \notin seen
      BY <2>3 DEF Search, Gathered, n
    <3>2. QED
      BY <1>3, <2>3, <3>1
  <2>4. QED
    BY <1>4, <2>2, <2>3
<1>8. Chained(q)
  <2>1. SUFFICES ASSUME NEW i \in 1..(n + 1), NEW j \in 1..(n + 1), i < j
                 PROVE  /\ q[i].node # q[j].node
                        /\ q[j].node \in Reach(deps, DependenciesOf(q[i].node))
    BY <1>3 DEF Chained
  <2>2. i \in 1..n
    BY <1>4, <2>1
  <2>3. CASE j \in 1..n
    <3>1. /\ path[i].node # path[j].node
          /\ path[j].node \in Reach(deps, DependenciesOf(path[i].node))
      BY <2>1, <2>2, <2>3 DEF Search, Chained, n
    <3>2. QED
      BY <1>3, <2>2, <2>3, <3>1
  <2>4. CASE j = n + 1
    <3>1. path[i].node # d
      BY <1>6, <2>2
    <3>2. d \in Reach(deps, DependenciesOf(path[i].node))
      <4>1. CASE i = n
        BY <1>5, <4>1, DirectlyReached
      <4>2. CASE i # n
        <5>1. i < n /\ n \in 1..n
          BY <1>4, <2>2, <4>2
        <5>2. path[n].node \in Reach(deps, DependenciesOf(path[i].node))
          BY <2>2, <5>1 DEF Search, Chained, n
        <5>3. QED
          BY <1>5, <5>2, FurtherReached
      <4>3. QED
        BY <4>1, <4>2
    <3>3. QED
      BY <1>3, <2>2, <2>4, <3>1, <3>2
  <2>5. QED
    BY <1>4, <2>1, <2>3, <2>4
<1>9. Passed(q, seen)
  <2>1. SUFFICES ASSUME NEW i \in 1..(n + 1),
                        NEW e \in DependenciesOf(q[i].node) \ q[i].left
                 PROVE  e \in seen \/ (i < n + 1 /\ e = q[i + 1].node)
    BY <1>3 DEF Passed
  <2>2. i \in 1..n
    BY <1>3, <1>4, <2>1
  <2>3. CASE e \in path[i].left
    <3>1. i = n /\ e = d
      BY <1>3, <2>1, <2>2, <2>3
    <3>2. QED
      BY <1>3, <1>4, <3>1
  <2>4. CASE e \notin path[i].left
    <3>1. e \in seen \/ (i < n /\ e = path[i + 1].node)
      BY <1>3, <2>1, <2>2, <2>4 DEF Search, Passed, n
    <3>2. i < n => i + 1 \in 1..n
      BY <1>4, <2>2
    <3>3. QED
      BY <1>3, <1>4, <2>2, <3>1, <3>2
  <2>5. QED
    BY <2>3, <2>4
<1>10. Covered(q, seen, work)
  <2>1. SUFFICES ASSUME NEW m \in nodes, m \notin work \cup seen
                 PROVE  \E i \in 1..(n + 1) : q[i].node = m
    BY <1>3 DEF Covered
  <2>2. PICK i \in 1..n : path[i].node = m
    BY <2>1 DEF Search, Covered, n
  <2>3. q[i].node = m /\ i \in 1..(n + 1)
    BY <1>3, <1>4, <2>2
  <2>4. QED
    BY <2>3
<1>11. QED
  BY <1>7, <1>8, <1>9, <1>10 DEF Search, q

\* A node whose dependencies are all black becomes black.
LEMMA BlackenKeeps ==
    ASSUME TypeOK, path # <<>>, Search(path, seen, work), Top.left = {}
    PROVE  Search(Pop, seen \cup {Top.node}, work)
<1>1. path \in Seq(Frames)
  BY DEF TypeOK, Frames
<1> DEFINE n == Len(path)
           B == seen \cup {path[n].node}
<1>2. /\ n \in Nat \ {0} /\ Top = path[n] /\ path[n].node \in IDs
      /\ Len(Pop) = n - 1
      /\ \A i \in 1..(n - 1) : Pop[i] = path[i]
  BY <1>1, TopFacts, PopFacts
<1>3. Gathered(path, seen) /\ Chained(path) /\ Passed(path, seen) /\ Black(seen)
      /\ Covered(path, seen, work)
  BY DEF Search
<1>4. n \in 1..n /\ 1..(n - 1) \subseteq 1..n /\ \A i \in 1..(n - 1) : i < n
  BY <1>2
<1>5. DependenciesOf(path[n].node) \subseteq seen /\ path[n].node \notin seen
  BY <1>2, <1>3, <1>4 DEF Gathered, Passed
<1>6. seen \in SUBSET IDs
  BY DEF TypeOK
<1>7. path[n].node \notin Reach(deps, DependenciesOf(path[n].node))
  BY <1>3, <1>5, <1>6, BlackReach
<1>8. Black(B)
  BY <1>3, <1>5, <1>7 DEF Black
<1>9. \A i \in 1..(n - 1) : path[i].node # path[n].node
  BY <1>3, <1>4 DEF Chained
<1>10. Gathered(Pop, B)
  BY <1>2, <1>3, <1>4, <1>9 DEF Gathered
<1>11. Chained(Pop)
  BY <1>2, <1>3, <1>4 DEF Chained
<1>12. Passed(Pop, B)
  <2>1. SUFFICES ASSUME NEW i \in 1..(n - 1),
                        NEW e \in DependenciesOf(path[i].node) \ path[i].left
                 PROVE  e \in B \/ (i < n - 1 /\ e = Pop[i + 1].node)
    BY <1>2 DEF Passed
  <2>2. e \in seen \/ e = path[i + 1].node
    BY <1>3, <1>4, <2>1 DEF Passed
  <2>3. CASE i + 1 = n
    BY <2>2, <2>3
  <2>4. CASE i + 1 # n
    <3>1. i < n - 1 /\ i + 1 \in 1..(n - 1)
      BY <1>2, <2>4
    <3>2. QED
      BY <1>2, <2>2, <3>1
  <2>5. QED
    BY <2>3, <2>4
<1>13. Covered(Pop, B, work)
  <2>1. SUFFICES ASSUME NEW m \in nodes, m \notin work \cup B
                 PROVE  \E i \in 1..(n - 1) : Pop[i].node = m
    BY <1>2 DEF Covered
  <2>2. PICK i \in 1..n : path[i].node = m
    BY <1>3, <2>1 DEF Covered
  <2>3. i # n
    BY <2>1, <2>2
  <2>4. i \in 1..(n - 1)
    BY <1>2, <2>3
  <2>5. QED
    BY <1>2, <2>2, <2>4
<1>14. QED
  BY <1>2, <1>8, <1>10, <1>11, <1>12, <1>13 DEF Search

\* A gray dependency closes a cycle.
LEMMA GrayIsCycle ==
    ASSUME TypeOK, path # <<>>, Search(path, seen, work), NEW d \in Top.left, Gray(d)
    PROVE  HasCycle
<1>1. path \in Seq(Frames)
  BY DEF TypeOK, Frames
<1> DEFINE n == Len(path)
<1>2. n \in Nat \ {0} /\ Top = path[n] /\ d \in IDs
  BY <1>1, TopFacts
<1>3. d \in DependenciesOf(path[n].node)
  BY <1>2 DEF Search, Gathered
<1>4. PICK i \in 1..n : path[i].node = d
  BY <1>1 DEF Gray
<1>5. d \in Reach(deps, DependenciesOf(d))
  <2>1. CASE i = n
    BY <1>3, <1>4, <2>1, DirectlyReached
  <2>2. CASE i # n
    <3>1. i < n /\ n \in 1..n
      BY <1>2, <2>2
    <3>2. path[n].node \in Reach(deps, DependenciesOf(d))
      BY <1>4, <3>1 DEF Search, Chained
    <3>3. QED
      BY <1>3, <3>2, FurtherReached
  <2>3. QED
    BY <2>1, <2>2
<1>6. QED
  BY <1>2, <1>5 DEF HasCycle

\* With all nodes black there is no cycle.
LEMMA AllBlack ==
    ASSUME TypeOK, Search(<<>>, seen, {})
    PROVE  ~HasCycle
<1>1. SUFFICES ASSUME NEW n \in IDs, n \in Reach(deps, DependenciesOf(n))
               PROVE  FALSE
  BY DEF HasCycle
<1>2. nodes \subseteq seen /\ Black(seen)
  BY DEF Search, Covered
<1>3. CASE n \in nodes
  BY <1>1, <1>2, <1>3 DEF Black
<1>4. CASE n \notin nodes
  <2>1. DependenciesOf(n) = {}
    BY <1>4 DEF DependenciesOf, TypeOK, GraphTypeOK
  <2>2. seen \in SUBSET IDs
    BY DEF TypeOK
  <2>3. Closed(deps, {})
    BY DEF Closed
  <2>4. Reach(deps, DependenciesOf(n)) \subseteq {}
    BY <2>1, <2>3, ReachLeast
  <2>5. QED
    BY <1>1, <2>4
<1>5. QED
  BY <1>3, <1>4

\* The graph is the same after a step of hasCycle.
LEMMA SearchSame ==
    ASSUME UNCHANGED graph, NEW p, NEW B, NEW W, Search(p, B, W), p = path', B = seen', W = work'
    PROVE  Search(path, seen, work)'
BY DEF Search, Gathered, Chained, Passed, Black, Covered, DependenciesOf, Reach, Closed, graph

\* Every step keeps the invariant.
LEMMA NextCycle ==
    ASSUME TypeOK, WalkOK, CycleInv, [Next]_vars
    PROVE  CycleInv'
<1>1. CASE \/ \E n \in IDs, E \in SUBSET IDs : RecordDependency(n, E)
           \/ \E n \in IDs : SetFingerprint(n) \/ Modify(n) \/ MarkRed(n)
           \/ ResetMarks
           \/ \E n \in IDs : GetTransitiveDependents(n) \/ TryMarkGreen(n)
           \/ Visit \/ DependentsFound \/ HasCycleReturns \/ Marked \/ Compare
           \/ \E d \in IDs : Depend(d)
  <2>1. call' \notin {"cycle", "cyclic", "acyclic"}
    BY <1>1 DEF RecordDependency, SetFingerprint, Modify, MarkRed, ResetMarks,
                GetTransitiveDependents, TryMarkGreen, Visit, DependentsFound,
                HasCycleReturns, Marked, Compare, Depend, Idle, walk
  <2>2. QED
    BY <2>1 DEF CycleInv, CycleExact
<1>2. CASE StartHasCycle
  <2>1. UNCHANGED graph /\ call' = "cycle"
        /\ path' = <<>> /\ work' = nodes /\ seen' = {}
    BY <1>2 DEF StartHasCycle, WalkOK, Idle
  <2>2. Search(<<>>, {}, nodes)
    BY DEF Search, Gathered, Chained, Passed, Black, Covered
  <2>3. QED
    BY <2>1, <2>2, SearchSame DEF CycleInv, CycleExact
<1>3. CASE StartNode
  <2>1. PICK n \in work : /\ work' = work \ {n}
                          /\ path' = IF n \in seen THEN path ELSE <<Frame(n)>>
    BY <1>3 DEF StartNode
  <2>2. UNCHANGED graph /\ call = "cycle" /\ call' = "cycle" /\ path = <<>> /\ seen' = seen
    BY <1>3 DEF StartNode
  <2>3. Search(<<>>, seen, work)
    BY <2>2 DEF CycleInv
  <2>4. Search(path', seen, work \ {n})
    BY <2>1, <2>2, <2>3, StartKeeps
  <2>5. QED
    BY <2>1, <2>2, <2>4, SearchSame DEF CycleInv, CycleExact
<1>4. CASE Blacken
  <2>1. UNCHANGED graph /\ call' = "cycle" /\ work' = work
        /\ path' = Pop /\ seen' = seen \cup {Top.node}
    BY <1>4 DEF Blacken
  <2>2. path # <<>> /\ Top.left = {} /\ Search(path, seen, work)
    BY <1>4 DEF Blacken, CycleInv
  <2>3. Search(Pop, seen \cup {Top.node}, work)
    BY <2>2, BlackenKeeps
  <2>4. QED
    BY <2>1, <2>3, SearchSame DEF CycleInv, CycleExact
<1>5. CASE NoCycleFound
  <2>1. Search(<<>>, seen, {}) /\ UNCHANGED graph /\ call' = "acyclic"
    BY <1>5 DEF NoCycleFound, CycleInv
  <2>2. ~HasCycle
    BY <2>1, AllBlack
  <2>3. ~HasCycle'
    BY <2>1, <2>2 DEF HasCycle, Reach, Closed, DependenciesOf, graph
  <2>4. QED
    BY <2>1, <2>3 DEF CycleInv, CycleExact
<1>6. ASSUME NEW d \in IDs, LookAt(d)
      PROVE  CycleInv'
  <2>1. path # <<>> /\ d \in Top.left /\ Search(path, seen, work) /\ UNCHANGED graph
    BY <1>6 DEF LookAt, CycleInv
  <2>2. CASE Gray(d)
    <3>1. call' = "cyclic"
      BY <1>6, <2>2 DEF LookAt
    <3>2. HasCycle
      BY <2>1, <2>2, GrayIsCycle
    <3>3. HasCycle'
      BY <2>1, <3>2 DEF HasCycle, Reach, Closed, DependenciesOf, graph
    <3>4. QED
      BY <3>1, <3>3 DEF CycleInv, CycleExact
  <2>3. CASE ~Gray(d)
    <3>1. /\ path' = IF d \in seen THEN Pass(d) ELSE Append(Pass(d), Frame(d))
          /\ call' = "cycle" /\ seen' = seen /\ work' = work
      BY <1>6, <2>3 DEF LookAt
    <3>2. Search(path', seen, work)
      <4>1. CASE d \in seen
        BY <2>1, <3>1, <4>1, PassKeeps
      <4>2. CASE d \notin seen
        BY <2>1, <2>3, <3>1, <4>2, EnterKeeps
      <4>3. QED
        BY <4>1, <4>2
    <3>3. QED
      BY <2>1, <3>1, <3>2, SearchSame DEF CycleInv, CycleExact
  <2>4. QED
    BY <2>2, <2>3
<1>7. CASE UNCHANGED vars
  BY <1>7 DEF vars, graph, walk, CycleInv, CycleExact, Search, Gathered, Chained, Passed,
              Black, Covered, DependenciesOf, Reach, Closed, HasCycle
<1>8. QED
  BY <1>1, <1>2, <1>3, <1>4, <1>5, <1>6, <1>7 DEF Next, User, Walk

(* hasCycle returns true exactly if some query depends on itself, directly *)
(* or not, in whatever order the nodes are visited.                        *)
THEOREM CycleCorrect == Spec => []CycleExact
<1>1. Init => CycleInv
  BY DEF Init, CycleInv, CycleExact
<1>2. TypeOK /\ WalkOK /\ CycleInv /\ [Next]_vars => TypeOK' /\ WalkOK' /\ CycleInv'
  BY NextTypes, NextCycle
<1>3. CycleInv => CycleExact
  BY DEF CycleInv
<1>4. QED
  BY <1>1, <1>2, <1>3, InitTypes, PTL DEF Spec

-----------------------------------------------------------------------------
(* tryMarkGreen.                                                           *)

\* What holds of the marks m: green queries have a fingerprint, were not
\* marked red by the user and depend on green queries only; red ones depend on
\* a query without a fingerprint or one that the user marked red.
Settled(m) ==
    \A n \in IDs :
        /\ m[n] = "Green" => n \in known \ forced /\ \A d \in DependenciesOf(n) : m[d] = "Green"
        /\ m[n] = "Red" => ~GreenBelow(n)

\* The call stack is a walk along dependencies, from a query that is not
\* marked; queries may be on it twice.
Nested(p) ==
    /\ \A i \in 1..Len(p) : /\ p[i].left \subseteq DependenciesOf(p[i].node)
                            /\ p[i].node \notin forced
    /\ \A i, j \in 1..Len(p) :
          /\ j = i + 1 => p[j].node \in DependenciesOf(p[i].node)
          /\ i < j => p[j].node \in Reach(deps, DependenciesOf(p[i].node))

\* The dependencies that a call has passed are green, the query itself is not.
Waiting(p, m) ==
    \A i \in 1..Len(p) :
        /\ m[p[i].node] # "Green"
        /\ \A d \in DependenciesOf(p[i].node) \ p[i].left : m[d] = "Green"

MarkInv ==
    /\ \A n \in forced : marks[n] = "Red"
    /\ ~stale => Settled(marks)
    /\ call = "mark" => Nested(path) /\ (~stale => Waiting(path, marks))
    /\ call = "overflow" =>
          /\ path # <<>> /\ Len(path) = MaxPath
          /\ Nested(path) /\ Top.left # {}

\* What is reached from a dependency is reached.
LEMMA ReachBelow ==
    ASSUME GraphTypeOK, NEW n \in IDs, NEW d \in DependenciesOf(n)
    PROVE  Reach(deps, {d}) \subseteq Reach(deps, {n})
<1>1. SUFFICES ASSUME NEW C \in SUBSET IDs, {n} \subseteq C, Closed(deps, C)
               PROVE  Reach(deps, {d}) \subseteq C
  BY DEF Reach
<1>2. <<n, d>> \in deps
  BY DEF DependenciesOf
<1>3. d \in C
  <2>1. <<n, d>>[1] = n /\ <<n, d>>[2] = d
    OBVIOUS
  <2>. QED BY <1>1, <1>2, <2>1 DEF Closed
<1>. QED BY <1>1, <1>3, ReachLeast

\* Settled marks are the ones that MarksAreRight asks for.
LEMMA SettledGreen ==
    ASSUME TypeOK, Settled(marks), NEW n \in IDs, marks[n] = "Green"
    PROVE  GreenBelow(n)
<1> DEFINE G == {m \in IDs : marks[m] = "Green"}
<1>1. Closed(deps, G)
  <2>1. SUFFICES ASSUME NEW e \in deps, e[1] \in G PROVE e[2] \in G
    BY DEF Closed
  <2>2. e = <<e[1], e[2]>> /\ e[2] \in IDs
    BY DEF TypeOK, GraphTypeOK
  <2>3. e[2] \in DependenciesOf(e[1])
    BY <2>2 DEF DependenciesOf
  <2>. QED BY <2>1, <2>2, <2>3 DEF Settled
<1>2. Reach(deps, {n}) \subseteq G
  BY <1>1, ReachLeast
<1>. QED BY <1>2 DEF Settled, GreenBelow

\* A red dependency, or a missing fingerprint, is a reason to be red.
LEMMA RedBelow ==
    ASSUME TypeOK, NEW n \in IDs,
           n \notin known \/ n \in forced \/ \E d \in DependenciesOf(n) : ~GreenBelow(d)
    PROVE  ~GreenBelow(n)
<1>1. n \in Reach(deps, {n})
  BY ReachBase
<1>2. ASSUME NEW d \in DependenciesOf(n), ~GreenBelow(d) PROVE ~GreenBelow(n)
  BY <1>2, ReachBelow DEF TypeOK, GreenBelow
<1>. QED BY <1>1, <1>2 DEF GreenBelow

\* With no mark but those that the user made, nothing is green.
LEMMA OnlyForced ==
    ASSUME TypeOK, \A n \in forced : marks[n] = "Red",
           \A n \in IDs \ forced : marks[n] = "Unknown"
    PROVE  Settled(marks)
<1>1. ASSUME NEW n \in IDs, marks[n] = "Red" PROVE ~GreenBelow(n)
  BY <1>1, RedBelow
<1>. QED BY <1>1 DEF Settled

\* The user's steps either keep the marks settled or are remembered.
LEMMA UserMarks ==
    ASSUME TypeOK, TypeOK', MarkInv, ~stale',
           Disturb /\ ((marks' = marks /\ forced' = forced)
                       \/ \E n \in IDs : MarkRed(n))
    PROVE  Settled(marks)'
<1>1. \A n \in IDs \ forced : marks[n] = "Unknown"
  BY DEF Disturb
<1>2. \A n \in forced : marks[n] = "Red"
  BY DEF MarkInv
<1>3. (\A n \in forced : marks[n] = "Red")'
  BY <1>2 DEF MarkRed, TypeOK
<1>4. (\A n \in IDs \ forced : marks[n] = "Unknown")'
  BY <1>1 DEF MarkRed, TypeOK
<1>5. (TypeOK /\ (\A n \in forced : marks[n] = "Red")
       /\ (\A n \in IDs \ forced : marks[n] = "Unknown") => Settled(marks))'
  BY OnlyForced, PTL
<1>. QED BY <1>3, <1>4, <1>5

\* A call that starts.
LEMMA StartMark ==
    ASSUME TypeOK, MarkInv, NEW n \in IDs, marks[n] = "Unknown"
    PROVE  Nested(<<Frame(n)>>) /\ Waiting(<<Frame(n)>>, marks)
<1>1. Len(<<Frame(n)>>) = 1 /\ <<Frame(n)>>[1] = Frame(n)
  OBVIOUS
<1>2. n \notin forced
  BY DEF MarkInv
<1>. QED BY <1>1, <1>2, FrameFacts DEF Nested, Waiting

\* A call that goes on to the dependency d.
LEMMA PushMark ==
    ASSUME TypeOK, MarkInv, path # <<>>, Nested(path), NEW d \in Top.left, marks[d] = "Unknown"
    PROVE  /\ Nested(Append(path, Frame(d)))
           /\ Waiting(path, marks) => Waiting(Append(path, Frame(d)), marks)
<1>1. path \in Seq(Frames)
  BY DEF TypeOK, Frames
<1> DEFINE n == Len(path)
           q == Append(path, Frame(d))
<1>2. n \in Nat \ {0} /\ Top = path[n] /\ d \in IDs
  BY <1>1, TopFacts
<1>3. /\ Len(q) = n + 1 /\ \A i \in 1..n : q[i] = path[i]
      /\ q[n + 1].node = d /\ q[n + 1].left = DependenciesOf(d)
  <2>1. Frame(d) \in Frames /\ Frame(d).node = d /\ Frame(d).left = DependenciesOf(d)
    BY <1>2, FrameFacts
  <2>. QED BY <1>1, <2>1, AppendFacts
<1>4. d \in DependenciesOf(path[n].node) /\ d \notin forced
  BY <1>2 DEF Nested, MarkInv
<1>5. \A i \in 1..(n + 1) : i \in 1..n \/ i = n + 1
  BY <1>2
<1> HIDE DEF q, n
<1>6. ASSUME NEW i \in 1..(n + 1)
      PROVE  q[i].left \subseteq DependenciesOf(q[i].node) /\ q[i].node \notin forced
  BY <1>3, <1>4, <1>5 DEF Nested, n
<1>7. ASSUME NEW i \in 1..n
      PROVE  d \in Reach(deps, DependenciesOf(path[i].node))
  <2>1. CASE i = n
    BY <1>4, <2>1, DirectlyReached
  <2>2. CASE i # n
    <3>1. i < n /\ n \in 1..n
      BY <1>2, <2>2
    <3>2. path[n].node \in Reach(deps, DependenciesOf(path[i].node))
      BY <3>1 DEF Nested, n
    <3>. QED BY <1>4, <3>2, FurtherReached
  <2>. QED BY <2>1, <2>2
<1>8. ASSUME NEW i \in 1..(n + 1), NEW j \in 1..(n + 1)
      PROVE  /\ j = i + 1 => q[j].node \in DependenciesOf(q[i].node)
             /\ i < j => q[j].node \in Reach(deps, DependenciesOf(q[i].node))
  <2>1. CASE j \in 1..n
    <3>1. i \in 1..n \/ (~(i < j) /\ j # i + 1)
      BY <1>2, <2>1
    <3>2. CASE i \in 1..n
      <4>1. /\ j = i + 1 => path[j].node \in DependenciesOf(path[i].node)
            /\ i < j => path[j].node \in Reach(deps, DependenciesOf(path[i].node))
        BY <2>1, <3>2 DEF Nested, n
      <4>. QED BY <1>3, <2>1, <3>2, <4>1
    <3>. QED BY <3>1, <3>2
  <2>2. CASE j = n + 1
    <3>1. i \in 1..n \/ (~(i < j) /\ j # i + 1)
      BY <1>2, <2>2
    <3>2. CASE i \in 1..n
      <4>1. j = i + 1 => i = n
        BY <1>2, <2>2, <3>2
      <4>. QED BY <1>3, <1>4, <1>7, <2>2, <3>2, <4>1
    <3>. QED BY <3>1, <3>2
  <2>. QED BY <1>5, <2>1, <2>2
<1>9. Nested(q)
  BY <1>3, <1>6, <1>8 DEF Nested
<1>10. ASSUME Waiting(path, marks) PROVE Waiting(q, marks)
  BY <1>3, <1>5, <1>10 DEF Waiting, n
<1>. QED BY <1>9, <1>10 DEF q

\* A green dependency is passed.
LEMMA PassMark ==
    ASSUME TypeOK, path # <<>>, Nested(path), NEW d, marks[d] = "Green"
    PROVE  Nested(Pass(d)) /\ (Waiting(path, marks) => Waiting(Pass(d), marks))
<1>1. path \in Seq(Frames)
  BY DEF TypeOK, Frames
<1>2. /\ Len(Pass(d)) = Len(path) /\ Len(path) \in Nat \ {0} /\ Top = path[Len(path)]
      /\ \A i \in 1..Len(path) : Pass(d)[i].node = path[i].node
      /\ \A i \in 1..Len(path) : i # Len(path) => Pass(d)[i] = path[i]
      /\ Pass(d)[Len(path)].left = Top.left \ {d}
  BY <1>1, PassFacts, TopFacts
<1>3. \A i \in 1..Len(path) : Pass(d)[i].left \subseteq path[i].left
                               /\ path[i].left \subseteq Pass(d)[i].left \cup {d}
  BY <1>2
<1>4. Nested(Pass(d))
  BY <1>2, <1>3 DEF Nested
<1>5. ASSUME Waiting(path, marks) PROVE Waiting(Pass(d), marks)
  BY <1>2, <1>3, <1>5 DEF Waiting
<1>. QED BY <1>4, <1>5

\* A call that returns leaves the calls below it.
LEMMA PopMark ==
    ASSUME TypeOK, path # <<>>, Nested(path)
    PROVE  Nested(Pop) /\ \A m : Waiting(path, m) => Waiting(Pop, m)
<1>1. path \in Seq(Frames)
  BY DEF TypeOK, Frames
<1>2. /\ Len(path) \in Nat \ {0} /\ Len(Pop) = Len(path) - 1
      /\ \A i \in 1..Len(Pop) : Pop[i] = path[i]
  BY <1>1, PopFacts
<1>3. 1..Len(Pop) \subseteq 1..Len(path)
  BY <1>2
<1>. QED BY <1>2, <1>3 DEF Nested, Waiting

\* A query becomes red because of a dependency, or without a fingerprint.
LEMMA RedMark ==
    ASSUME TypeOK, MarkInv, call = "mark", path # <<>>, ~stale,
           Top.node \notin known
             \/ \E d \in DependenciesOf(Top.node) : marks[d] = "Red",
           NEW m, m = [marks EXCEPT ![Top.node] = "Red"]
    PROVE  Settled(m) /\ Waiting(Pop, m)
<1>1. path \in Seq(Frames)
  BY DEF TypeOK, Frames
<1>2. /\ Len(path) \in Nat \ {0} /\ Top = path[Len(path)] /\ Top.node \in IDs
      /\ Settled(marks) /\ Nested(path) /\ Waiting(path, marks)
  BY <1>1, TopFacts DEF MarkInv
<1>3. marks[Top.node] # "Green"
  BY <1>2 DEF Waiting
<1>4. ~GreenBelow(Top.node)
  <2>1. \A d \in DependenciesOf(Top.node) : d \in IDs
    BY DEF DependenciesOf
  <2>. QED BY <1>2, <2>1, RedBelow DEF Settled
<1>5. /\ \A n \in IDs : n # Top.node => m[n] = marks[n]
      /\ m[Top.node] = "Red"
  BY <1>2 DEF TypeOK
<1>6. \A n \in IDs : (m[n] = "Green") = (marks[n] = "Green")
  BY <1>3, <1>5
<1>7. \A n : DependenciesOf(n) \subseteq IDs
  BY DEF DependenciesOf
<1>8. Settled(m)
  BY <1>2, <1>4, <1>5, <1>6, <1>7 DEF Settled
<1>9. Waiting(path, m)
  <2>1. \A i \in 1..Len(path) : path[i] \in Frames
    BY <1>1
  <2>2. \A i \in 1..Len(path) : path[i].node \in IDs
    BY <2>1 DEF Frames
  <2>. QED BY <1>2, <1>6, <1>7, <2>2 DEF Waiting
<1>. QED BY <1>2, <1>8, <1>9, PopMark

\* A query becomes green when its dependencies are, and is then on the stack
\* no more: the query above it would have been green before.
LEMMA GreenMark ==
    ASSUME TypeOK, MarkInv, call = "mark", path # <<>>, ~stale,
           Top.left = {}, Top.node \in known,
           NEW m, m = [marks EXCEPT ![Top.node] = "Green"]
    PROVE  Settled(m) /\ Waiting(Pop, m)
<1> DEFINE n == Len(path)
<1>1. path \in Seq(Frames)
  BY DEF TypeOK, Frames
<1>2. /\ n \in Nat \ {0} /\ Top = path[n] /\ Top.node \in IDs
      /\ Settled(marks) /\ Nested(path) /\ Waiting(path, marks)
  BY <1>1, TopFacts DEF MarkInv
<1>3. n \in 1..n /\ Top.node \notin forced
  BY <1>2 DEF Nested
<1>4. \A d \in DependenciesOf(Top.node) : marks[d] = "Green" /\ d \in IDs
  BY <1>2, <1>3 DEF Waiting, DependenciesOf
<1>5. /\ \A k \in IDs : k # Top.node => m[k] = marks[k]
      /\ m[Top.node] = "Green"
  BY <1>2 DEF TypeOK
<1>6. \A k : DependenciesOf(k) \subseteq IDs
  BY DEF DependenciesOf
<1>7. Settled(m)
  BY <1>2, <1>3, <1>4, <1>5, <1>6 DEF Settled
<1>8. ASSUME NEW i \in 1..(n - 1) PROVE path[i].node # Top.node
  <2>1. i \in 1..n /\ i + 1 \in 1..n
    BY <1>2
  <2>2. path[i + 1].node \in DependenciesOf(path[i].node)
    BY <1>2, <2>1 DEF Nested
  <2>3. marks[path[i + 1].node] # "Green"
    BY <1>2, <2>1 DEF Waiting
  <2>. QED BY <1>4, <2>2, <2>3
<1>9. /\ Len(Pop) = n - 1
      /\ \A i \in 1..(n - 1) : Pop[i] = path[i] /\ i \in 1..n
  BY <1>1, <1>2, PopFacts
<1>10. \A i \in 1..n : path[i].node \in IDs
  <2>1. \A i \in 1..n : path[i] \in Frames
    BY <1>1
  <2>. QED BY <2>1 DEF Frames
<1>11. Waiting(Pop, m)
  BY <1>2, <1>5, <1>6, <1>8, <1>9, <1>10 DEF Waiting
<1>. QED BY <1>7, <1>11

\* What the invariants say after a step that leaves the graph, the
\* fingerprints and the user's marks alone.
LEMMA SameMarks ==
    ASSUME UNCHANGED <<graph, known, forced>>, NEW m, NEW p
    PROVE  /\ m = marks' => (Settled(m) <=> Settled(marks)')
           /\ p = path' => (Nested(p) <=> Nested(path)')
           /\ p = path' /\ m = marks' => (Waiting(p, m) <=> Waiting(path, marks)')
<1>1. \A n : DependenciesOf(n) = DependenciesOf(n)'
  BY DEF DependenciesOf, graph
<1>2. \A S : Reach(deps, S) = Reach(deps, S)'
  BY DEF graph
<1>3. \A n : GreenBelow(n) = GreenBelow(n)'
  BY <1>2 DEF GreenBelow
<1>4. m = marks' => (Settled(m) <=> Settled(marks)')
  BY <1>1, <1>3 DEF Settled
<1>5. p = path' => (Nested(p) <=> Nested(path)')
  <2>1. \A n : Reach(deps, DependenciesOf(n)) = Reach(deps, DependenciesOf(n))'
    BY <1>1 DEF Reach, Closed, graph
  <2>. QED BY <1>1, <2>1 DEF Nested
<1>6. p = path' /\ m = marks' => (Waiting(p, m) <=> Waiting(path, marks)')
  BY <1>1 DEF Waiting
<1>. QED BY <1>4, <1>5, <1>6

\* Every step keeps the invariant.
LEMMA NextMark ==
    ASSUME TypeOK, WalkOK, TypeOK', MarkInv, [Next]_vars
    PROVE  MarkInv'
<1>0. path \in Seq(Frames) /\ \A n \in forced : n \in IDs /\ marks[n] = "Red"
  BY DEF TypeOK, Frames, MarkInv
<1>1. ASSUME NEW n \in IDs,
             \/ \E E \in SUBSET IDs : RecordDependency(n, E)
             \/ SetFingerprint(n) \/ Modify(n) \/ MarkRed(n)
      PROVE  MarkInv'
  <2>1. /\ call' = "none" /\ Disturb
        /\ (marks' = marks /\ forced' = forced) \/ MarkRed(n)
    BY <1>1 DEF RecordDependency, SetFingerprint, Modify, MarkRed, Idle, walk
  <2>2. (\A k \in forced : marks[k] = "Red")'
    BY <1>0, <2>1 DEF MarkRed, TypeOK
  <2>3. ~stale' => Settled(marks)'
    BY <2>1, UserMarks
  <2>. QED BY <2>1, <2>2, <2>3 DEF MarkInv
<1>2. CASE ResetMarks
  <2>1. forced' = {} /\ call' = "none" /\ \A n \in IDs : marks'[n] = "Unknown"
    BY <1>2 DEF ResetMarks, Idle, walk
  <2>. QED BY <2>1 DEF MarkInv, Settled
<1>3. CASE \/ \E n \in IDs : GetTransitiveDependents(n)
           \/ StartHasCycle \/ Visit \/ DependentsFound \/ StartNode \/ Blacken
           \/ NoCycleFound \/ HasCycleReturns \/ Marked \/ \E d \in IDs : LookAt(d)
  <2>1. UNCHANGED <<graph, marking>> /\ call' \notin {"mark", "overflow"}
    BY <1>3 DEF GetTransitiveDependents, StartHasCycle, Visit, DependentsFound, StartNode,
                Blacken, NoCycleFound, HasCycleReturns, Marked, LookAt
  <2>2. Settled(marks) <=> Settled(marks)'
    BY <2>1, SameMarks DEF marking
  <2>. QED BY <2>1, <2>2 DEF MarkInv, marking
<1>4. ASSUME NEW n \in IDs, TryMarkGreen(n) PROVE MarkInv'
  <2>1. /\ UNCHANGED <<graph, marking>> /\ call' = "mark" /\ path' = <<Frame(n)>>
        /\ marks[n] = "Unknown"
    BY <1>4 DEF TryMarkGreen
  <2>2. Nested(path') /\ Waiting(path', marks')
    BY <2>1, StartMark DEF marking
  <2>3. (Settled(marks) <=> Settled(marks)') /\ Nested(path)' /\ Waiting(path, marks)'
    BY <2>1, <2>2, SameMarks DEF marking
  <2>. QED BY <2>1, <2>3 DEF MarkInv, marking
<1>5. ASSUME NEW d \in IDs, Depend(d) PROVE MarkInv'
  <2>1. /\ UNCHANGED <<graph, known, forced, stale>> /\ call = "mark" /\ path # <<>>
        /\ d \in Top.left /\ Nested(path) /\ marks \in [IDs -> Colors]
        /\ ~stale => Waiting(path, marks) /\ Settled(marks)
    BY <1>5 DEF Depend, MarkInv, TypeOK
  <2>2. /\ Len(path) \in Nat \ {0} /\ Top = path[Len(path)] /\ Top.node \in IDs
        /\ Top.left \subseteq DependenciesOf(Top.node) /\ Top.node \notin forced
    BY <1>0, <2>1, TopFacts DEF Nested
  <2>3. CASE Fails(d) /\ SetMark(Top.node, "Red") /\ path' = Pop /\ UNCHANGED call
    <3>1. marks' = [marks EXCEPT ![Top.node] = "Red"] /\ marks[d] = "Red"
      BY <2>3 DEF SetMark, Fails
    <3>2. ~stale => Settled(marks') /\ Waiting(path', marks')
      BY <2>1, <2>2, <2>3, <3>1, RedMark
    <3>3. Nested(path')
      BY <2>1, <2>3, PopMark
    <3>4. Nested(path)' /\ (~stale => Settled(marks)' /\ Waiting(path, marks)')
      BY <2>1, <3>2, <3>3, SameMarks
    <3>5. \A n \in forced : marks'[n] = "Red"
      BY <1>0, <2>1, <3>1
    <3>. QED BY <2>1, <2>3, <3>4, <3>5 DEF MarkInv
  <2>4. CASE ~Fails(d) /\ marks[d] # "Unknown" /\ path' = Pass(d) /\ UNCHANGED <<marks, call>>
    <3>1. marks[d] = "Green"
      BY <2>1, <2>4 DEF Colors, Fails
    <3>2. Nested(path') /\ (~stale => Waiting(path', marks'))
      BY <2>1, <2>4, <3>1, PassMark
    <3>3. Nested(path)' /\ (~stale => Settled(marks)' /\ Waiting(path, marks)')
      BY <2>1, <2>4, <3>2, SameMarks
    <3>. QED BY <2>1, <2>4, <3>3 DEF MarkInv
  <2>5. CASE marks[d] = "Unknown" /\ path' = Append(path, Frame(d)) /\ UNCHANGED <<marks, call>>
    <3>1. Nested(path') /\ (~stale => Waiting(path', marks'))
      BY <2>1, <2>5, PushMark
    <3>2. Nested(path)' /\ (~stale => Settled(marks)' /\ Waiting(path, marks)')
      BY <2>1, <2>5, <3>1, SameMarks
    <3>. QED BY <2>1, <2>5, <3>2 DEF MarkInv
  <2>6. CASE Len(path) = MaxPath /\ call' = "overflow" /\ UNCHANGED <<marks, path>>
    <3>1. Nested(path)' /\ (Settled(marks) <=> Settled(marks)')
      BY <2>1, <2>6, SameMarks
    <3>2. Top' = Top
      BY <2>6 DEF Top
    <3>. QED BY <2>1, <2>6, <3>1, <3>2 DEF MarkInv
  <2>. QED BY <1>5, <2>3, <2>4, <2>5, <2>6 DEF Depend
<1>6. CASE Compare
  <2>1. /\ UNCHANGED <<graph, known, forced, stale, call>> /\ call = "mark" /\ path # <<>>
        /\ Top.left = {} /\ Nested(path) /\ path' = Pop
        /\ marks' = [marks EXCEPT ![Top.node] = IF Top.node \in known THEN "Green" ELSE "Red"]
        /\ ~stale => Waiting(path, marks) /\ Settled(marks)
    BY <1>6 DEF Compare, MarkInv, SetMark
  <2>2. /\ Len(path) \in Nat \ {0} /\ Top = path[Len(path)] /\ Top.node \in IDs
        /\ Top.node \notin forced
    BY <1>0, <2>1, TopFacts DEF Nested
  <2>3. ~stale => Settled(marks') /\ Waiting(path', marks')
    BY <2>1, RedMark, GreenMark
  <2>4. Nested(path')
    BY <2>1, PopMark
  <2>5. Nested(path)' /\ (~stale => Settled(marks)' /\ Waiting(path, marks)')
    BY <2>1, <2>3, <2>4, SameMarks
  <2>6. \A n \in forced : marks'[n] = "Red"
    BY <1>0, <2>1, <2>2 DEF TypeOK
  <2>. QED BY <2>1, <2>5, <2>6 DEF MarkInv
<1>7. CASE UNCHANGED vars
  <2>1. UNCHANGED <<graph, marking, walk>> /\ Top' = Top
    BY <1>7 DEF vars, walk, Top
  <2>2. /\ Settled(marks) <=> Settled(marks)'
        /\ Nested(path) <=> Nested(path)'
        /\ Waiting(path, marks) <=> Waiting(path, marks)'
    BY <2>1, SameMarks DEF marking, walk
  <2>. QED BY <2>1, <2>2 DEF MarkInv, marking, walk
<1>. QED BY <1>1, <1>2, <1>3, <1>4, <1>5, <1>6, <1>7 DEF Next, User, Walk

LEMMA MarksHold == Spec => [](TypeOK /\ MarkInv)
<1>1. Init => MarkInv
  BY DEF Init, MarkInv, Settled
<1>2. TypeOK /\ WalkOK /\ MarkInv /\ [Next]_vars => TypeOK' /\ WalkOK' /\ MarkInv'
  BY NextTypes, NextMark
<1>. QED BY <1>1, <1>2, InitTypes, PTL DEF Spec

\* A call stack of as many calls as there are queries, and one more to come.
LEMMA DeepIsCycle ==
    ASSUME TypeOK, path # <<>>, Nested(path), Top.left # {},
           IsFiniteSet(IDs), Cardinality(IDs) <= Len(path)
    PROVE  HasCycle
<1>1. path \in Seq(Frames)
  BY DEF TypeOK, Frames
<1> DEFINE n == Len(path)
<1>2. n \in Nat \ {0} /\ Top = path[n] /\ n \in 1..n
  BY <1>1, TopFacts
<1>3. PICK d : d \in Top.left
  OBVIOUS
<1>4. d \in IDs /\ d \in DependenciesOf(path[n].node)
  BY <1>2, <1>3 DEF Nested, DependenciesOf
<1>5. \A i \in 1..n : path[i].node \in IDs
  <2>1. \A i \in 1..n : path[i] \in Frames
    BY <1>1
  <2>. QED BY <2>1 DEF Frames
<1>6. ASSUME NEW i \in 1..n
      PROVE  d \in Reach(deps, DependenciesOf(path[i].node))
  <2>1. CASE i = n
    BY <1>4, <2>1, DirectlyReached
  <2>2. CASE i # n
    <3>1. i < n
      BY <1>2, <2>2
    <3>2. path[n].node \in Reach(deps, DependenciesOf(path[i].node))
      BY <1>2, <3>1 DEF Nested
    <3>. QED BY <1>4, <3>2, FurtherReached
  <2>. QED BY <2>1, <2>2
<1> DEFINE at == [i \in 1..(n + 1) |-> IF i = n + 1 THEN d ELSE path[i].node]
<1>7. at \in [1..(n + 1) -> IDs]
  <2>1. \A i \in 1..(n + 1) : i # n + 1 => i \in 1..n
    BY <1>2
  <2>. QED BY <1>4, <1>5, <2>1
<1>8. IsFiniteSet(1..(n + 1)) /\ Cardinality(1..(n + 1)) = n + 1
  <2>1. 1 \in Int /\ n + 1 \in Int /\ ~(1 > n + 1) /\ n + 1 - 1 + 1 = n + 1
    BY <1>2
  <2>. QED BY <2>1, FS_Interval
<1>9. Cardinality(IDs) \in Nat
  BY FS_CardinalityType
<1>10. Cardinality(IDs) < Cardinality(1..(n + 1))
  BY <1>2, <1>8, <1>9
<1>11. PICK a \in 1..(n + 1), b \in 1..(n + 1) : a # b /\ at[a] = at[b]
  <2> HIDE DEF at
  <2>. QED BY <1>7, <1>8, <1>10, FS_PigeonHole
<1>12. ASSUME NEW i \in 1..(n + 1), NEW j \in 1..(n + 1), i < j, at[i] = at[j]
       PROVE  HasCycle
  <2>1. i \in 1..n /\ at[i] = path[i].node
    BY <1>2, <1>12
  <2>2. at[j] \in Reach(deps, DependenciesOf(path[i].node))
    <3>1. CASE j = n + 1
      BY <1>6, <2>1, <3>1
    <3>2. CASE j # n + 1
      <4>1. j \in 1..n /\ at[j] = path[j].node
        BY <1>2, <3>2
      <4>. QED BY <1>12, <2>1, <4>1 DEF Nested
    <3>. QED BY <3>1, <3>2
  <2>. QED BY <1>5, <1>12, <2>1, <2>2 DEF HasCycle
<1>13. a < b \/ b < a
  BY <1>2, <1>11
<1>. QED BY <1>11, <1>12, <1>13

(* A green query depends on nothing without a fingerprint and on nothing   *)
(* that was marked red, a red one does, whatever the graph looks like and  *)
(* in whatever order tryMarkGreen takes the dependencies.  It recurs       *)
(* deeper than there are queries only if a query depends on itself.        *)
THEOREM MarksCorrect ==
    ASSUME IsFiniteSet(IDs), Cardinality(IDs) <= MaxPath
    PROVE  Spec => []MarksAreRight
<1>1. TypeOK /\ MarkInv => MarksAreRight
  <2>1. TypeOK /\ MarkInv /\ ~stale => \A n \in IDs : /\ marks[n] = "Green" => GreenBelow(n)
                                                      /\ marks[n] = "Red" => ~GreenBelow(n)
    BY SettledGreen DEF MarkInv, Settled
  <2>2. TypeOK /\ MarkInv /\ call = "overflow" => HasCycle
    BY DeepIsCycle DEF MarkInv
  <2>. QED BY <2>1, <2>2 DEF MarksAreRight
<1>. QED BY <1>1, MarksHold, PTL
=============================================================================
