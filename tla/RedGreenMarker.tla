--------------------------- MODULE RedGreenMarker ---------------------------
(***************************************************************************)
(* The walks over a dependency graph: getTransitiveDependents and hasCycle *)
(* of blocktype/IR/DependencyGraph.cpp, and tryMarkGreen of                *)
(* blocktype/IR/RedGreenMarker.cpp with the rest of RedGreenMarker.        *)
(*                                                                         *)
(* One step visits one node or one dependency.  Between two calls the user *)
(* may extend the graph, set fingerprints and marks.  tryMarkGreen calls   *)
(* itself: path is its call stack, and the explicit stack of hasCycle.     *)
(***************************************************************************)
EXTENDS DependencyGraph

CONSTANT MaxPath     \* bound: the depth of the C++ stack

ASSUME MaxPathAssumption == MaxPath \in Nat /\ MaxPath > 0

VARIABLES
    known,    \* the keys of Fingerprints
    changed,  \* the queries whose fingerprint would now be computed otherwise
              \* than Fingerprints has it
    marks,    \* Marks
    call,     \* the walk that runs, or what hasCycle returns
    arg,      \* getTransitiveDependents: ID
    work,     \* WorkList of getTransitiveDependents, or the rest of AllNodes
    seen,     \* Visited, or the black nodes of hasCycle
    path,     \* the nodes being visited, with the dependencies still to see
    forced,   \* history: the nodes that markRed marked since reset
    stale     \* history: graph, fingerprints or marks were changed by the
              \* user after tryMarkGreen had left marks

marking == <<known, changed, marks, forced, stale>>
walk == <<call, arg, work, seen, path>>
vars == <<graph, marking, walk>>

Colors == {"Green", "Red", "Unknown"}
Idle == call = "none"
Nothing == <<>>

Init ==
    /\ GraphInit
    /\ known = {} /\ changed = {}
    /\ marks = [n \in IDs |-> "Unknown"] /\ forced = {} /\ stale = FALSE
    /\ call = "none" /\ arg = Nothing /\ work = {} /\ seen = {} /\ path = <<>>

-----------------------------------------------------------------------------
(* Between the walks.                                                      *)
Disturb == stale' = (stale \/ \E n \in IDs \ forced : marks[n] # "Unknown")

RecordDependency(d, E) ==
    /\ Idle /\ Record(d, E)
    /\ Disturb
    /\ UNCHANGED <<known, changed, marks, forced, walk>>

SetFingerprint(n) ==
    /\ Idle
    /\ known' = known \cup {n} /\ changed' = changed \ {n}
    /\ Disturb
    /\ UNCHANGED <<graph, marks, forced, walk>>

\* What the query stands for is edited.
Modify(n) ==
    /\ Idle /\ n \in known
    /\ changed' = changed \cup {n}
    /\ Disturb
    /\ UNCHANGED <<graph, known, marks, forced, walk>>

MarkRed(n) ==
    /\ Idle
    /\ marks' = [marks EXCEPT ![n] = "Red"] /\ forced' = forced \cup {n}
    /\ Disturb
    /\ UNCHANGED <<graph, known, changed, walk>>

ResetMarks ==
    /\ Idle
    /\ marks' = [n \in IDs |-> "Unknown"] /\ forced' = {} /\ stale' = FALSE
    /\ UNCHANGED <<graph, known, changed, walk>>

-----------------------------------------------------------------------------
(* getTransitiveDependents.                                                *)
GetTransitiveDependents(n) ==
    /\ Idle
    /\ call' = "dependents" /\ arg' = n
    /\ work' = DependentsOf(n) /\ seen' = {}
    /\ UNCHANGED <<graph, marking, path>>

\* A faulty variant: only the direct dependents are found.
NoNextLevel(n) == {}

NextLevel(n) == DependentsOf(n)

Visit ==
    /\ call = "dependents"
    /\ \E n \in work :
          /\ seen' = seen \cup {n}
          /\ work' = (work \ {n}) \cup (NextLevel(n) \ seen')
    /\ UNCHANGED <<graph, marking, call, arg, path>>

DependentsFound ==
    /\ call = "dependents" /\ work = {}
    /\ call' = "none" /\ arg' = Nothing /\ seen' = {}
    /\ UNCHANGED <<graph, marking, work, path>>

-----------------------------------------------------------------------------
(* hasCycle: seen are the black nodes, the nodes of path the gray ones.    *)
Top == path[Len(path)]
Pop == SubSeq(path, 1, Len(path) - 1)
Frame(n) == [node |-> n, left |-> DependenciesOf(n)]

\* The dependency d of the top node has been looked at.
Pass(d) == [path EXCEPT ![Len(path)].left = @ \ {d}]

StartHasCycle ==
    /\ Idle
    /\ call' = "cycle" /\ work' = nodes /\ seen' = {}
    /\ UNCHANGED <<graph, marking, arg, path>>

\* A node of AllNodes that is not black starts a search.
StartNode ==
    /\ call = "cycle" /\ path = <<>>
    /\ \E n \in work :
          /\ work' = work \ {n}
          /\ path' = IF n \in seen THEN path ELSE <<Frame(n)>>
    /\ UNCHANGED <<graph, marking, call, arg, seen>>

\* A faulty variant: two colours.
VisitedBefore(n) == n \in seen \/ \E i \in DOMAIN path : path[i].node = n

Gray(n) == \E i \in DOMAIN path : path[i].node = n

LookAt(d) ==
    /\ call = "cycle" /\ path # <<>> /\ d \in Top.left
    /\ \/ /\ Gray(d)
          /\ call' = "cyclic" /\ path' = <<>> /\ seen' = {} /\ work' = {}
       \/ /\ ~Gray(d)
          /\ path' = IF d \in seen THEN Pass(d) ELSE Append(Pass(d), Frame(d))
          /\ UNCHANGED <<call, seen, work>>
    /\ UNCHANGED <<graph, marking, arg>>

Blacken ==
    /\ call = "cycle" /\ path # <<>> /\ Top.left = {}
    /\ seen' = seen \cup {Top.node} /\ path' = Pop
    /\ UNCHANGED <<graph, marking, call, arg, work>>

NoCycleFound ==
    /\ call = "cycle" /\ path = <<>> /\ work = {}
    /\ call' = "acyclic" /\ seen' = {}
    /\ UNCHANGED <<graph, marking, arg, work, path>>

HasCycleReturns ==
    /\ call \in {"cyclic", "acyclic"}
    /\ call' = "none"
    /\ UNCHANGED <<graph, marking, arg, work, seen, path>>

-----------------------------------------------------------------------------
(* tryMarkGreen.                                                           *)
TryMarkGreen(n) ==
    /\ Idle /\ marks[n] = "Unknown"
    /\ call' = "mark" /\ path' = <<Frame(n)>>
    /\ UNCHANGED <<graph, marking, arg, work, seen>>

SetMark(n, c) == marks' = [marks EXCEPT ![n] = c]

\* A faulty variant: a red dependency that was met before is passed over.
FailsOnNothing(d) == FALSE

Fails(d) == marks[d] = "Red"

\* A dependency is red, or green, or visited first; the caller comes back to
\* it when the visit has left its mark.  No mark says that a node is being
\* visited.
Depend(d) ==
    /\ call = "mark" /\ path # <<>> /\ d \in Top.left
    /\ \/ Fails(d) /\ SetMark(Top.node, "Red") /\ path' = Pop /\ UNCHANGED call
       \/ ~Fails(d) /\ marks[d] # "Unknown" /\ path' = Pass(d)
          /\ UNCHANGED <<marks, call>>
       \/ marks[d] = "Unknown" /\ Len(path) < MaxPath
          /\ path' = Append(path, Frame(d)) /\ UNCHANGED <<marks, call>>
       \/ marks[d] = "Unknown" /\ Len(path) = MaxPath
          /\ call' = "overflow" /\ UNCHANGED <<marks, path>>
    /\ UNCHANGED <<graph, known, changed, forced, stale, arg, work, seen>>

\* getFingerprint is compared with itself: it has changed only if the node
\* has none.
Compare ==
    /\ call = "mark" /\ path # <<>> /\ Top.left = {}
    /\ SetMark(Top.node, IF Top.node \in known THEN "Green" ELSE "Red")
    /\ path' = Pop
    /\ UNCHANGED <<graph, known, changed, forced, stale, call, arg, work, seen>>

Marked ==
    /\ call = "mark" /\ path = <<>>
    /\ call' = "none"
    /\ UNCHANGED <<graph, marking, arg, work, seen, path>>

User ==
    \/ \E n \in IDs, E \in SUBSET IDs : RecordDependency(n, E)
    \/ \E n \in IDs : SetFingerprint(n) \/ Modify(n) \/ MarkRed(n)
    \/ ResetMarks
    \/ \E n \in IDs : GetTransitiveDependents(n) \/ TryMarkGreen(n)
    \/ StartHasCycle

Walk ==
    \/ Visit \/ DependentsFound
    \/ StartNode \/ Blacken \/ NoCycleFound \/ HasCycleReturns
    \/ \E d \in IDs : LookAt(d) \/ Depend(d)
    \/ Compare \/ Marked

Next == User \/ Walk

Spec == Init /\ [][Next]_vars

-----------------------------------------------------------------------------
(* Properties.                                                             *)

\* The type invariant.
TypeOK ==
    /\ GraphTypeOK
    /\ known \subseteq IDs /\ changed \subseteq known
    /\ marks \in [IDs -> Colors]
    /\ call \in {"none", "dependents", "cycle", "cyclic", "acyclic", "mark", "overflow"}
    /\ arg \in IDs \cup {Nothing}
    /\ work \subseteq IDs /\ seen \subseteq IDs
    /\ path \in Seq([node : IDs, left : SUBSET IDs])
    /\ forced \subseteq IDs /\ stale \in BOOLEAN

(* getTransitiveDependents finds everything that depends on its argument,  *)
(* and nothing else, cycles or not: invalidate relies on it.               *)
DependentsExact ==
    call = "dependents" /\ work = {} => seen = AllDependents(arg)

(* hasCycle answers whether there is a cycle, in whatever order the nodes  *)
(* are visited: a node reached twice is not a cycle.                       *)
CycleExact ==
    /\ call = "cyclic" => HasCycle
    /\ call = "acyclic" => ~HasCycle

(* A green query depends on nothing without a fingerprint and on nothing   *)
(* that was marked red, a red one does; and tryMarkGreen recurs for ever   *)
(* only if there is a cycle.                                               *)
GreenBelow(n) == Reach(deps, {n}) \subseteq known \ forced

MarksAreRight ==
    /\ ~stale => \A n \in IDs : /\ marks[n] = "Green" => GreenBelow(n)
                                /\ marks[n] = "Red" => ~GreenBelow(n)
    /\ call = "overflow" => HasCycle

(* "Compute the current fingerprint, compare it with the cached one, if they *)
(* differ mark red" (RedGreenMarker.cpp:50-55): a green query depends on     *)
(* nothing that was edited after its fingerprint was set.  It does not hold: *)
(* the cached fingerprint is compared with itself.                           *)
GreenIsCurrent ==
    ~stale => \A n \in IDs :
                  marks[n] = "Green" => Reach(deps, {n}) \cap changed = {}
=============================================================================
