-------------------------- MODULE DependencyGraph --------------------------
(***************************************************************************)
(* ir::DependencyGraph of blocktype/IR/DependencyGraph.cpp: which query    *)
(* depends on which, and the queries that have a fingerprint.              *)
(*                                                                         *)
(* The lists of the code are sets of pairs here; the order of a list only  *)
(* decides the order in which a walk visits it.                            *)
(***************************************************************************)
EXTENDS Naturals, Sequences, FiniteSets

CONSTANTS
    IDs,         \* QueryIDs
    MaxEdges     \* bound: dependencies recorded

ASSUME DependencyGraphAssumption == MaxEdges \in Nat

VARIABLES
    nodes,       \* the keys of Dependencies
    deps,        \* Dependencies: <<d, e>> if d depends on e
    dependents   \* Dependents: <<e, d>> if d depends on e

graph == <<nodes, deps, dependents>>

GraphInit == nodes = {} /\ deps = {} /\ dependents = {}

\* A faulty variant: a dependency whose ends are both known is not added to
\* Dependents.
RecordKnown(d, E) ==
    /\ Cardinality(deps \cup ({d} \X E)) <= MaxEdges
    /\ nodes' = nodes \cup {d} \cup E
    /\ deps' = deps \cup ({d} \X E)
    /\ dependents' = IF {d} \cup E \subseteq nodes THEN dependents
                     ELSE dependents \cup (E \X {d})

\* recordDependency(d, E)
Record(d, E) ==
    /\ Cardinality(deps \cup ({d} \X E)) <= MaxEdges
    /\ nodes' = nodes \cup {d} \cup E
    /\ deps' = deps \cup ({d} \X E)
    /\ dependents' = dependents \cup (E \X {d})

\* getDependencies and getDependents
DependenciesOf(n) == {e \in IDs : <<n, e>> \in deps}
DependentsOf(n) == {d \in IDs : <<n, d>> \in dependents}

-----------------------------------------------------------------------------
(* Reference definitions.                                                  *)

\* The nodes that edges R lead to from the nodes of S, S included: the least
\* set that holds S and is closed under R.
Closed(R, C) == \A e \in R : e[1] \in C => e[2] \in C
Reach(R, S) == {n \in IDs : \A C \in SUBSET IDs : S \subseteq C /\ Closed(R, C) => n \in C}

\* Everything that depends on n, directly or not.
AllDependents(n) == Reach(dependents, DependentsOf(n))

HasCycle == \E n \in IDs : n \in Reach(deps, DependenciesOf(n))

GraphTypeOK ==
    /\ nodes \subseteq IDs
    /\ deps \subseteq nodes \X nodes
    /\ dependents = {<<e[2], e[1]>> : e \in deps}
=============================================================================
