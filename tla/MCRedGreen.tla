----------------------------- MODULE MCRedGreen -----------------------------
(* Three queries that are alike, and graphs of a few dependencies.         *)
EXTENDS RedGreenMarker, TLC

Alike == Permutations(IDs)
=============================================================================
