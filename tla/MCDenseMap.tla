----------------------------- MODULE MCDenseMap -----------------------------
(* Four keys, three of them with the same home bucket; a table of four     *)
(* buckets that may double once.                                           *)
EXTENDS DenseMap

MCHash == [a |-> 3, b |-> 3, c |-> 7, d |-> 2]
MCKeys == DOMAIN MCHash
=============================================================================
