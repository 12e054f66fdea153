------------------------ MODULE MCConcurrentRequest ------------------------
(* Two callers share a manager; one has a request more than the other.     *)
EXTENDS ConcurrentRequest

MCSize == [c1 |-> 2, c2 |-> 1]
=============================================================================
