----------------------------- MODULE MCDiskCache -----------------------------
(* Two compilers that share two entries, one of IR and one of object code. *)
EXTENDS DiskCache, TLC

IRAndObject == {<<1, "ir">>, <<2, "obj">>}
Same == Permutations(Procs)
=============================================================================
