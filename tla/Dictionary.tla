----------------------------- MODULE Dictionary -----------------------------
(***************************************************************************)
(* What DenseMap promises its users: a finite map.  insert and operator[]  *)
(* never overwrite an entry; a write goes through a reference to one.      *)
(***************************************************************************)
CONSTANTS Keys, Values

VARIABLE dict     \* a function from the keys that have an entry

Nothing == [k \in {} |-> {}]

Init == dict = Nothing

Insert(k, v) ==
    /\ k \notin DOMAIN dict
    /\ dict' = [x \in DOMAIN dict \cup {k} |-> IF x = k THEN v ELSE dict[x]]

Write(k, v) == k \in DOMAIN dict /\ dict' = [dict EXCEPT ![k] = v]

Erase(k) ==
    /\ k \in DOMAIN dict
    /\ dict' = [x \in DOMAIN dict \ {k} |-> dict[x]]

Clear == dict' = Nothing

Next ==
    \/ \E k \in Keys, v \in Values : Insert(k, v) \/ Write(k, v)
    \/ \E k \in Keys : Erase(k)
    \/ Clear

Spec == Init /\ [][Next]_dict
=============================================================================
