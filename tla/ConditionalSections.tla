------------------------ MODULE ConditionalSections ------------------------
(***************************************************************************)
(* What #if ... #elif ... #else ... #endif promise, without the flags that *)
(* handleIfDirective and its companions keep: of the groups of a section   *)
(* the first whose condition holds is read, and nothing is read inside a   *)
(* group that is not.  Preprocessor implements this specification.         *)
(*                                                                         *)
(* A section is "waiting" for a group to take, "active" in the group it    *)
(* took, "done" after it, or "dead" because it was opened in a group that  *)
(* is not read.                                                            *)
(***************************************************************************)
EXTENDS Naturals, Sequences

VARIABLE secs     \* the open sections, outermost first

Status == {"waiting", "active", "done", "dead"}

TypeOK == secs \in Seq([status : Status, els : BOOLEAN])

\* Text is read.
Reading == \A i \in DOMAIN secs : secs[i].status = "active"

Init == secs = <<>>

Start(c) ==
    secs' = Append(secs,
              [status |-> IF ~Reading THEN "dead"
                          ELSE IF c THEN "active" ELSE "waiting",
               els |-> FALSE])

\* The next group, with condition c; e says that it is the #else group.
Continue(c, e) ==
    LET n == Len(secs)
        s == secs[n].status
    IN  /\ secs # <<>> /\ ~secs[n].els
        /\ secs' = [secs EXCEPT ![n] =
                      [status |-> CASE s = "active" -> "done"
                                    [] s = "waiting" /\ c -> "active"
                                    [] OTHER -> s,
                       els |-> e]]

Finish == secs # <<>> /\ secs' = SubSeq(secs, 1, Len(secs) - 1)

Clear == secs' = <<>>

Next ==
    \/ \E c \in BOOLEAN : Start(c)
    \/ \E c \in BOOLEAN : Continue(c, FALSE)
    \/ Continue(TRUE, TRUE)
    \/ Finish
    \/ Clear

Spec == Init /\ [][Next]_secs
=============================================================================
