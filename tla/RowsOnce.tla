-------------------------------- MODULE RowsOnce --------------------------------
(***************************************************************************)
(* What iterate() promises to the statements that call it (doc/report.tex, *)
(* the section on queries): the callback runs for every combination of     *)
(* rows that WHERE accepts, once for each, and for no other, and then the  *)
(* iteration ends.  In which order is not promised.                        *)
(***************************************************************************)
EXTENDS Naturals

VARIABLES
    wanted,     \* the combinations of rows WHERE accepts
    given,      \* those the callback has had
    calls,      \* how often it ran
    ended

Call ==
    /\ ~ended
    /\ \E m \in wanted \ given : given' = given \cup {m}
    /\ calls' = calls + 1
    /\ UNCHANGED <<wanted, ended>>

End ==
    /\ given = wanted
    /\ ended' = TRUE
    /\ UNCHANGED <<wanted, given, calls>>

Start == given = {} /\ calls = 0 /\ ended = FALSE

Protocol == Start /\ [][Call \/ End]_<<wanted, given, calls, ended>>

Iteration == Protocol /\ <>ended
=============================================================================
