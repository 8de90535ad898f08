------------------------------- MODULE Debounce -------------------------------
(***************************************************************************)
(* What the debounce of silence_nudge.rs and of deaf_escalation.rs promises:  *)
(* a notice is not given twice in a row, unless it has become due again or *)
(* a fault made the program forget, and each fault is worth one repetition.   *)
(* The nudge counts a notice that a transport accepted, the escalation one    *)
(* that was tried, accepted or not.                                          *)
(***************************************************************************)
EXTENDS Naturals

CONSTANT Notices    \* what there is to tell: a window, an outage, its end

VARIABLES
    last,       \* the notice given last
    due,        \* it may be given again
    repeats,    \* notices given again that should not have been
    faults      \* faults so far

vars == <<last, due, repeats, faults>>

Init == last \in Notices /\ due = FALSE /\ repeats = 0 /\ faults = 0

Notify(n) ==
    /\ last' = n
    /\ due' = FALSE
    /\ repeats' = IF n = last /\ ~due THEN repeats + 1 ELSE repeats
    /\ repeats' <= faults'

Next ==
    \/ (\E n \in Notices : Notify(n)) /\ UNCHANGED faults
    \/ due' = TRUE /\ UNCHANGED <<last, repeats, faults>>
    \/ /\ faults' = faults + 1
       /\ (\E n \in Notices : Notify(n)) \/ UNCHANGED <<last, due, repeats>>

Spec == Init /\ [][Next]_vars
=============================================================================
