-------------------------------- MODULE Inbox --------------------------------
(***************************************************************************)
(* What the inbound channel promises of each mail, whoever polls and however  *)
(* often: it leaves the mailbox in one step and for good; if its sender is     *)
(* allowed it is then in the hands of somebody who speaks it, once; and only a *)
(* failure of the one who has it in hand can lose it.                         *)
(*                                                                         *)
(* MaildirInbound is shown to implement this specification.                   *)
(***************************************************************************)
EXTENDS Naturals

CONSTANT Messages   \* the mails that arrive

VARIABLES
    kind,       \* what becomes of each mail
    place,      \* where each mail is in its life
    spoken,     \* how often each mail was spoken
    faults      \* failures so far

vars == <<kind, place, spoken, faults>>

Init ==
    /\ place = [m \in Messages |-> "unsent"]
    /\ spoken = [m \in Messages |-> 0]
    /\ faults = 0

Goes(m, from, to) ==
    /\ place[m] = from
    /\ place' = [place EXCEPT ![m] = to]

Arrive(m) ==
    /\ Goes(m, "unsent", "mailbox")
    /\ UNCHANGED <<kind, spoken, faults>>

\* A mail that nobody may send, or nobody can parse, is put aside.
Consume(m) ==
    /\ kind[m] # "unreadable"
    /\ Goes(m, "mailbox", IF kind[m] = "allowed" THEN "in hand" ELSE "dropped")
    /\ UNCHANGED <<kind, spoken, faults>>

Speak(m) ==
    /\ Goes(m, "in hand", "done")
    /\ spoken' = [spoken EXCEPT ![m] = @ + 1]
    /\ UNCHANGED <<kind, faults>>

\* Something fails, and some of what is in hand is gone.
Fail ==
    /\ faults' = faults + 1
    /\ \E lost \in SUBSET {m \in Messages : place[m] = "in hand"} :
          place' = [m \in Messages |-> IF m \in lost THEN "lost" ELSE place[m]]
    /\ UNCHANGED <<kind, spoken>>

Next ==
    \/ \E m \in Messages : Arrive(m) \/ Consume(m) \/ Speak(m)
    \/ Fail

Spec == Init /\ [][Next]_vars
=============================================================================
