--------------------------- MODULE DistressDelivery ---------------------------
(***************************************************************************)
(* handle_distress and on_hearing_fail up to the end of the ladder, in full:  *)
(* the ladder of distress_delivery.rs over the email transport, one sendmail  *)
(* after the other.  A primary of another kind and the fallbacks are calls    *)
(* that return any outcome.                                                  *)
(***************************************************************************)
EXTENDS DistressLadder, EmailTransport

VARIABLE primary    \* the kind of the primary transport

deliveryVars == <<vars, primary, mailVars>>

DeliveryTypeOK ==
    /\ TypeOK
    /\ primary \in {"email", "other"}
    /\ MailTypeOK

DeliveryInit ==
    /\ Init
    /\ primary = "email"
    /\ MailInit

\* A caller enters the ladder with the transport its configuration names.
Enter ==
    /\ \E p \in Policies : Start(p)
    /\ primary' \in {"email", "other"}
    /\ UNCHANGED mailVars

\* The primary is the email transport, in the middle of deliver.
Delivering == phase = "primary" /\ primary = "email"

EmailStep ==
    /\ Delivering
    /\ MailStep
    /\ UNCHANGED <<vars, primary>>

\* The email transport never returns Err.
EmailReturns ==
    /\ Delivering /\ pc = "returned"
    /\ PrimaryReturns(IF result THEN "delivered" ELSE "nack")
    /\ Reset
    /\ UNCHANGED <<primary, copies, faults>>

OtherReturns(outcome) ==
    /\ primary = "other"
    /\ PrimaryReturns(outcome)
    /\ UNCHANGED <<primary, mailVars>>

\* The ladder's steps between two calls of the primary.
Between ==
    /\ Backoff \/ \E outcome \in Outcomes : FallbackReturns(outcome)
    /\ UNCHANGED <<primary, mailVars>>

\* The next distress starts afresh.
Forget ==
    /\ Reset
    /\ copies' = 0 /\ faults' = 0
    /\ UNCHANGED primary

Taken == Leave /\ Forget

\* The daemon is killed, and sendmail with it.
Killed ==
    /\ Die
    /\ Forget

DeliveryNext ==
    \/ Enter
    \/ EmailStep
    \/ EmailReturns
    \/ \E outcome \in Outcomes : OtherReturns(outcome)
    \/ Between
    \/ Taken
    \/ Killed

DeliverySpec == DeliveryInit /\ [][DeliveryNext]_deliveryVars

\* Calls return, sendmail comes to an end of its own, and so does what it
\* leaves behind.
FairDeliverySpec ==
    /\ DeliverySpec
    /\ WF_deliveryVars(Delivering /\ Deliver /\ UNCHANGED <<vars, primary>>)
    /\ WF_deliveryVars(Delivering /\ Sendmail /\ UNCHANGED <<vars, primary>>)
    /\ WF_deliveryVars(Delivering /\ HelperEnds /\ UNCHANGED <<vars, primary>>)
    /\ WF_deliveryVars(EmailReturns)
    /\ WF_deliveryVars(\E outcome \in Outcomes : OtherReturns(outcome))
    /\ WF_deliveryVars(Between)

-----------------------------------------------------------------------------
\* A recipient gets the alert once, however many attempts it takes: a second
\* copy, be it a fragment, needs a call that failed after sendmail had queued
\* one.
OneCopyUnlessFault == copies <= 1 + faults

LadderWork == CallWork + (IF phase = "backoff" THEN 1 ELSE 0)

\* A step inside a running ladder completes one of its calls, or leaves less
\* to do for the call that is under way.
StepCounts ==
    phase \in Running /\ phase' \in Running =>
        \/ Len(calls') = Len(calls) + 1 /\ Len(calls') < Attempts + policy.fallbacks
        \/ calls' = calls /\ LadderWork' < LadderWork

\* "Bounded", whatever is fair: with no more calls than the policy has and
\* less to do after each step, nothing in the retries
\* (distress_delivery.rs:51-72) or in the transport goes round and round.
EveryStepCounts == [][StepCounts]_deliveryVars

\* "Bounded": the ladder finishes, unless the mail and the diagnostics of
\* sendmail fill a pipe each and the two processes wait for one another
\* (transport.rs:92 writes all of the mail before it reads any of stderr).
LadderEnds ==
    (phase \in Running) ~> (phase \in Finished \cup {"idle"} \/ BothPipesFull)
=============================================================================
