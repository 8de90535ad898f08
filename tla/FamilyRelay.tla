----------------------------- MODULE FamilyRelay -----------------------------
(***************************************************************************)
(* What the daemon promises to the family bus, without queues, threads,      *)
(* retries or crashes.  An event is the position at which the bus hands it   *)
(* to the daemon, so an event the bus replays is a new position.             *)
(*                                                                         *)
(* ReachDaemon is shown to implement this specification.                     *)
(***************************************************************************)
EXTENDS FamilyTopics

VARIABLES
    bus,       \* the topics handed to the daemon, in order
    taken,     \* the events it dispatched, in the order it dispatched them
    accepted,  \* the events some sendmail accepted a mail for
    acks       \* the acknowledgements it published, in order

vars == <<bus, taken, accepted, acks>>

Ack == [id : Nat, delivered : BOOLEAN]

TypeOK ==
    /\ bus \in Seq(Topics)
    /\ taken \in Seq(Nat)
    /\ accepted \subseteq Nat
    /\ acks \in Seq(Ack)

Init ==
    /\ bus = << >>
    /\ taken = << >>
    /\ accepted = {}
    /\ acks = << >>

\* The event being handled: handlers run one at a time.
Current == taken[Len(taken)]

Unanswered == \A i \in DOMAIN acks : acks[i].id # Current

\* A producer publishes an event.
Publish(k) ==
    /\ bus' = Append(bus, k)
    /\ UNCHANGED <<taken, accepted, acks>>

\* A routed event is dispatched; events of one channel never overtake or
\* repeat one another.
Dispatch(e) ==
    /\ bus[e] \in RoutedTopics
    /\ \A i \in DOMAIN taken : SameLane(bus[taken[i]], bus[e]) => taken[i] < e
    /\ taken' = Append(taken, e)
    /\ UNCHANGED <<bus, accepted, acks>>

\* Some sendmail accepts the mail of the event being handled, always before
\* that event is acknowledged.
Accept ==
    /\ taken # << >>
    /\ Unanswered
    /\ accepted' = accepted \cup {Current}
    /\ UNCHANGED <<bus, taken, acks>>

\* The event being handled is acknowledged, positively only if it was
\* accepted.  The acknowledgement comes back on the bus.
Acknowledge(delivered) ==
    /\ taken # << >>
    /\ bus[Current] \in AckedTopics
    /\ Unanswered
    /\ delivered => Current \in accepted
    /\ acks' = Append(acks, [id |-> Current, delivered |-> delivered])
    /\ bus' = Append(bus, "ack")
    /\ UNCHANGED <<taken, accepted>>

Next ==
    \/ \E k \in Topics \ {"ack"} : Publish(k)
    \/ \E e \in DOMAIN bus : Dispatch(e)
    \/ Accept
    \/ \E delivered \in BOOLEAN : Acknowledge(delivered)

Spec == Init /\ [][Next]_vars

-----------------------------------------------------------------------------
(* Consequences of the promise, checked of the daemon. *)

\* An acknowledgement that says "delivered" is about an event whose mail was
\* accepted (dispatch.rs: the ack carries the transport's result).
TruthfulAcks ==
    \A i \in DOMAIN acks : acks[i].delivered => acks[i].id \in accepted

\* Acknowledgements come out in the order of dispatch, at most one for each
\* event, and only for events that were dispatched (README, criterion 3).
AcksFollowDispatch ==
    \A i, j \in DOMAIN acks : i < j =>
        \E m, n \in DOMAIN taken :
            m < n /\ taken[m] = acks[i].id /\ taken[n] = acks[j].id
=============================================================================
