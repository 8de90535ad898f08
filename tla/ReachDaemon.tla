----------------------------- MODULE ReachDaemon -----------------------------
(***************************************************************************)
(* The wm-reach daemon: a subscriber task that moves bus events into two      *)
(* bounded channels, a dispatcher that drains them, distress first, the       *)
(* sendmail calls of each handler, the acknowledgement, and systemd.          *)
(*                                                                         *)
(* The subscriber and the dispatcher run on different threads, so their       *)
(* steps interleave anywhere, also between the dispatcher's two polls.        *)
(* An event is its position in "bus".  Nothing of this is persisted.          *)
(***************************************************************************)
EXTENDS FamilyTopics, FiniteSets

CONSTANTS
    DistressCap,    \* capacity of the distress channel (64)
    NormalCap,      \* capacity of the normal channel (256)
    MaxRetries,     \* DistressPolicy::max_retries
    U32Max,         \* the largest u32
    MaxEvents,      \* bound: events the producers publish
    MaxFaults       \* bound: connections lost, acks lost, crashes

ASSUME DaemonAssumption ==
    /\ DistressCap \in Nat \ {0}
    /\ NormalCap \in Nat \ {0}
    /\ U32Max \in Nat \ {0}
    /\ MaxRetries \in 0 .. U32Max
    /\ MaxEvents \in Nat
    /\ MaxFaults \in Nat

VARIABLES
    bus,        \* the topics the bus handed out, the daemon's acks included
    cursor,     \* the last event the subscriber read
    base,       \* where the present subscription starts
    sub,        \* where the subscriber task is
    distressQ,  \* the distress channel
    normalQ,    \* the normal channel
    disp,       \* where the dispatcher is
    tries,      \* sendmail calls that returned for the current event
    delivered,  \* whether one of them accepted the mail
    proc,       \* the process, as systemd sees it
    faults,     \* faults so far
    taken,      \* history: the events dispatched, in order
    accepted,   \* history: the events some sendmail accepted
    acks,       \* history: the acks published, in order
    passed      \* history: normal events dispatched since the first waiting
                \* distress could have been

streamVars == <<cursor, base, sub, distressQ, normalQ>>
handlerVars == <<disp, tries, delivered>>
historyVars == <<taken, accepted, acks>>
vars == <<bus, cursor, base, sub, distressQ, normalQ, disp, tries, delivered,
          proc, faults, taken, accepted, acks, passed>>

Ended == {"endedOk", "endedErr"}
SubStates == {"connecting", "reading", "sending", "gone"} \cup Ended
DispStates == {"pollDistress", "pollNormal", "parked", "calling", "backoff",
               "acking", "saving", "done", "gone"}
Ack == [id : Nat, delivered : BOOLEAN]

TypeOK ==
    /\ bus \in Seq(Topics)
    /\ cursor \in Nat
    /\ base \in Nat
    /\ sub \in SubStates
    /\ distressQ \in Seq(Nat)
    /\ normalQ \in Seq(Nat)
    /\ disp \in DispStates
    /\ tries \in Nat
    /\ delivered \in BOOLEAN
    /\ proc \in {"up", "failed", "exited"}
    /\ faults \in 0 .. MaxFaults
    /\ taken \in Seq(Nat)
    /\ accepted \subseteq Nat
    /\ acks \in Seq(Ack)
    /\ passed \in Nat

Current == taken[Len(taken)]
Topic == bus[Current]

Init ==
    /\ bus = << >>
    /\ cursor = 0
    /\ base = 0
    /\ sub = "connecting"
    /\ distressQ = << >>
    /\ normalQ = << >>
    /\ disp = "pollDistress"
    /\ tries = 0
    /\ delivered = FALSE
    /\ proc = "up"
    /\ faults = 0
    /\ taken = << >>
    /\ accepted = {}
    /\ acks = << >>
    /\ passed = 0

Fault == faults < MaxFaults /\ faults' = faults + 1

-----------------------------------------------------------------------------
(* The producers on the bus. *)

Publish(k) ==
    /\ Len(bus) - Len(acks) < MaxEvents
    /\ bus' = Append(bus, k)
    /\ UNCHANGED <<streamVars, handlerVars, proc, faults, historyVars, passed>>

-----------------------------------------------------------------------------
(* The subscriber task. *)

\* Faulty variant: the cursor starts one event early.
ConnectOneEarly ==
    /\ sub = "connecting"
    /\ sub' = "reading"
    /\ cursor' = Len(bus) - 1
    /\ base' = Len(bus)
    /\ UNCHANGED <<bus, distressQ, normalQ, handlerVars, proc, faults,
                   historyVars, passed>>

\* connect, announce and the three subscribes; only later events arrive.
Connect ==
    /\ sub = "connecting"
    /\ sub' = "reading"
    /\ cursor' = Len(bus)
    /\ base' = Len(bus)
    /\ UNCHANGED <<bus, distressQ, normalQ, handlerVars, proc, faults,
                   historyVars, passed>>

\* One of those calls returns an error.
ConnectFails ==
    /\ Fault
    /\ sub = "connecting"
    /\ sub' = "endedErr"
    /\ UNCHANGED <<bus, cursor, base, distressQ, normalQ, handlerVars, proc,
                   historyVars, passed>>

\* next_event returns; the daemon's own acks and other topics are skipped.
ReadEvent ==
    /\ sub = "reading"
    /\ cursor < Len(bus)
    /\ cursor' = cursor + 1
    /\ sub' = IF bus[cursor'] \in RoutedTopics THEN "sending" ELSE "reading"
    /\ UNCHANGED <<bus, base, distressQ, normalQ, handlerVars, proc, faults,
                   historyVars, passed>>

\* Faulty variant: the newest distress goes to the front.
SendDistressInFront ==
    /\ sub = "sending"
    /\ bus[cursor] = "distress"
    /\ Len(distressQ) < DistressCap
    /\ distressQ' = <<cursor>> \o distressQ
    /\ sub' = "reading"
    /\ UNCHANGED <<bus, cursor, base, normalQ, handlerVars, proc, faults,
                   historyVars, passed>>

\* distress_tx.send(..).await: waits while the channel is full.
SendDistress ==
    /\ sub = "sending"
    /\ bus[cursor] = "distress"
    /\ Len(distressQ) < DistressCap
    /\ distressQ' = Append(distressQ, cursor)
    /\ sub' = "reading"
    /\ UNCHANGED <<bus, cursor, base, normalQ, handlerVars, proc, faults,
                   historyVars, passed>>

\* Faulty variant: try_send, which drops the event when the channel is full.
SendNormalOrDrop ==
    /\ sub = "sending"
    /\ bus[cursor] \in NormalTopics
    /\ normalQ' = IF Len(normalQ) < NormalCap THEN Append(normalQ, cursor) ELSE normalQ
    /\ sub' = "reading"
    /\ UNCHANGED <<bus, cursor, base, distressQ, handlerVars, proc, faults,
                   historyVars, passed>>

\* normal_tx.send(..).await: waits while the channel is full.
SendNormal ==
    /\ sub = "sending"
    /\ bus[cursor] \in NormalTopics
    /\ Len(normalQ) < NormalCap
    /\ normalQ' = Append(normalQ, cursor)
    /\ sub' = "reading"
    /\ UNCHANGED <<bus, cursor, base, distressQ, handlerVars, proc, faults,
                   historyVars, passed>>

\* next_event returns None (the bus closed the connection) or an error; both
\* senders are dropped and the task ends with the result.
StreamEnds(end) ==
    /\ Fault
    /\ sub = "reading"
    /\ sub' = end
    /\ UNCHANGED <<bus, cursor, base, distressQ, normalQ, handlerVars, proc,
                   historyVars, passed>>

Subscriber == Connect \/ ReadEvent \/ SendDistress \/ SendNormal

-----------------------------------------------------------------------------
(* The dispatcher: one biased select polls the distress channel, then the    *)
(* normal channel.                                                           *)

\* A handler starts on event e; a gated one may decide to send nothing.
Take(e) ==
    /\ taken' = Append(taken, e)
    /\ tries' = 0
    /\ delivered' = FALSE
    /\ \/ disp' = "calling"
       \/ bus[e] \in GatedTopics /\ disp' = "pollDistress"
    /\ UNCHANGED <<bus, cursor, base, sub, proc, faults, accepted, acks>>

TakeDistress ==
    /\ disp = "pollDistress"
    /\ distressQ # << >>
    /\ Take(Head(distressQ))
    /\ distressQ' = Tail(distressQ)
    /\ passed' = 0
    /\ UNCHANGED normalQ

\* recv returned None: the loop breaks, whatever the normal channel holds.
BreakOnDistress ==
    /\ disp = "pollDistress"
    /\ distressQ = << >>
    /\ sub \in Ended
    /\ disp' = "done"
    /\ UNCHANGED <<bus, streamVars, tries, delivered, proc, faults, historyVars,
                   passed>>

\* Faulty variant: the dispatcher waits for distress alone.
SkipDistressAndPark ==
    /\ disp = "pollDistress"
    /\ distressQ = << >>
    /\ sub \notin Ended
    /\ disp' = "parked"
    /\ UNCHANGED <<bus, streamVars, tries, delivered, proc, faults, historyVars,
                   passed>>

SkipDistress ==
    /\ disp = "pollDistress"
    /\ distressQ = << >>
    /\ sub \notin Ended
    /\ disp' = "pollNormal"
    /\ UNCHANGED <<bus, streamVars, tries, delivered, proc, faults, historyVars,
                   passed>>

TakeNormal ==
    /\ disp = "pollNormal"
    /\ normalQ # << >>
    /\ Take(Head(normalQ))
    /\ normalQ' = Tail(normalQ)
    /\ passed' = IF distressQ = << >> THEN passed ELSE passed + 1
    /\ UNCHANGED distressQ

\* Faulty variant: the loop goes on without the channel.
ContinueOnNormal ==
    /\ disp = "pollNormal"
    /\ normalQ = << >>
    /\ sub \in Ended
    /\ disp' = "pollDistress"
    /\ UNCHANGED <<bus, streamVars, tries, delivered, proc, faults, historyVars,
                   passed>>

\* recv returned None: the loop breaks, whatever the distress channel holds.
BreakOnNormal ==
    /\ disp = "pollNormal"
    /\ normalQ = << >>
    /\ sub \in Ended
    /\ disp' = "done"
    /\ UNCHANGED <<bus, streamVars, tries, delivered, proc, faults, historyVars,
                   passed>>

\* Both polls returned pending; a send or the end of the subscriber wakes it.
Park ==
    /\ disp = "pollNormal"
    /\ normalQ = << >>
    /\ sub \notin Ended
    /\ disp' = "parked"
    /\ UNCHANGED <<bus, streamVars, tries, delivered, proc, faults, historyVars,
                   passed>>

\* Faulty variant: recv left no waker with the normal channel.
WokenByDistress == distressQ # << >> \/ sub \in Ended

\* recv left a waker with both channels: a send, or the end of the senders,
\* calls it.
Woken == distressQ # << >> \/ normalQ # << >> \/ sub \in Ended

Wake ==
    /\ disp = "parked"
    /\ Woken
    /\ disp' = "pollDistress"
    /\ UNCHANGED <<bus, streamVars, tries, delivered, proc, faults, historyVars,
                   passed>>

Poll == \/ TakeDistress \/ BreakOnDistress \/ SkipDistress
        \/ TakeNormal \/ BreakOnNormal \/ Park \/ Wake

-----------------------------------------------------------------------------
(* The handlers: they run inside the select's branch, so the dispatcher       *)
(* polls nothing until they return.                                          *)

\* Faulty variant: max_retries counted twice.
AttemptsOffByOne == IF Topic \in LadderTopics THEN 2 + MaxRetries ELSE 1

Attempts == IF Topic \in LadderTopics
            THEN IF MaxRetries = U32Max THEN U32Max ELSE 1 + MaxRetries
            ELSE 1

\* Faulty variant: the handler returns without an ack.
SettledSilently == "saving"

\* After the last call: publish the ack, or persist the handler's state.
Settled == IF Topic \in AckedTopics THEN "acking" ELSE "saving"

\* sendmail exits with status 0.
SendmailAccepts ==
    /\ disp = "calling"
    /\ tries' = tries + 1
    /\ delivered' = TRUE
    /\ accepted' = accepted \cup {Current}
    /\ disp' = Settled
    /\ UNCHANGED <<bus, streamVars, proc, faults, taken, acks, passed>>

\* It cannot be spawned, written to or waited for, or exits with another
\* status; the mail may have been accepted all the same.
SendmailFails ==
    /\ disp = "calling"
    /\ tries' = tries + 1
    /\ accepted' \in {accepted, accepted \cup {Current}}
    /\ delivered' = FALSE
    /\ disp' = IF tries' < Attempts THEN "backoff" ELSE Settled
    /\ UNCHANGED <<bus, streamVars, proc, faults, taken, acks, passed>>

SendmailReturns == SendmailAccepts \/ SendmailFails

Backoff ==
    /\ disp = "backoff"
    /\ disp' = "calling"
    /\ UNCHANGED <<bus, streamVars, tries, delivered, proc, faults, historyVars,
                   passed>>

\* Faulty variants: the ack always says "delivered"; it may be published again;
\* after it the dispatcher goes on with normal events.
PublishAckOptimistic ==
    /\ disp = "acking"
    /\ acks' = Append(acks, [id |-> Current, delivered |-> TRUE])
    /\ bus' = Append(bus, "ack")
    /\ disp' = "pollDistress"
    /\ UNCHANGED <<streamVars, tries, delivered, proc, faults, taken, accepted,
                   passed>>

PublishAckAgain ==
    /\ disp = "acking"
    /\ acks' = Append(acks, [id |-> Current, delivered |-> delivered])
    /\ bus' = Append(bus, "ack")
    /\ disp' \in {"acking", "pollDistress"}
    /\ UNCHANGED <<streamVars, tries, delivered, proc, faults, taken, accepted,
                   passed>>

PublishAckThenNormal ==
    /\ disp = "acking"
    /\ acks' = Append(acks, [id |-> Current, delivered |-> delivered])
    /\ bus' = Append(bus, "ack")
    /\ disp' = "pollNormal"
    /\ UNCHANGED <<streamVars, tries, delivered, proc, faults, taken, accepted,
                   passed>>

\* publish_ack on a connection of its own; the bus echoes the ack.
PublishAck ==
    /\ disp = "acking"
    /\ acks' = Append(acks, [id |-> Current, delivered |-> delivered])
    /\ bus' = Append(bus, "ack")
    /\ disp' = "pollDistress"
    /\ UNCHANGED <<streamVars, tries, delivered, proc, faults, taken, accepted,
                   passed>>

\* Connecting, announcing or publishing fails; the daemon only logs it.
AckFails ==
    /\ Fault
    /\ disp = "acking"
    /\ disp' = "pollDistress"
    /\ UNCHANGED <<bus, streamVars, tries, delivered, proc, historyVars, passed>>

\* The nudge or deaf-escalation handler writes its state file, or skips it.
SaveState ==
    /\ disp = "saving"
    /\ disp' = "pollDistress"
    /\ UNCHANGED <<bus, streamVars, tries, delivered, proc, faults, historyVars,
                   passed>>

-----------------------------------------------------------------------------
(* The process and systemd (Restart=on-failure). *)

\* The memory of the process is lost, both channels included.
Stopped ==
    /\ sub' = "gone"
    /\ disp' = "gone"
    /\ distressQ' = << >>
    /\ normalQ' = << >>
    /\ tries' = 0
    /\ delivered' = FALSE
    /\ passed' = 0
    /\ base' = cursor
    /\ UNCHANGED <<bus, cursor, taken, acks>>

\* Faulty variant: run swallows the subscriber's error.
ExitCleanly ==
    /\ disp = "done"
    /\ sub \in Ended
    /\ Stopped
    /\ proc' = "exited"
    /\ UNCHANGED <<faults, accepted>>

\* run awaits the subscriber's result and main returns it.
Exit ==
    /\ disp = "done"
    /\ sub \in Ended
    /\ Stopped
    /\ proc' = IF sub = "endedOk" THEN "exited" ELSE "failed"
    /\ UNCHANGED <<faults, accepted>>

\* Killed at any point; a sendmail that is running may still accept.
Crash ==
    /\ Fault
    /\ proc = "up"
    /\ Stopped
    /\ proc' = "failed"
    /\ \/ accepted' = accepted
       \/ disp = "calling" /\ accepted' = accepted \cup {Current}

Restart ==
    /\ proc = "failed"
    /\ proc' = "up"
    /\ sub' = "connecting"
    /\ disp' = "pollDistress"
    /\ UNCHANGED <<bus, cursor, base, distressQ, normalQ, tries, delivered,
                   faults, historyVars, passed>>

-----------------------------------------------------------------------------
Next ==
    \/ \E k \in Topics \ {"ack"} : Publish(k)
    \/ Connect
    \/ ConnectFails
    \/ ReadEvent
    \/ SendDistress
    \/ SendNormal
    \/ \E end \in Ended : StreamEnds(end)
    \/ TakeDistress
    \/ BreakOnDistress
    \/ SkipDistress
    \/ TakeNormal
    \/ BreakOnNormal
    \/ Park
    \/ Wake
    \/ SendmailAccepts
    \/ SendmailFails
    \/ Backoff
    \/ PublishAck
    \/ AckFails
    \/ SaveState
    \/ Exit
    \/ Crash
    \/ Restart

Spec == Init /\ [][Next]_vars

\* The runtime polls a woken task, the handlers' calls return and systemd
\* restarts a failed unit after RestartSec.
Handler == Backoff \/ PublishAck \/ SaveState
Fairness ==
    /\ WF_vars(Subscriber)
    /\ WF_vars(Poll)
    /\ WF_vars(Handler)
    /\ WF_vars(Exit)
    /\ WF_vars(Restart)

FairSpec == Spec /\ Fairness /\ WF_vars(SendmailReturns)

\* Without the assumption that sendmail exits: deliver waits with no timeout.
HangingSpec == Spec /\ Fairness

-----------------------------------------------------------------------------
(* What the daemon promises to the bus, and how its handlers climb the ladder. *)

Relay == INSTANCE FamilyRelay

\* Dispatch order, acknowledgements and their truth, as FamilyRelay states
\* them: queues, retries, lost connections and crashes never break them
\* (README, criteria 3 and 5).
KeepsRelayPromise == Relay!Spec

\* The acknowledgements say only what is true of the mail, and come out in the
\* order of dispatch, one for each event, across crashes and restarts
\* (README, criteria 3 and 5).
TruthfulAcks == Relay!TruthfulAcks
AcksFollowDispatch == Relay!AcksFollowDispatch

OnLadder == taken # << >> /\ Topic \in LadderTopics

LadderPhase ==
    IF ~OnLadder \/ disp \notin {"calling", "backoff", "acking", "saving"} THEN "idle"
    ELSE IF disp = "calling" THEN "primary"
    ELSE IF disp = "backoff" THEN "backoff"
    ELSE IF delivered THEN "delivered" ELSE "exhausted"

LadderCalls ==
    IF LadderPhase = "idle" THEN << >>
    ELSE [i \in 1 .. tries |->
            [by |-> 0,
             outcome |-> IF i = tries /\ delivered THEN "delivered" ELSE "nack"]]

\* Both callers pass an empty fallback slice (dispatch.rs:170,
\* deaf_escalation.rs:257).
Ladder == INSTANCE DistressLadder
            WITH MaxFallbacks <- 0, phase <- LadderPhase, calls <- LadderCalls,
                 policy <- [retries |-> MaxRetries, fallbacks |-> 0]

\* Distress and deaf alerts go through the ladder of distress_delivery.rs,
\* call by call, whatever happens to the process in between.
ClimbsTheLadder == Ladder!Spec

-----------------------------------------------------------------------------
(* Safety. *)

\* The event the subscriber has read and not yet put in a channel.
Held == IF sub = "sending" THEN {cursor} ELSE {}

Elements(q) == {q[i] : i \in DOMAIN q}

\* Within a channel, events are dispatched in the order of the bus and never
\* twice, across restarts as well (one FIFO channel for each priority).
InOrder ==
    \A i, j \in DOMAIN taken :
        i < j /\ SameLane(bus[taken[i]], bus[taken[j]]) => taken[i] < taken[j]

\* Until the process stops, every routed event read since it subscribed is in
\* the subscriber's hands, in a channel or dispatched: none is dropped on a
\* full channel or at a race of the two polls (daemon.rs:229-249).
NothingLostInside ==
    \A e \in base + 1 .. cursor :
        bus[e] \in RoutedTopics =>
            e \in Held \cup Elements(distressQ) \cup Elements(normalQ)
                 \cup Elements(taken)

\* While a distress waits in its channel at most one normal event is
\* dispatched, the one a poll already under way may find (daemon.rs:88-96).
BoundedOvertaking == passed <= 1

\* A dispatched message or distress goes unanswered only because of a fault:
\* at most one for each, besides the one being handled (README, criterion 5).
AnsweredUnlessFault ==
    LET answered == {acks[i].id : i \in DOMAIN acks}
        missing == {i \in DOMAIN taken :
                      bus[taken[i]] \in AckedTopics /\ taken[i] \notin answered}
        busy == IF disp \in {"calling", "backoff", "acking"} THEN 1 ELSE 0
    IN  Cardinality(missing) <= faults + busy

-----------------------------------------------------------------------------
(* Progress, whatever is fair. *)

\* One of the two tasks has a step to take and need not wait for the other.
SubscriberGoesOn ==
    \/ sub = "connecting"
    \/ sub = "reading" /\ cursor < Len(bus)
    \/ sub = "sending" /\ bus[cursor] = "distress" /\ Len(distressQ) < DistressCap
    \/ sub = "sending" /\ bus[cursor] # "distress" /\ Len(normalQ) < NormalCap

DispatcherGoesOn ==
    \/ disp \in {"pollDistress", "pollNormal", "calling", "backoff", "acking", "saving"}
    \/ disp = "parked" /\ Woken
    \/ disp = "done" /\ sub \in Ended

\* The two tasks of a running daemon never wait for one another, however small
\* the channels: they rest only when every routed event of the subscription
\* was dispatched (daemon.rs:87-96, 229-249).
RestsOnlyWhenDone ==
    \/ proc # "up"
    \/ SubscriberGoesOn
    \/ DispatcherGoesOn
    \/ \A e \in base + 1 .. Len(bus) :
          bus[e] \in RoutedTopics => e \in Elements(taken)

\* What the handler, the subscriber and the select still have to do before the
\* next event can be dispatched.
HandlerWork ==
    IF disp = "calling" THEN 2 * (Attempts - tries) + 2
    ELSE IF disp = "backoff" THEN 2 * (Attempts - tries) + 3
    ELSE IF disp \in {"acking", "saving"} THEN 1 ELSE 0

StreamWork ==
    2 * (Len(bus) - cursor) + (IF sub \in {"connecting", "sending"} THEN 1 ELSE 0)

\* A distress that came between the two polls costs a round of its own.
Overlooked == normalQ = << >> /\ distressQ # << >> /\ sub \notin Ended

PollWork ==
    IF disp = "pollDistress" THEN 2
    ELSE IF disp = "pollNormal" THEN IF Overlooked THEN 4 ELSE 1
    ELSE IF disp = "parked" /\ Woken THEN 3 ELSE 0

\* A step of the daemon alone: nothing fails, no producer publishes and systemd
\* has no part in it.
OwnStep ==
    /\ faults' = faults
    /\ proc' = proc
    /\ bus' = bus \/ acks' # acks

LessToDo ==
    \/ HandlerWork' < HandlerWork
    \/ HandlerWork' = HandlerWork /\ StreamWork' < StreamWork
    \/ HandlerWork' = HandlerWork /\ StreamWork' = StreamWork /\ PollWork' < PollWork

StepIsProgress ==
    OwnStep => \/ Len(taken') = Len(taken) + 1
               \/ taken' = taken /\ LessToDo

\* The daemon never runs in circles: a step of its own dispatches an event or
\* leaves less to do before the next one, so between two outside events its
\* loops, the select's polls, parks and wake-ups (daemon.rs:87-176), the
\* retries and the stream loop (daemon.rs:216), come to rest.
EveryStepIsProgress == [][StepIsProgress]_vars

-----------------------------------------------------------------------------
(* Liveness.  Every event brings at most one ack, so 2 * MaxEvents bounds the  *)
(* positions on the bus.                                                     *)

\* If nothing fails, every routed event that arrives after the subscription
\* is dispatched, however full the channels get.
EventuallyDispatched ==
    \A e \in 1 .. 2 * MaxEvents :
        (sub \in {"reading", "sending"} /\ base < e /\ e <= Len(bus)
            /\ bus[e] \in RoutedTopics)
        ~> (e \in Elements(taken) \/ faults > 0)

\* If nothing fails, the handler of every message and distress acknowledges it.
EventuallyAnswered ==
    \A e \in 1 .. 2 * MaxEvents :
        (e \in Elements(taken) /\ bus[e] \in AckedTopics)
        ~> ((\E i \in DOMAIN acks : acks[i].id = e) \/ faults > 0)

\* After a crash or an error of the bus the daemon finishes what it is doing,
\* ends with a failure and, restarted by systemd, subscribes again.
Resubscribes == (sub = "endedErr" \/ proc = "failed") ~> (sub = "reading")

-----------------------------------------------------------------------------
(* What the documents say and the code does not do. *)

\* README.md:9: distress bypasses any normal queue; it never waits behind a
\* normal event for which the normal channel has no room.
BypassesNormalQueue ==
    sub = "sending" /\ bus[cursor] \in NormalTopics /\ Len(normalQ) = NormalCap
        => \A e \in cursor + 1 .. Len(bus) : bus[e] # "distress"

\* README.md:9,15: a published message results in one delivery and one ack, a
\* distress with the highest priority; here, what reached its channel before
\* the connection ended.
QueuedNotDropped ==
    disp = "done" => Elements(distressQ) \cup Elements(normalQ) = {}

\* distress_delivery.rs:8-9 and dispatch.rs:147-148: a second distress is not
\* starved by the delivery of the first.
SecondDistressNotStarved ==
    \A e \in 1 .. 2 * MaxEvents :
        (e \in Elements(distressQ)) ~> (e \in Elements(taken) \/ proc # "up")
=============================================================================
