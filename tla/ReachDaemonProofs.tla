-------------------------- MODULE ReachDaemonProofs --------------------------
(***************************************************************************)
(* Proofs about the daemon for all channel capacities, retries, events and    *)
(* faults.                                                                   *)
(***************************************************************************)
EXTENDS ReachDaemon, SequenceTheorems, TLAPS

-----------------------------------------------------------------------------
(* The inductive invariant behind InOrder, NothingLostInside,                 *)
(* BoundedOvertaking and KeepsRelayPromise.                                  *)

\* The last event that has left the subscriber's hands.
LastSent == IF sub = "sending" THEN cursor - 1 ELSE cursor

\* A handler runs on an event that was dispatched.
BusyOnTaken ==
    disp \in {"calling", "backoff", "acking", "saving"} => taken # << >>

\* A process that is down has neither task.
DownIsGone ==
    proc # "up" => sub = "gone" /\ disp = "gone"

\* The subscriber holds only events it routes, of the present subscription.
ReadsRoutedEvents ==
    /\ base <= cursor
    /\ cursor <= Len(bus)
    /\ sub = "sending" => base < cursor /\ bus[cursor] \in RoutedTopics

\* A channel holds events of its own topics that were sent, in bus order.
SortedChannel(q, topics) ==
    /\ \A i \in DOMAIN q : q[i] \in 1 .. LastSent /\ bus[q[i]] \in topics
    /\ \A i, j \in DOMAIN q : i < j => q[i] < q[j]

\* What was dispatched precedes what waits in the same channel.
TakenBefore(q) ==
    \A i \in DOMAIN taken, j \in DOMAIN q :
        SameLane(bus[taken[i]], bus[q[j]]) => taken[i] < q[j]

TakenWereSent ==
    \A i \in DOMAIN taken : taken[i] \in 1 .. LastSent /\ bus[taken[i]] \in RoutedTopics

\* A normal event passed a distress that still waits, and the dispatcher polls
\* the distress channel before it polls the normal one again.
PassedOnce ==
    passed # 0 => passed = 1 /\ distressQ # << >> /\ disp # "pollNormal"

\* The event being handled has no ack yet, and what its ack will say is true.
AnswersCurrent ==
    /\ \A i \in DOMAIN acks : acks[i].id \in Elements(taken)
    /\ disp \in {"calling", "backoff", "acking"} =>
          \A i \in DOMAIN acks : acks[i].id # Current
    /\ disp = "acking" =>
          Topic \in AckedTopics /\ (delivered => Current \in accepted)

Inductive ==
    /\ BusyOnTaken
    /\ DownIsGone
    /\ ReadsRoutedEvents
    /\ SortedChannel(distressQ, {"distress"})
    /\ SortedChannel(normalQ, NormalTopics)
    /\ TakenWereSent
    /\ TakenBefore(distressQ)
    /\ TakenBefore(normalQ)
    /\ InOrder
    /\ NothingLostInside
    /\ PassedOnce
    /\ AnswersCurrent

-----------------------------------------------------------------------------
(* Lemmas about sequences. *)

\* What sending into a channel, or recording in a history, does to a sequence.
LEMMA AppendFacts ==
    ASSUME NEW S, NEW s \in Seq(S), NEW e \in S
    PROVE  /\ Append(s, e) \in Seq(S)
           /\ Append(s, e) # << >>
           /\ Len(Append(s, e)) = Len(s) + 1
           /\ DOMAIN Append(s, e) = DOMAIN s \cup {Len(s) + 1}
           /\ \A i \in DOMAIN s : Append(s, e)[i] = s[i]
           /\ Append(s, e)[Len(s) + 1] = e
           /\ DOMAIN s = 1 .. Len(s)
           /\ Len(s) \in Nat
  <1>1. /\ Append(s, e) \in Seq(S)
        /\ Len(Append(s, e)) = Len(s) + 1
        /\ \A i \in 1 .. Len(s) : Append(s, e)[i] = s[i]
        /\ Append(s, e)[Len(s) + 1] = e
    BY AppendProperties
  <1>2. Len(s) \in Nat /\ DOMAIN s = 1 .. Len(s)
    BY LenProperties
  <1>3. DOMAIN Append(s, e) = 1 .. Len(Append(s, e))
    BY <1>1, LenProperties
  <1>4. 1 .. Len(s) + 1 = 1 .. Len(s) \cup {Len(s) + 1}
    BY <1>2
  <1>5. Append(s, e) # << >>
    BY <1>1, <1>2, EmptySeq
  <1> QED
    BY <1>1, <1>2, <1>3, <1>4, <1>5

\* What receiving from a channel does to it.
LEMMA TailFacts ==
    ASSUME NEW S, NEW s \in Seq(S), s # << >>
    PROVE  /\ Head(s) = s[1]
           /\ Head(s) \in S
           /\ 1 \in DOMAIN s
           /\ Tail(s) \in Seq(S)
           /\ DOMAIN s = 1 .. Len(s)
           /\ Len(s) \in Nat \ {0}
           /\ Len(Tail(s)) = Len(s) - 1
           /\ DOMAIN Tail(s) = 1 .. Len(s) - 1
           /\ \A i \in DOMAIN Tail(s) : i + 1 \in DOMAIN s /\ Tail(s)[i] = s[i + 1]
  <1>1. /\ Head(s) \in S
        /\ Tail(s) \in Seq(S)
        /\ Len(Tail(s)) = Len(s) - 1
        /\ \A i \in 1 .. Len(Tail(s)) : Tail(s)[i] = s[i + 1]
    BY HeadTailProperties
  <1>2. Len(s) \in Nat \ {0} /\ DOMAIN s = 1 .. Len(s)
    BY LenProperties, EmptySeq
  <1>3. DOMAIN Tail(s) = 1 .. Len(s) - 1
    BY <1>1, LenProperties
  <1>4. Head(s) = s[1]
    OBVIOUS
  <1> QED
    BY <1>1, <1>2, <1>3, <1>4

\* The events in a channel, or in a history, after one more or one less.
LEMMA ElementsOfAppend ==
    ASSUME NEW S, NEW s \in Seq(S), NEW e \in S
    PROVE  Elements(Append(s, e)) = Elements(s) \cup {e}
  <1> DEFINE t == Append(s, e)
  <1>1. /\ DOMAIN t = DOMAIN s \cup {Len(s) + 1}
        /\ \A i \in DOMAIN s : t[i] = s[i]
        /\ t[Len(s) + 1] = e
    BY AppendFacts
  <1> HIDE DEF t
  <1>2. {t[i] : i \in DOMAIN t} = {s[i] : i \in DOMAIN s} \cup {e}
    BY <1>1
  <1> QED
    BY <1>2 DEF Elements, t

\* Receiving from a channel removes its first event and no other.
LEMMA ElementsOfTail ==
    ASSUME NEW S, NEW s \in Seq(S), s # << >>
    PROVE  Elements(s) = Elements(Tail(s)) \cup {Head(s)}
  <1> DEFINE t == Tail(s)
  <1>1. /\ Head(s) = s[1]
        /\ DOMAIN s = 1 .. Len(s)
        /\ Len(s) \in Nat \ {0}
        /\ DOMAIN t = 1 .. Len(s) - 1
        /\ \A i \in DOMAIN t : t[i] = s[i + 1]
    BY TailFacts
  <1> HIDE DEF t
  <1>2. ASSUME NEW x, x \in {s[i] : i \in DOMAIN s}
        PROVE  x \in {t[i] : i \in DOMAIN t} \cup {Head(s)}
    <2>1. PICK i \in DOMAIN s : x = s[i]
      BY <1>2
    <2>2. CASE i = 1
      BY <1>1, <2>1, <2>2
    <2>3. CASE i # 1
      <3>1. i - 1 \in DOMAIN t /\ t[i - 1] = s[i]
        BY <1>1, <2>1, <2>3
      <3> QED
        BY <2>1, <3>1
    <2> QED
      BY <2>2, <2>3
  <1>3. ASSUME NEW x, x \in {t[i] : i \in DOMAIN t} \cup {Head(s)}
        PROVE  x \in {s[i] : i \in DOMAIN s}
    <2>1. CASE x = Head(s)
      BY <1>1, <2>1
    <2>2. CASE x \in {t[i] : i \in DOMAIN t}
      <3>1. PICK i \in DOMAIN t : x = t[i]
        BY <2>2
      <3>2. i + 1 \in DOMAIN s /\ t[i] = s[i + 1]
        BY <1>1, <3>1
      <3> QED
        BY <3>1, <3>2
    <2> QED
      BY <1>3, <2>1, <2>2
  <1>4. {s[i] : i \in DOMAIN s} = {t[i] : i \in DOMAIN t} \cup {Head(s)}
    BY <1>2, <1>3
  <1> QED
    BY <1>4 DEF Elements, t

-----------------------------------------------------------------------------
(* Type correctness. *)

\* The typing of one step, which needs that handlers run on a taken event.
Typed == TypeOK /\ BusyOnTaken /\ DownIsGone

\* The daemon starts with every variable in its type.
LEMMA TypedInit == Init => Typed
  <1> SUFFICES ASSUME Init PROVE Typed
    OBVIOUS
  <1>1. << >> \in Seq(Topics) /\ << >> \in Seq(Nat) /\ << >> \in Seq(Ack)
    BY EmptySeq
  <1>2. 0 \in 0 .. MaxFaults
    BY DaemonAssumption
  <1> QED
    BY <1>1, <1>2 DEF Init, Typed, TypeOK, BusyOnTaken, DownIsGone, SubStates, DispStates

\* Once something was dispatched, the current event is a position on the bus.
LEMMA CurrentType ==
    ASSUME TypeOK, taken # << >>
    PROVE  Current \in Nat /\ Len(taken) \in DOMAIN taken
  <1>1. taken \in Seq(Nat)
    BY DEF TypeOK
  <1>2. Len(taken) \in Nat \ {0} /\ DOMAIN taken = 1 .. Len(taken)
    BY <1>1, LenProperties, EmptySeq
  <1>3. Len(taken) \in 1 .. Len(taken)
    BY <1>2
  <1> QED
    BY <1>1, <1>2, <1>3, ElementOfSeq DEF Current

\* No step of the subscriber, the dispatcher, a handler or systemd leaves the
\* types, or runs a handler on nothing.
LEMMA TypedNext == Typed /\ [Next]_vars => Typed'
  <1> SUFFICES ASSUME Typed, [Next]_vars PROVE Typed'
    OBVIOUS
  <1> USE DEF Typed, TypeOK, BusyOnTaken, DownIsGone
  <1>f. faults < MaxFaults => faults + 1 \in 0 .. MaxFaults
    BY DaemonAssumption
  <1>1. CASE UNCHANGED vars
    BY <1>1 DEF vars
  <1>2. ASSUME NEW k \in Topics \ {"ack"}, Publish(k) PROVE Typed'
    <2>1. bus' \in Seq(Topics)
      BY <1>2, AppendFacts DEF Publish
    <2> QED
      BY <1>2, <2>1 DEF Publish, streamVars, handlerVars, historyVars
  <1>3. CASE Connect
    <2>1. Len(bus) \in Nat
      BY LenProperties
    <2> QED
      BY <1>3, <2>1 DEF Connect, handlerVars, historyVars, SubStates
  <1>4. CASE ConnectFails
    BY <1>4, <1>f DEF ConnectFails, Fault, handlerVars, historyVars, SubStates, Ended
  <1>5. CASE ReadEvent
    BY <1>5 DEF ReadEvent, handlerVars, historyVars, SubStates
  <1>6. CASE SendDistress
    <2>1. distressQ' \in Seq(Nat)
      BY <1>6, AppendFacts DEF SendDistress
    <2> QED
      BY <1>6, <2>1 DEF SendDistress, handlerVars, historyVars, SubStates
  <1>7. CASE SendNormal
    <2>1. normalQ' \in Seq(Nat)
      BY <1>7, AppendFacts DEF SendNormal
    <2> QED
      BY <1>7, <2>1 DEF SendNormal, handlerVars, historyVars, SubStates
  <1>8. ASSUME NEW end \in Ended, StreamEnds(end) PROVE Typed'
    BY <1>8, <1>f DEF StreamEnds, Fault, handlerVars, historyVars, SubStates
  <1>9. ASSUME NEW e \in Nat, Take(e)
        PROVE  /\ taken' \in Seq(Nat) /\ taken' # << >>
               /\ disp' \in DispStates
               /\ tries' \in Nat /\ delivered' \in BOOLEAN
               /\ UNCHANGED <<bus, cursor, base, sub, proc, faults, accepted, acks>>
    <2>1. taken' \in Seq(Nat) /\ taken' # << >>
      BY <1>9, AppendFacts DEF Take
    <2> QED
      BY <1>9, <2>1 DEF Take, DispStates
  <1>10. CASE TakeDistress
    <2>1. Head(distressQ) \in Nat /\ distressQ' \in Seq(Nat)
      BY <1>10, TailFacts DEF TakeDistress
    <2>2. /\ Take(Head(distressQ)) /\ passed' \in Nat /\ UNCHANGED normalQ
          /\ proc = "up"
      BY <1>10 DEF TakeDistress
    <2> QED
      BY <1>9, <2>1, <2>2
  <1>11. CASE BreakOnDistress
    BY <1>11 DEF BreakOnDistress, streamVars, historyVars, DispStates
  <1>12. CASE SkipDistress
    BY <1>12 DEF SkipDistress, streamVars, historyVars, DispStates
  <1>13. CASE TakeNormal
    <2>1. Head(normalQ) \in Nat /\ normalQ' \in Seq(Nat)
      BY <1>13, TailFacts DEF TakeNormal
    <2>2. Take(Head(normalQ)) /\ UNCHANGED distressQ /\ proc = "up"
      BY <1>13 DEF TakeNormal
    <2>3. passed' = passed \/ passed' = passed + 1
      BY <1>13 DEF TakeNormal
    <2>4. passed' \in Nat
      BY <2>3
    <2> QED
      BY <1>9, <2>1, <2>2, <2>4
  <1>14. CASE BreakOnNormal
    BY <1>14 DEF BreakOnNormal, streamVars, historyVars, DispStates
  <1>15. CASE Park
    BY <1>15 DEF Park, streamVars, historyVars, DispStates
  <1>16. CASE Wake
    BY <1>16 DEF Wake, streamVars, historyVars, DispStates
  <1>17. CASE SendmailAccepts
    <2>1. Settled \in DispStates
      BY DEF Settled, DispStates
    <2>2. accepted' \subseteq Nat /\ taken # << >>
      BY <1>17, CurrentType DEF SendmailAccepts
    <2>3. proc = "up" /\ UNCHANGED proc
      BY <1>17 DEF SendmailAccepts
    <2>4. disp' \in DispStates
      BY <1>17, <2>1 DEF SendmailAccepts
    <2>5. tries' = tries + 1 /\ delivered' \in BOOLEAN
      BY <1>17 DEF SendmailAccepts
    <2>6. UNCHANGED <<bus, cursor, base, sub, distressQ, normalQ, faults, taken,
                      acks, passed>>
      BY <1>17 DEF SendmailAccepts, streamVars
    <2> QED
      BY <2>2, <2>3, <2>4, <2>5, <2>6
  <1>18. CASE SendmailFails
    <2>1. Settled \in DispStates /\ "backoff" \in DispStates
      BY DEF Settled, DispStates
    <2>2. accepted' \subseteq Nat /\ taken # << >>
      BY <1>18, CurrentType DEF SendmailFails
    <2>3. proc = "up" /\ UNCHANGED proc
      BY <1>18 DEF SendmailFails
    <2>4. disp' \in DispStates
      BY <1>18, <2>1 DEF SendmailFails
    <2>5. tries' = tries + 1 /\ delivered' \in BOOLEAN
      BY <1>18 DEF SendmailFails
    <2>6. UNCHANGED <<bus, cursor, base, sub, distressQ, normalQ, faults, taken,
                      acks, passed>>
      BY <1>18 DEF SendmailFails, streamVars
    <2> QED
      BY <2>2, <2>3, <2>4, <2>5, <2>6
  <1>19. CASE Backoff
    BY <1>19 DEF Backoff, streamVars, historyVars, DispStates
  <1>20. CASE PublishAck
    <2>1. [id |-> Current, delivered |-> delivered] \in Ack
      BY <1>20, CurrentType DEF PublishAck, Ack
    <2>2. acks' \in Seq(Ack) /\ bus' \in Seq(Topics)
      BY <1>20, <2>1, AppendFacts DEF PublishAck, Topics
    <2> QED
      BY <1>20, <2>2 DEF PublishAck, streamVars, DispStates
  <1>21. CASE AckFails
    BY <1>21, <1>f DEF AckFails, Fault, streamVars, historyVars, DispStates
  <1>22. CASE SaveState
    BY <1>22 DEF SaveState, streamVars, historyVars, DispStates
  <1>e. << >> \in Seq(Nat)
    BY EmptySeq
  <1>23. CASE Exit
    BY <1>23, <1>e DEF Exit, Stopped, SubStates, DispStates
  <1>24. CASE Crash
    BY <1>24, <1>e, <1>f, CurrentType DEF Crash, Fault, Stopped, SubStates, DispStates
  <1>25. CASE Restart
    BY <1>25 DEF Restart, historyVars, SubStates, DispStates
  <1> QED
    BY <1>1, <1>2, <1>3, <1>4, <1>5, <1>6, <1>7, <1>8, <1>10, <1>11, <1>12,
       <1>13, <1>14, <1>15, <1>16, <1>17, <1>18, <1>19, <1>20, <1>21, <1>22,
       <1>23, <1>24, <1>25 DEF Next

\* Every variable of the daemon keeps its type, and a handler always runs on an
\* event that was dispatched.
THEOREM TypeCorrect == Spec => [](TypeOK /\ BusyOnTaken)
  <1> QED
    BY TypedInit, TypedNext, PTL DEF Spec, Typed

-----------------------------------------------------------------------------
(* The order of events from the bus to the handlers. *)

\* The part of the inductive invariant that the stream of events keeps.
Ordered ==
    /\ ReadsRoutedEvents
    /\ SortedChannel(distressQ, {"distress"})
    /\ SortedChannel(normalQ, NormalTopics)
    /\ TakenWereSent
    /\ TakenBefore(distressQ)
    /\ TakenBefore(normalQ)
    /\ InOrder
    /\ NothingLostInside
    /\ PassedOnce

\* A daemon that starts has received, queued and dispatched nothing.
LEMMA OrderedInit == Init => Ordered
  <1> SUFFICES ASSUME Init PROVE Ordered
    OBVIOUS
  <1>1. Len(<< >>) = 0 /\ DOMAIN << >> = {}
    BY EmptySeq, LenProperties
  <1> QED
    BY <1>1 DEF Init, Ordered, ReadsRoutedEvents, SortedChannel, TakenWereSent,
       TakenBefore, InOrder, NothingLostInside, PassedOnce

\* The place of the last sent event.
LEMMA LastSentBound ==
    ASSUME TypeOK, ReadsRoutedEvents
    PROVE  LastSent \in Nat /\ LastSent <= cursor /\ cursor <= Len(bus)
  BY DEF TypeOK, ReadsRoutedEvents, LastSent

\* A step that moves no event keeps the order, if it does not let the
\* dispatcher poll the normal channel after a distress was passed.
LEMMA QuietKeepsOrder ==
    ASSUME Typed, Ordered,
           UNCHANGED <<cursor, base, sub, distressQ, normalQ, taken, passed>>,
           \A e \in 1 .. Len(bus) : bus'[e] = bus[e],
           Len(bus') >= Len(bus),
           disp' = "pollNormal" => passed = 0
    PROVE  Ordered'
  <1>1. /\ LastSent \in Nat /\ LastSent <= cursor /\ cursor <= Len(bus)
        /\ LastSent' = LastSent
        /\ cursor \in Nat /\ base \in Nat /\ Len(bus) \in Nat
    BY LastSentBound, LenProperties DEF Typed, TypeOK, Ordered, LastSent
  <1>2. \A e \in 1 .. cursor : bus'[e] = bus[e]
    BY <1>1
  <1>3. ReadsRoutedEvents'
    BY <1>1, <1>2, LenProperties DEF Ordered, ReadsRoutedEvents
  <1>4. SortedChannel(distressQ, {"distress"})' /\ SortedChannel(normalQ, NormalTopics)'
    BY <1>1, <1>2 DEF Ordered, SortedChannel
  <1>5. TakenWereSent'
    BY <1>1, <1>2 DEF Ordered, TakenWereSent
  <1>6. TakenBefore(distressQ)' /\ TakenBefore(normalQ)'
    BY <1>1, <1>2 DEF Ordered, TakenBefore, TakenWereSent, SortedChannel
  <1>7. InOrder'
    BY <1>1, <1>2 DEF Ordered, InOrder, TakenWereSent
  <1>8. NothingLostInside'
    BY <1>1, <1>2 DEF Ordered, NothingLostInside, Held
  <1>9. PassedOnce'
    BY DEF Ordered, PassedOnce
  <1> QED
    BY <1>3, <1>4, <1>5, <1>6, <1>7, <1>8, <1>9 DEF Ordered

\* Subscribing starts an empty range of events read.
LEMMA ConnectKeepsOrder == Typed /\ Ordered /\ Connect => Ordered'
  <1> SUFFICES ASSUME Typed, Ordered, Connect PROVE Ordered'
    OBVIOUS
  <1>1. /\ LastSent \in Nat /\ cursor \in Nat /\ Len(bus) \in Nat
        /\ LastSent <= cursor /\ cursor <= Len(bus)
        /\ LastSent' = Len(bus) /\ cursor' = Len(bus) /\ base' = Len(bus)
        /\ UNCHANGED <<bus, distressQ, normalQ, disp, taken, passed>>
        /\ sub' = "reading"
    BY LastSentBound, LenProperties
       DEF Typed, TypeOK, Ordered, Connect, LastSent, handlerVars, historyVars
  <1>2. ReadsRoutedEvents'
    BY <1>1 DEF ReadsRoutedEvents
  <1>3. SortedChannel(distressQ, {"distress"})' /\ SortedChannel(normalQ, NormalTopics)'
    BY <1>1 DEF Ordered, SortedChannel
  <1>4. TakenWereSent'
    BY <1>1 DEF Ordered, TakenWereSent
  <1>5. TakenBefore(distressQ)' /\ TakenBefore(normalQ)' /\ InOrder'
    BY <1>1 DEF Ordered, TakenBefore, InOrder
  <1>6. NothingLostInside'
    BY <1>1 DEF NothingLostInside
  <1>7. PassedOnce'
    BY <1>1 DEF Ordered, PassedOnce
  <1> QED
    BY <1>2, <1>3, <1>4, <1>5, <1>6, <1>7 DEF Ordered

\* The end of the subscriber, for whatever reason, loses nothing it has sent.
LEMMA EndKeepsOrder ==
    ASSUME Typed, Ordered, sub \in {"connecting", "reading"}, sub' \in Ended,
           UNCHANGED <<bus, cursor, base, distressQ, normalQ, disp, taken, passed>>
    PROVE  Ordered'
  <1>1. LastSent' = LastSent /\ Held' = {} /\ Held = {}
    BY DEF LastSent, Held, Ended
  <1>2. ReadsRoutedEvents'
    BY DEF Ordered, ReadsRoutedEvents, Ended
  <1>3. SortedChannel(distressQ, {"distress"})' /\ SortedChannel(normalQ, NormalTopics)'
    BY <1>1 DEF Ordered, SortedChannel
  <1>4. TakenWereSent'
    BY <1>1 DEF Ordered, TakenWereSent
  <1>5. TakenBefore(distressQ)' /\ TakenBefore(normalQ)' /\ InOrder'
    BY DEF Ordered, TakenBefore, InOrder
  <1>6. NothingLostInside'
    BY <1>1 DEF Ordered, NothingLostInside
  <1>7. PassedOnce'
    BY DEF Ordered, PassedOnce
  <1> QED
    BY <1>2, <1>3, <1>4, <1>5, <1>6, <1>7 DEF Ordered

\* The event read is held if it is routed, and needs no place otherwise.
LEMMA ReadKeepsOrder == Typed /\ Ordered /\ ReadEvent => Ordered'
  <1> SUFFICES ASSUME Typed, Ordered, ReadEvent PROVE Ordered'
    OBVIOUS
  <1>1. /\ cursor \in Nat /\ base \in Nat /\ Len(bus) \in Nat /\ base <= cursor
        /\ cursor < Len(bus) /\ cursor' = cursor + 1
        /\ UNCHANGED <<bus, base, distressQ, normalQ, disp, taken, passed>>
        /\ LastSent = cursor /\ LastSent' \in {cursor, cursor + 1}
        /\ sub' = IF bus[cursor + 1] \in RoutedTopics THEN "sending" ELSE "reading"
    BY LenProperties DEF Typed, TypeOK, Ordered, ReadsRoutedEvents, ReadEvent,
       LastSent, handlerVars, historyVars
  <1>2. ReadsRoutedEvents'
    BY <1>1 DEF ReadsRoutedEvents
  <1>3. SortedChannel(distressQ, {"distress"})' /\ SortedChannel(normalQ, NormalTopics)'
    BY <1>1 DEF Ordered, SortedChannel
  <1>4. TakenWereSent'
    BY <1>1 DEF Ordered, TakenWereSent
  <1>5. TakenBefore(distressQ)' /\ TakenBefore(normalQ)' /\ InOrder'
    BY <1>1 DEF Ordered, TakenBefore, InOrder
  <1>6. NothingLostInside'
    <2>1. Held = {}
      BY DEF ReadEvent, Held
    <2> SUFFICES ASSUME NEW e \in base + 1 .. cursor + 1, bus[e] \in RoutedTopics
                 PROVE  e \in Held' \cup Elements(distressQ) \cup Elements(normalQ)
                               \cup Elements(taken)
      BY <1>1 DEF NothingLostInside
    <2>2. CASE e = cursor + 1
      BY <1>1, <2>2 DEF Held
    <2>3. CASE e # cursor + 1
      <3>1. e \in base + 1 .. cursor
        BY <1>1, <2>3
      <3> QED
        BY <2>1, <3>1 DEF Ordered, NothingLostInside
    <2> QED
      BY <2>2, <2>3
  <1>7. PassedOnce'
    BY <1>1 DEF Ordered, PassedOnce
  <1> QED
    BY <1>2, <1>3, <1>4, <1>5, <1>6, <1>7 DEF Ordered

\* The held event is the last of its channel.
LEMMA SendDistressKeepsOrder == Typed /\ Ordered /\ SendDistress => Ordered'
  <1> SUFFICES ASSUME Typed, Ordered, SendDistress PROVE Ordered'
    OBVIOUS
  <1>1. /\ cursor \in Nat /\ base \in Nat /\ base < cursor /\ cursor <= Len(bus)
        /\ distressQ \in Seq(Nat)
        /\ bus[cursor] = "distress" /\ distressQ' = Append(distressQ, cursor)
        /\ UNCHANGED <<bus, cursor, base, normalQ, disp, taken, passed>>
        /\ LastSent = cursor - 1 /\ LastSent' = cursor /\ sub' = "reading"
    BY DEF Typed, TypeOK, Ordered, ReadsRoutedEvents, SendDistress, LastSent,
       handlerVars, historyVars
  <1>2. /\ DOMAIN distressQ' = DOMAIN distressQ \cup {Len(distressQ) + 1}
        /\ \A i \in DOMAIN distressQ : distressQ'[i] = distressQ[i]
        /\ distressQ'[Len(distressQ) + 1] = cursor
        /\ DOMAIN distressQ = 1 .. Len(distressQ)
        /\ Len(distressQ) \in Nat
        /\ distressQ' # << >>
    BY <1>1, AppendFacts
  <1>3. ReadsRoutedEvents'
    BY <1>1 DEF Ordered, ReadsRoutedEvents
  <1>4. SortedChannel(distressQ, {"distress"})'
    BY <1>1, <1>2 DEF Ordered, SortedChannel
  <1>5. SortedChannel(normalQ, NormalTopics)'
    BY <1>1 DEF Ordered, SortedChannel
  <1>6. TakenWereSent'
    BY <1>1 DEF Ordered, TakenWereSent
  <1>7. TakenBefore(distressQ)'
    BY <1>1, <1>2 DEF Ordered, TakenBefore, TakenWereSent
  <1>8. TakenBefore(normalQ)' /\ InOrder'
    BY <1>1 DEF Ordered, TakenBefore, InOrder
  <1>9. NothingLostInside'
    <2>1. Elements(distressQ)' = Elements(distressQ) \cup {cursor}
      BY <1>1, ElementsOfAppend
    <2>2. Held = {cursor}
      BY DEF SendDistress, Held
    <2>3. Elements(normalQ)' = Elements(normalQ) /\ Elements(taken)' = Elements(taken)
      BY <1>1
    <2> QED
      BY <1>1, <2>1, <2>2, <2>3 DEF Ordered, NothingLostInside
  <1>10. PassedOnce'
    BY <1>1, <1>2 DEF Ordered, PassedOnce
  <1> QED
    BY <1>3, <1>4, <1>5, <1>6, <1>7, <1>8, <1>9, <1>10 DEF Ordered

\* Nor does putting a normal event into its channel.
LEMMA SendNormalKeepsOrder == Typed /\ Ordered /\ SendNormal => Ordered'
  <1> SUFFICES ASSUME Typed, Ordered, SendNormal PROVE Ordered'
    OBVIOUS
  <1>1. /\ cursor \in Nat /\ base \in Nat /\ base < cursor /\ cursor <= Len(bus)
        /\ normalQ \in Seq(Nat)
        /\ bus[cursor] \in NormalTopics /\ normalQ' = Append(normalQ, cursor)
        /\ UNCHANGED <<bus, cursor, base, distressQ, disp, taken, passed>>
        /\ LastSent = cursor - 1 /\ LastSent' = cursor /\ sub' = "reading"
    BY DEF Typed, TypeOK, Ordered, ReadsRoutedEvents, SendNormal, LastSent,
       handlerVars, historyVars
  <1>2. /\ DOMAIN normalQ' = DOMAIN normalQ \cup {Len(normalQ) + 1}
        /\ \A i \in DOMAIN normalQ : normalQ'[i] = normalQ[i]
        /\ normalQ'[Len(normalQ) + 1] = cursor
        /\ DOMAIN normalQ = 1 .. Len(normalQ)
        /\ Len(normalQ) \in Nat
    BY <1>1, AppendFacts
  <1>3. ReadsRoutedEvents'
    BY <1>1 DEF Ordered, ReadsRoutedEvents
  <1>4. SortedChannel(normalQ, NormalTopics)'
    BY <1>1, <1>2 DEF Ordered, SortedChannel
  <1>5. SortedChannel(distressQ, {"distress"})'
    BY <1>1 DEF Ordered, SortedChannel
  <1>6. TakenWereSent'
    BY <1>1 DEF Ordered, TakenWereSent
  <1>7. TakenBefore(normalQ)'
    BY <1>1, <1>2 DEF Ordered, TakenBefore, TakenWereSent
  <1>8. TakenBefore(distressQ)' /\ InOrder'
    BY <1>1 DEF Ordered, TakenBefore, InOrder
  <1>9. NothingLostInside'
    <2>1. Elements(normalQ)' = Elements(normalQ) \cup {cursor}
      BY <1>1, ElementsOfAppend
    <2>2. Held = {cursor}
      BY DEF SendNormal, Held
    <2>3. Elements(distressQ)' = Elements(distressQ) /\ Elements(taken)' = Elements(taken)
      BY <1>1
    <2> QED
      BY <1>1, <2>1, <2>2, <2>3 DEF Ordered, NothingLostInside
  <1>10. PassedOnce'
    BY <1>1 DEF Ordered, PassedOnce
  <1> QED
    BY <1>3, <1>4, <1>5, <1>6, <1>7, <1>8, <1>9, <1>10 DEF Ordered

\* The first of a channel follows all that was dispatched from it.
LEMMA TakeDistressKeepsOrder == Typed /\ Ordered /\ TakeDistress => Ordered'
  <1> SUFFICES ASSUME Typed, Ordered, TakeDistress PROVE Ordered'
    OBVIOUS
  <1> DEFINE e == Head(distressQ)
  <1>1. /\ distressQ \in Seq(Nat) /\ distressQ # << >> /\ taken \in Seq(Nat)
        /\ distressQ' = Tail(distressQ) /\ taken' = Append(taken, e)
        /\ UNCHANGED <<bus, cursor, base, sub, normalQ>>
        /\ LastSent' = LastSent /\ Held' = Held
    BY DEF Typed, TypeOK, TakeDistress, Take, LastSent, Held
  <1>2. /\ e = distressQ[1] /\ e \in Nat /\ 1 \in DOMAIN distressQ
        /\ DOMAIN distressQ = 1 .. Len(distressQ) /\ Len(distressQ) \in Nat
        /\ DOMAIN distressQ' = 1 .. Len(distressQ) - 1
        /\ \A i \in DOMAIN distressQ' : i + 1 \in DOMAIN distressQ /\ distressQ'[i] = distressQ[i + 1]
    BY <1>1, TailFacts
  <1>3. /\ DOMAIN taken' = DOMAIN taken \cup {Len(taken) + 1}
        /\ \A i \in DOMAIN taken : taken'[i] = taken[i]
        /\ taken'[Len(taken) + 1] = e
        /\ DOMAIN taken = 1 .. Len(taken) /\ Len(taken) \in Nat
    BY <1>1, <1>2, AppendFacts
  <1>4. e \in 1 .. LastSent /\ bus[e] \in {"distress"} /\ bus[e] \in RoutedTopics
    BY <1>2 DEF Ordered, SortedChannel, RoutedTopics
  <1>5. \A i \in DOMAIN distressQ' :
          /\ distressQ'[i] \in 1 .. LastSent /\ bus[distressQ'[i]] \in {"distress"}
          /\ e < distressQ'[i]
    BY <1>2 DEF Ordered, SortedChannel
  <1> HIDE DEF e
  <1>6. ReadsRoutedEvents'
    BY <1>1 DEF Ordered, ReadsRoutedEvents
  <1>7. SortedChannel(distressQ, {"distress"})'
    <2>1. \A i, j \in DOMAIN distressQ' : i < j => distressQ'[i] < distressQ'[j]
      BY <1>2 DEF Ordered, SortedChannel
    <2> QED
      BY <1>1, <1>5, <2>1 DEF SortedChannel
  <1>8. SortedChannel(normalQ, NormalTopics)'
    BY <1>1 DEF Ordered, SortedChannel
  <1>9. TakenWereSent'
    BY <1>1, <1>3, <1>4 DEF Ordered, TakenWereSent
  <1>10. TakenBefore(distressQ)'
    <2> SUFFICES ASSUME NEW i \in DOMAIN taken', NEW j \in DOMAIN distressQ',
                        SameLane(bus[taken'[i]], bus[distressQ'[j]])
                 PROVE  taken'[i] < distressQ'[j]
      BY <1>1 DEF TakenBefore
    <2>1. CASE i \in DOMAIN taken
      <3>1. taken'[i] = taken[i] /\ distressQ'[j] = distressQ[j + 1] /\ j + 1 \in DOMAIN distressQ
        BY <1>2, <1>3, <2>1
      <3> QED
        BY <2>1, <3>1 DEF Ordered, TakenBefore
    <2>2. CASE i = Len(taken) + 1
      BY <1>3, <1>5, <2>2
    <2> QED
      BY <1>3, <2>1, <2>2
  <1>11. TakenBefore(normalQ)'
    <2> SUFFICES ASSUME NEW i \in DOMAIN taken', NEW j \in DOMAIN normalQ,
                        SameLane(bus[taken'[i]], bus[normalQ[j]])
                 PROVE  taken'[i] < normalQ[j]
      BY <1>1 DEF TakenBefore
    <2>1. bus[normalQ[j]] \in NormalTopics
      BY DEF Ordered, SortedChannel
    <2>2. CASE i \in DOMAIN taken
      BY <1>3, <2>2 DEF Ordered, TakenBefore
    <2>3. CASE i = Len(taken) + 1
      BY <1>3, <1>4, <2>1, <2>3 DEF SameLane, NormalTopics
    <2> QED
      BY <1>3, <2>2, <2>3
  <1>12. InOrder'
    <2> SUFFICES ASSUME NEW i \in DOMAIN taken', NEW j \in DOMAIN taken', i < j,
                        SameLane(bus[taken'[i]], bus[taken'[j]])
                 PROVE  taken'[i] < taken'[j]
      BY <1>1 DEF InOrder
    <2>1. i \in DOMAIN taken /\ taken'[i] = taken[i]
      BY <1>3
    <2>2. CASE j \in DOMAIN taken
      BY <1>3, <2>1, <2>2 DEF Ordered, InOrder
    <2>3. CASE j = Len(taken) + 1
      BY <1>2, <1>3, <2>1, <2>3 DEF Ordered, TakenBefore
    <2> QED
      BY <1>3, <2>2, <2>3
  <1>13. NothingLostInside'
    <2>1. Elements(distressQ) = Elements(distressQ') \cup {e}
      BY <1>1, ElementsOfTail DEF e
    <2>2. Elements(taken') = Elements(taken) \cup {e}
      BY <1>1, <1>2, ElementsOfAppend
    <2>3. Elements(normalQ') = Elements(normalQ)
      BY <1>1
    <2> SUFFICES ASSUME NEW n \in base + 1 .. cursor, bus[n] \in RoutedTopics
                 PROVE  n \in Held \cup Elements(distressQ') \cup Elements(normalQ')
                               \cup Elements(taken')
      BY <1>1 DEF NothingLostInside, Elements
    <2>4. n \in Held \cup Elements(distressQ) \cup Elements(normalQ) \cup Elements(taken)
      BY DEF Ordered, NothingLostInside
    <2> QED
      BY <2>1, <2>2, <2>3, <2>4
  <1>14. PassedOnce'
    BY DEF TakeDistress, PassedOnce
  <1> QED
    BY <1>6, <1>7, <1>8, <1>9, <1>10, <1>11, <1>12, <1>13, <1>14 DEF Ordered

\* A poll of the normal channel finds no distress passed before it.
LEMMA TakeNormalKeepsOrder == Typed /\ Ordered /\ TakeNormal => Ordered'
  <1> SUFFICES ASSUME Typed, Ordered, TakeNormal PROVE Ordered'
    OBVIOUS
  <1> DEFINE e == Head(normalQ)
  <1>1. /\ normalQ \in Seq(Nat) /\ normalQ # << >> /\ taken \in Seq(Nat)
        /\ normalQ' = Tail(normalQ) /\ taken' = Append(taken, e)
        /\ UNCHANGED <<bus, cursor, base, sub, distressQ>>
        /\ LastSent' = LastSent /\ Held' = Held
    BY DEF Typed, TypeOK, TakeNormal, Take, LastSent, Held
  <1>2. /\ e = normalQ[1] /\ e \in Nat /\ 1 \in DOMAIN normalQ
        /\ DOMAIN normalQ = 1 .. Len(normalQ) /\ Len(normalQ) \in Nat
        /\ DOMAIN normalQ' = 1 .. Len(normalQ) - 1
        /\ \A i \in DOMAIN normalQ' : i + 1 \in DOMAIN normalQ /\ normalQ'[i] = normalQ[i + 1]
    BY <1>1, TailFacts
  <1>3. /\ DOMAIN taken' = DOMAIN taken \cup {Len(taken) + 1}
        /\ \A i \in DOMAIN taken : taken'[i] = taken[i]
        /\ taken'[Len(taken) + 1] = e
        /\ DOMAIN taken = 1 .. Len(taken) /\ Len(taken) \in Nat
    BY <1>1, <1>2, AppendFacts
  <1>4. e \in 1 .. LastSent /\ bus[e] \in NormalTopics /\ bus[e] \in RoutedTopics
    BY <1>2 DEF Ordered, SortedChannel, RoutedTopics
  <1>5. \A i \in DOMAIN normalQ' :
          /\ normalQ'[i] \in 1 .. LastSent /\ bus[normalQ'[i]] \in NormalTopics
          /\ e < normalQ'[i]
    BY <1>2 DEF Ordered, SortedChannel
  <1> HIDE DEF e
  <1>6. ReadsRoutedEvents'
    BY <1>1 DEF Ordered, ReadsRoutedEvents
  <1>7. SortedChannel(normalQ, NormalTopics)'
    <2>1. \A i, j \in DOMAIN normalQ' : i < j => normalQ'[i] < normalQ'[j]
      BY <1>2 DEF Ordered, SortedChannel
    <2> QED
      BY <1>1, <1>5, <2>1 DEF SortedChannel
  <1>8. SortedChannel(distressQ, {"distress"})'
    BY <1>1 DEF Ordered, SortedChannel
  <1>9. TakenWereSent'
    BY <1>1, <1>3, <1>4 DEF Ordered, TakenWereSent
  <1>10. TakenBefore(normalQ)'
    <2> SUFFICES ASSUME NEW i \in DOMAIN taken', NEW j \in DOMAIN normalQ',
                        SameLane(bus[taken'[i]], bus[normalQ'[j]])
                 PROVE  taken'[i] < normalQ'[j]
      BY <1>1 DEF TakenBefore
    <2>1. CASE i \in DOMAIN taken
      <3>1. taken'[i] = taken[i] /\ normalQ'[j] = normalQ[j + 1] /\ j + 1 \in DOMAIN normalQ
        BY <1>2, <1>3, <2>1
      <3> QED
        BY <2>1, <3>1 DEF Ordered, TakenBefore
    <2>2. CASE i = Len(taken) + 1
      BY <1>3, <1>5, <2>2
    <2> QED
      BY <1>3, <2>1, <2>2
  <1>11. TakenBefore(distressQ)'
    <2> SUFFICES ASSUME NEW i \in DOMAIN taken', NEW j \in DOMAIN distressQ,
                        SameLane(bus[taken'[i]], bus[distressQ[j]])
                 PROVE  taken'[i] < distressQ[j]
      BY <1>1 DEF TakenBefore
    <2>1. bus[distressQ[j]] \in {"distress"}
      BY DEF Ordered, SortedChannel
    <2>2. CASE i \in DOMAIN taken
      BY <1>3, <2>2 DEF Ordered, TakenBefore
    <2>3. CASE i = Len(taken) + 1
      BY <1>3, <1>4, <2>1, <2>3 DEF SameLane, NormalTopics
    <2> QED
      BY <1>3, <2>2, <2>3
  <1>12. InOrder'
    <2> SUFFICES ASSUME NEW i \in DOMAIN taken', NEW j \in DOMAIN taken', i < j,
                        SameLane(bus[taken'[i]], bus[taken'[j]])
                 PROVE  taken'[i] < taken'[j]
      BY <1>1 DEF InOrder
    <2>1. i \in DOMAIN taken /\ taken'[i] = taken[i]
      BY <1>3
    <2>2. CASE j \in DOMAIN taken
      BY <1>3, <2>1, <2>2 DEF Ordered, InOrder
    <2>3. CASE j = Len(taken) + 1
      BY <1>2, <1>3, <2>1, <2>3 DEF Ordered, TakenBefore
    <2> QED
      BY <1>3, <2>2, <2>3
  <1>13. NothingLostInside'
    <2>1. Elements(normalQ) = Elements(normalQ') \cup {e}
      BY <1>1, ElementsOfTail DEF e
    <2>2. Elements(taken') = Elements(taken) \cup {e}
      BY <1>1, <1>2, ElementsOfAppend
    <2>3. Elements(distressQ') = Elements(distressQ)
      BY <1>1
    <2> SUFFICES ASSUME NEW n \in base + 1 .. cursor, bus[n] \in RoutedTopics
                 PROVE  n \in Held \cup Elements(distressQ') \cup Elements(normalQ')
                               \cup Elements(taken')
      BY <1>1 DEF NothingLostInside, Elements
    <2>4. n \in Held \cup Elements(distressQ) \cup Elements(normalQ) \cup Elements(taken)
      BY DEF Ordered, NothingLostInside
    <2> QED
      BY <2>1, <2>2, <2>3, <2>4
  <1>14. PassedOnce'
    <2>1. passed = 0
      BY DEF TakeNormal, Ordered, PassedOnce
    <2>2. disp' # "pollNormal"
      BY DEF TakeNormal, Take
    <2>3. passed' # 0 => passed' = 1 /\ distressQ # << >>
      BY <2>1 DEF TakeNormal
    <2> QED
      BY <1>1, <2>2, <2>3 DEF PassedOnce
  <1> QED
    BY <1>6, <1>7, <1>8, <1>9, <1>10, <1>11, <1>12, <1>13, <1>14 DEF Ordered

\* With the process its subscription ends: no event is left to account for.
LEMMA StoppedKeepsOrder == Typed /\ Ordered /\ Stopped => Ordered'
  <1> SUFFICES ASSUME Typed, Ordered, Stopped PROVE Ordered'
    OBVIOUS
  <1>1. /\ cursor \in Nat /\ LastSent <= cursor /\ LastSent \in Nat /\ cursor <= Len(bus)
        /\ distressQ' = << >> /\ normalQ' = << >> /\ passed' = 0
        /\ sub' = "gone" /\ base' = cursor /\ LastSent' = cursor
        /\ UNCHANGED <<bus, cursor, taken>>
    BY LastSentBound DEF Typed, TypeOK, Ordered, Stopped, LastSent
  <1>2. DOMAIN << >> = {}
    OBVIOUS
  <1>3. ReadsRoutedEvents'
    BY <1>1 DEF ReadsRoutedEvents
  <1>4. SortedChannel(distressQ, {"distress"})' /\ SortedChannel(normalQ, NormalTopics)'
    BY <1>1, <1>2 DEF SortedChannel
  <1>5. TakenWereSent'
    BY <1>1 DEF Ordered, TakenWereSent
  <1>6. TakenBefore(distressQ)' /\ TakenBefore(normalQ)'
    BY <1>1, <1>2 DEF TakenBefore
  <1>7. InOrder'
    BY <1>1 DEF Ordered, InOrder
  <1>8. NothingLostInside'
    BY <1>1 DEF NothingLostInside
  <1>9. PassedOnce'
    BY <1>1 DEF PassedOnce
  <1> QED
    BY <1>3, <1>4, <1>5, <1>6, <1>7, <1>8, <1>9 DEF Ordered

\* A new process finds no subscription of its own.
LEMMA RestartKeepsOrder == Typed /\ Ordered /\ Restart => Ordered'
  <1> SUFFICES ASSUME Typed, Ordered, Restart PROVE Ordered'
    OBVIOUS
  <1>1. /\ LastSent' = LastSent /\ Held' = {} /\ Held = {} /\ sub' = "connecting"
        /\ disp' = "pollDistress"
        /\ UNCHANGED <<bus, cursor, base, distressQ, normalQ, taken, passed>>
    BY DEF Typed, DownIsGone, LastSent, Held, Restart, historyVars
  <1>2. ReadsRoutedEvents'
    BY <1>1 DEF Ordered, ReadsRoutedEvents
  <1>3. SortedChannel(distressQ, {"distress"})' /\ SortedChannel(normalQ, NormalTopics)'
    BY <1>1 DEF Ordered, SortedChannel
  <1>4. TakenWereSent'
    BY <1>1 DEF Ordered, TakenWereSent
  <1>5. TakenBefore(distressQ)' /\ TakenBefore(normalQ)' /\ InOrder'
    BY <1>1 DEF Ordered, TakenBefore, InOrder
  <1>6. NothingLostInside'
    BY <1>1 DEF Ordered, NothingLostInside
  <1>7. PassedOnce'
    BY <1>1 DEF Ordered, PassedOnce
  <1> QED
    BY <1>2, <1>3, <1>4, <1>5, <1>6, <1>7 DEF Ordered

\* No step of the daemon loses, repeats or reorders an event.
LEMMA OrderedNext == Typed /\ Ordered /\ [Next]_vars => Ordered'
  <1> SUFFICES ASSUME Typed, Ordered, [Next]_vars PROVE Ordered'
    OBVIOUS
  <1> DEFINE Still == UNCHANGED <<cursor, base, sub, distressQ, normalQ, taken, passed>>
  <1>0. Len(bus) \in Nat /\ bus \in Seq(Topics)
    BY LenProperties DEF Typed, TypeOK
  <1>q. ASSUME Still, UNCHANGED bus, disp' = "pollNormal" => passed = 0
        PROVE  Ordered'
    BY <1>0, <1>q, QuietKeepsOrder
  <1>1. CASE UNCHANGED vars
    BY <1>1, <1>q DEF vars, Ordered, PassedOnce
  <1>2. ASSUME NEW k \in Topics \ {"ack"}, Publish(k) PROVE Ordered'
    <2>1. /\ \A e \in 1 .. Len(bus) : bus'[e] = bus[e]
          /\ Len(bus') >= Len(bus)
      BY <1>0, <1>2, AppendFacts DEF Publish
    <2>2. Still /\ UNCHANGED disp
      BY <1>2 DEF Publish, streamVars, handlerVars, historyVars
    <2>3. disp' = "pollNormal" => passed = 0
      BY <2>2 DEF Ordered, PassedOnce
    <2> QED
      BY <2>1, <2>2, <2>3, QuietKeepsOrder
  <1>3. CASE ConnectFails
    BY <1>3, EndKeepsOrder DEF ConnectFails, Ended, handlerVars, historyVars
  <1>4. ASSUME NEW end \in Ended, StreamEnds(end) PROVE Ordered'
    BY <1>4, EndKeepsOrder DEF StreamEnds, handlerVars, historyVars
  <1>5. CASE BreakOnDistress
    BY <1>5, <1>q DEF BreakOnDistress, streamVars, historyVars
  <1>6. CASE SkipDistress
    <2>1. passed = 0
      BY <1>6 DEF SkipDistress, Ordered, PassedOnce
    <2> QED
      BY <1>6, <1>q, <2>1 DEF SkipDistress, streamVars, historyVars
  <1>7. CASE BreakOnNormal
    BY <1>7, <1>q DEF BreakOnNormal, streamVars, historyVars
  <1>8. CASE Park
    BY <1>8, <1>q DEF Park, streamVars, historyVars
  <1>9. CASE Wake
    BY <1>9, <1>q DEF Wake, streamVars, historyVars
  <1>10. CASE SendmailAccepts
    BY <1>10, <1>q DEF SendmailAccepts, Settled, streamVars
  <1>11. CASE SendmailFails
    BY <1>11, <1>q DEF SendmailFails, Settled, streamVars
  <1>12. CASE Backoff
    BY <1>12, <1>q DEF Backoff, streamVars, historyVars
  <1>13. CASE PublishAck
    <2>1. /\ \A e \in 1 .. Len(bus) : bus'[e] = bus[e]
          /\ Len(bus') >= Len(bus)
      BY <1>0, <1>13, AppendFacts DEF PublishAck, Topics
    <2>2. Still /\ disp' # "pollNormal"
      BY <1>13 DEF PublishAck, streamVars
    <2> QED
      BY <2>1, <2>2, QuietKeepsOrder
  <1>14. CASE AckFails
    BY <1>14, <1>q DEF AckFails, streamVars, historyVars
  <1>15. CASE SaveState
    BY <1>15, <1>q DEF SaveState, streamVars, historyVars
  <1>16. CASE Exit \/ Crash
    BY <1>16, StoppedKeepsOrder DEF Exit, Crash
  <1> QED
    BY <1>1, <1>2, <1>3, <1>4, <1>5, <1>6, <1>7, <1>8, <1>9, <1>10, <1>11,
       <1>12, <1>13, <1>14, <1>15, <1>16, ConnectKeepsOrder, ReadKeepsOrder,
       SendDistressKeepsOrder, SendNormalKeepsOrder, TakeDistressKeepsOrder,
       TakeNormalKeepsOrder, RestartKeepsOrder DEF Next

-----------------------------------------------------------------------------
(* Acknowledgements. *)

\* A daemon that starts has nothing to acknowledge.
LEMMA AnsweringInit == Init => AnswersCurrent
  <1>1. DOMAIN << >> = {}
    OBVIOUS
  <1> QED
    BY <1>1 DEF Init, AnswersCurrent

\* The topic of the current event is fixed on the bus.
LEMMA CurrentOnBus ==
    ASSUME Typed, Ordered, taken # << >>
    PROVE  Current \in 1 .. Len(bus)
  <1>1. Len(taken) \in DOMAIN taken
    BY CurrentType DEF Typed
  <1>2. Current \in 1 .. LastSent
    BY <1>1 DEF Current, Ordered, TakenWereSent
  <1> QED
    BY <1>2, LastSentBound, LenProperties DEF Typed, TypeOK, Ordered

\* An event about to be dispatched follows all events taken from its channel.
LEMMA HeadIsNew ==
    ASSUME Typed, Ordered, NEW q \in {distressQ, normalQ}, q # << >>
    PROVE  /\ Head(q) \in 1 .. Len(bus)
           /\ bus[Head(q)] \in RoutedTopics
           /\ \A i \in DOMAIN taken :
                 SameLane(bus[taken[i]], bus[Head(q)]) => taken[i] < Head(q)
           /\ Head(q) \notin Elements(taken)
  <1>1. q \in Seq(Nat)
    BY DEF Typed, TypeOK
  <1>2. Head(q) = q[1] /\ 1 \in DOMAIN q
    BY <1>1, TailFacts
  <1>3. Head(q) \in 1 .. LastSent /\ bus[Head(q)] \in RoutedTopics
    BY <1>2 DEF Ordered, SortedChannel, RoutedTopics
  <1>4. \A i \in DOMAIN taken :
          SameLane(bus[taken[i]], bus[Head(q)]) => taken[i] < Head(q)
    BY <1>2 DEF Ordered, TakenBefore
  <1>5. Head(q) \notin Elements(taken)
    BY <1>3, <1>4 DEF Elements, SameLane
  <1> QED
    BY <1>3, <1>4, <1>5, LastSentBound, LenProperties DEF Typed, TypeOK, Ordered

\* A step that acknowledges nothing and dispatches nothing.
LEMMA QuietKeepsAnswers ==
    ASSUME Typed, Ordered, AnswersCurrent,
           UNCHANGED <<taken, acks>>, accepted \subseteq accepted',
           disp' \in {"calling", "backoff"} => disp \in {"calling", "backoff"},
           disp' = "acking" =>
              /\ disp \in {"calling", "backoff", "acking"}
              /\ \A e \in 1 .. Len(bus) : bus'[e] = bus[e]
              /\ Topic \in AckedTopics
              /\ delivered' => Current \in accepted'
    PROVE  AnswersCurrent'
  <1>1. Current' = Current
    BY DEF Current
  <1>2. disp' = "acking" => Topic' \in AckedTopics
    <2> SUFFICES ASSUME disp' = "acking" PROVE Topic' \in AckedTopics
      OBVIOUS
    <2>1. Current \in 1 .. Len(bus)
      BY CurrentOnBus DEF Typed, BusyOnTaken
    <2> QED
      BY <1>1, <2>1 DEF Topic
  <1>3. \A i \in DOMAIN acks' : acks'[i].id \in Elements(taken')
    BY DEF AnswersCurrent
  <1>4. disp' \in {"calling", "backoff", "acking"} =>
          \A i \in DOMAIN acks' : acks'[i].id # Current'
    BY <1>1 DEF AnswersCurrent
  <1>5. disp' = "acking" => (delivered' => Current' \in accepted')
    BY <1>1
  <1> QED
    BY <1>2, <1>3, <1>4, <1>5 DEF AnswersCurrent

\* A dispatched event is not among the acknowledged ones.
LEMMA TakeKeepsAnswers ==
    ASSUME Typed, Ordered, AnswersCurrent,
           NEW q \in {distressQ, normalQ}, q # << >>, Take(Head(q))
    PROVE  AnswersCurrent'
  <1>1. /\ q \in Seq(Nat) /\ taken \in Seq(Nat) /\ taken' = Append(taken, Head(q))
        /\ UNCHANGED <<acks, accepted, bus>> /\ disp' # "acking"
    BY DEF Typed, TypeOK, Take
  <1>2. Head(q) \in Nat
    BY <1>1, TailFacts
  <1>3. Current' = Head(q)
    BY <1>1, <1>2, AppendFacts DEF Current
  <1>4. Elements(taken') = Elements(taken) \cup {Head(q)}
    BY <1>1, <1>2, ElementsOfAppend
  <1>5. Head(q) \notin Elements(taken)
    BY HeadIsNew
  <1> QED
    BY <1>1, <1>3, <1>4, <1>5 DEF AnswersCurrent

\* No step acknowledges an event twice, or the wrong one, or falsely.
LEMMA AnsweringNext ==
    Typed /\ Ordered /\ AnswersCurrent /\ [Next]_vars => AnswersCurrent'
  <1> SUFFICES ASSUME Typed, Ordered, AnswersCurrent, [Next]_vars
               PROVE  AnswersCurrent'
    OBVIOUS
  <1> DEFINE Quiet == UNCHANGED <<taken, acks, accepted>>
  <1>q. ASSUME Quiet, disp' \notin {"calling", "backoff", "acking"} PROVE AnswersCurrent'
    BY <1>q, QuietKeepsAnswers
  <1>s. ASSUME Quiet, UNCHANGED <<disp, delivered>>,
               \A e \in 1 .. Len(bus) : bus'[e] = bus[e]
        PROVE  AnswersCurrent'
    <2>1. disp = "acking" => Topic \in AckedTopics /\ (delivered => Current \in accepted)
      BY DEF AnswersCurrent
    <2> QED
      BY <1>s, <2>1, QuietKeepsAnswers
  <1>1. CASE UNCHANGED vars
    BY <1>1, <1>s DEF vars
  <1>2. ASSUME NEW k \in Topics \ {"ack"}, Publish(k) PROVE AnswersCurrent'
    <2>1. \A e \in 1 .. Len(bus) : bus'[e] = bus[e]
      BY <1>2, AppendFacts DEF Publish, Typed, TypeOK
    <2> QED
      BY <1>2, <1>s, <2>1 DEF Publish, handlerVars, historyVars
  <1>3. CASE Connect \/ ConnectFails \/ ReadEvent \/ SendDistress \/ SendNormal
    BY <1>3, <1>s DEF Connect, ConnectFails, ReadEvent, SendDistress, SendNormal,
       handlerVars, historyVars
  <1>4. ASSUME NEW end \in Ended, StreamEnds(end) PROVE AnswersCurrent'
    BY <1>4, <1>s DEF StreamEnds, handlerVars, historyVars
  <1>5. CASE TakeDistress
    BY <1>5, TakeKeepsAnswers DEF TakeDistress
  <1>6. CASE TakeNormal
    BY <1>6, TakeKeepsAnswers DEF TakeNormal
  <1>7. CASE BreakOnDistress \/ SkipDistress \/ BreakOnNormal \/ Park \/ Wake
    BY <1>7, <1>q DEF BreakOnDistress, SkipDistress, BreakOnNormal, Park, Wake,
       historyVars
  <1>8. CASE SendmailAccepts
    <2>1. /\ UNCHANGED <<taken, acks, bus>> /\ accepted' = accepted \cup {Current}
          /\ disp = "calling" /\ disp' = Settled
      BY <1>8 DEF SendmailAccepts
    <2>2. disp' \in {"acking", "saving"} /\ (disp' = "acking" => Topic \in AckedTopics)
      BY <2>1 DEF Settled
    <2> QED
      BY <2>1, <2>2, QuietKeepsAnswers
  <1>9. CASE SendmailFails
    <2>1. /\ UNCHANGED <<taken, acks, bus>> /\ accepted \subseteq accepted'
          /\ disp = "calling" /\ disp' \in {"backoff", Settled}
      BY <1>9 DEF SendmailFails
    <2>2. /\ disp' \in {"backoff", "acking", "saving"}
          /\ disp' = "acking" => Topic \in AckedTopics
      BY <2>1 DEF Settled
    <2>3. disp' = "acking" => ~delivered'
      BY <1>9 DEF SendmailFails
    <2> QED
      BY <2>1, <2>2, <2>3, QuietKeepsAnswers
  <1>10. CASE Backoff
    BY <1>10, QuietKeepsAnswers DEF Backoff, historyVars
  <1>11. CASE PublishAck
    <2> DEFINE a == [id |-> Current, delivered |-> delivered]
    <2>1. taken # << >> /\ acks \in Seq(Ack)
      BY <1>11 DEF PublishAck, Typed, TypeOK, BusyOnTaken
    <2>2. a \in Ack /\ a.id = Current /\ Current \in Elements(taken)
      BY <2>1, CurrentType DEF Typed, TypeOK, Ack, Current, Elements
    <2>3. acks' = Append(acks, a)
      BY <1>11 DEF PublishAck
    <2> HIDE DEF a
    <2>4. /\ DOMAIN acks' = DOMAIN acks \cup {Len(acks) + 1}
          /\ \A i \in DOMAIN acks : acks'[i] = acks[i]
          /\ acks'[Len(acks) + 1] = a
      BY <2>1, <2>2, <2>3, AppendFacts
    <2>5. UNCHANGED taken /\ disp' = "pollDistress"
      BY <1>11 DEF PublishAck
    <2> QED
      BY <2>2, <2>4, <2>5 DEF AnswersCurrent
  <1>12. CASE AckFails \/ SaveState
    BY <1>12, <1>q DEF AckFails, SaveState, historyVars
  <1>13. CASE Exit \/ Crash
    <2>1. UNCHANGED <<taken, acks>> /\ accepted \subseteq accepted' /\ disp' = "gone"
      BY <1>13 DEF Exit, Crash, Stopped
    <2> QED
      BY <2>1, QuietKeepsAnswers
  <1>14. CASE Restart
    BY <1>14, <1>q DEF Restart, historyVars
  <1> QED
    BY <1>1, <1>2, <1>3, <1>4, <1>5, <1>6, <1>7, <1>8, <1>9, <1>10, <1>11,
       <1>12, <1>13, <1>14 DEF Next

-----------------------------------------------------------------------------
(* What follows for every behaviour. *)

\* The inductive invariant holds whatever the capacities, the retries and the
\* number of events, lost connections, crashes and restarts.
THEOREM InductiveInvariant == Spec => [](TypeOK /\ Inductive)
  <1> DEFINE All == Typed /\ Ordered /\ AnswersCurrent
  <1>1. Init => All
    BY TypedInit, OrderedInit, AnsweringInit
  <1>2. All /\ [Next]_vars => All'
    BY TypedNext, OrderedNext, AnsweringNext
  <1>3. All => TypeOK /\ Inductive
    BY DEF Typed, Ordered, Inductive
  <1> QED
    BY <1>1, <1>2, <1>3, PTL DEF Spec

\* Each channel is dispatched in the order of the bus and never twice.
THEOREM DispatchInOrder == Spec => []InOrder
  <1>1. Inductive => InOrder
    BY DEF Inductive
  <1> QED
    BY <1>1, InductiveInvariant, PTL

\* No routed event disappears inside a running process.
THEOREM NothingIsLost == Spec => []NothingLostInside
  <1>1. Inductive => NothingLostInside
    BY DEF Inductive
  <1> QED
    BY <1>1, InductiveInvariant, PTL

\* A waiting distress is overtaken by at most one normal event, however full
\* the channels are.
THEOREM OvertakenAtMostOnce == Spec => []BoundedOvertaking
  <1>1. TypeOK /\ Inductive => BoundedOvertaking
    BY DEF TypeOK, Inductive, PassedOnce, BoundedOvertaking
  <1> QED
    BY <1>1, InductiveInvariant, PTL

-----------------------------------------------------------------------------
(* The daemon implements the promise of FamilyRelay. *)

\* The daemon starts as the relay does.
LEMMA RelayInit == Init => Relay!Init
  BY DEF Init, Relay!Init

\* Every step of the daemon is a step of the relay or leaves the relay's
\* variables alone: it publishes, dispatches, is accepted or acknowledges.
LEMMA RelayStep ==
    TypeOK /\ Inductive /\ [Next]_vars => [Relay!Next]_(Relay!vars)
  <1> SUFFICES ASSUME TypeOK, Inductive, [Next]_vars
               PROVE  Relay!Next \/ UNCHANGED Relay!vars
    OBVIOUS
  <1>0. Typed /\ Ordered
    BY DEF Typed, Ordered, Inductive
  <1>t. ASSUME NEW q \in {distressQ, normalQ}, q # << >>, Take(Head(q))
        PROVE  Relay!Next
    <2>1. /\ Head(q) \in 1 .. Len(bus)
          /\ bus[Head(q)] \in RoutedTopics
          /\ \A i \in DOMAIN taken :
                SameLane(bus[taken[i]], bus[Head(q)]) => taken[i] < Head(q)
      BY <1>t, <1>0, HeadIsNew
    <2>2. Head(q) \in DOMAIN bus
      BY <2>1, LenProperties DEF TypeOK
    <2>3. taken' = Append(taken, Head(q)) /\ UNCHANGED <<bus, accepted, acks>>
      BY <1>t DEF Take
    <2>4. Relay!Dispatch(Head(q))
      BY <2>1, <2>3
         DEF Relay!Dispatch, Relay!RoutedTopics, RoutedTopics, Relay!NormalTopics,
             NormalTopics, Relay!SameLane, SameLane
    <2> QED
      BY <2>2, <2>4 DEF Relay!Next
  <1>a. ASSUME disp = "calling", accepted' = accepted \cup {Current},
               UNCHANGED <<bus, taken, acks>>
        PROVE  Relay!Next
    BY <1>a DEF Inductive, BusyOnTaken, AnswersCurrent, Relay!Next, Relay!Accept,
       Relay!Unanswered, Relay!Current, Current
  <1>1. CASE UNCHANGED vars
    BY <1>1 DEF Relay!vars, vars
  <1>2. ASSUME NEW k \in Topics \ {"ack"}, Publish(k) PROVE Relay!Next
    <2>1. Relay!Publish(k)
      BY <1>2 DEF Publish, Relay!Publish, historyVars
    <2> QED
      BY <2>1 DEF Relay!Next, Relay!Topics, Topics, Relay!RoutedTopics, RoutedTopics,
         Relay!NormalTopics, NormalTopics
  <1>3. CASE Connect \/ ConnectFails \/ ReadEvent \/ SendDistress \/ SendNormal
    BY <1>3 DEF Relay!vars, Connect, ConnectFails, ReadEvent, SendDistress, SendNormal,
       historyVars
  <1>4. ASSUME NEW end \in Ended, StreamEnds(end) PROVE UNCHANGED Relay!vars
    BY <1>4 DEF Relay!vars, StreamEnds, historyVars
  <1>5. CASE TakeDistress
    BY <1>5, <1>t DEF TakeDistress
  <1>6. CASE TakeNormal
    BY <1>6, <1>t DEF TakeNormal
  <1>7. CASE BreakOnDistress \/ SkipDistress \/ BreakOnNormal \/ Park \/ Wake
    BY <1>7 DEF Relay!vars, BreakOnDistress, SkipDistress, BreakOnNormal, Park, Wake,
       historyVars
  <1>8. CASE SendmailAccepts
    BY <1>8, <1>a DEF SendmailAccepts
  <1>9. CASE SendmailFails
    BY <1>9, <1>a DEF Relay!vars, SendmailFails
  <1>10. CASE Backoff \/ AckFails \/ SaveState \/ Restart
    BY <1>10 DEF Relay!vars, Backoff, AckFails, SaveState, Restart, historyVars
  <1>11. CASE PublishAck
    <2>1. /\ taken # << >> /\ Topic \in AckedTopics
          /\ \A i \in DOMAIN acks : acks[i].id # Current
          /\ delivered => Current \in accepted
      BY <1>11 DEF PublishAck, Inductive, BusyOnTaken, AnswersCurrent
    <2>2. Relay!Acknowledge(delivered)
      BY <1>11, <2>1 DEF PublishAck, Relay!Acknowledge, Relay!Unanswered,
         Relay!Current, Current, Topic, Relay!AckedTopics, AckedTopics
    <2>3. delivered \in BOOLEAN
      BY DEF TypeOK
    <2> QED
      BY <2>2, <2>3 DEF Relay!Next
  <1>12. CASE Exit
    BY <1>12 DEF Relay!vars, Exit, Stopped
  <1>13. CASE Crash
    BY <1>13, <1>a DEF Relay!vars, Crash, Stopped
  <1> QED
    BY <1>1, <1>2, <1>3, <1>4, <1>5, <1>6, <1>7, <1>8, <1>9, <1>10, <1>11,
       <1>12, <1>13 DEF Next

\* Every behaviour of the daemon is one that FamilyRelay promises.
THEOREM ImplementsRelay == Spec => KeepsRelayPromise
  <1>1. Init => Relay!Init
    BY RelayInit
  <1>2. (TypeOK /\ Inductive) /\ [Next]_vars => [Relay!Next]_(Relay!vars)
    BY RelayStep
  <1> QED
    BY <1>1, <1>2, InductiveInvariant, PTL DEF Spec, Relay!Spec, KeepsRelayPromise

-----------------------------------------------------------------------------
(* What the promise implies. *)

\* A step of the relay keeps the acknowledgements true and in order.
LEMMA RelayKeepsAcks ==
    ASSUME TypeOK, Inductive, TruthfulAcks, AcksFollowDispatch,
           [Relay!Next]_(Relay!vars)
    PROVE  TruthfulAcks' /\ AcksFollowDispatch'
  <1> USE DEF TruthfulAcks, AcksFollowDispatch, Relay!TruthfulAcks,
              Relay!AcksFollowDispatch
  <1>1. /\ taken \in Seq(Nat) /\ acks \in Seq(Ack) /\ bus \in Seq(Topics)
        /\ \A i \in DOMAIN acks : acks[i].id \in Elements(taken)
    BY DEF TypeOK, Inductive, AnswersCurrent
  <1>2. ASSUME UNCHANGED <<taken, acks>>, accepted \subseteq accepted'
        PROVE  TruthfulAcks' /\ AcksFollowDispatch'
    BY <1>2
  <1>3. ASSUME NEW e \in DOMAIN bus, Relay!Dispatch(e)
        PROVE  TruthfulAcks' /\ AcksFollowDispatch'
    <2>1. /\ taken' = Append(taken, e) /\ e \in Nat
          /\ UNCHANGED <<accepted, acks>>
      BY <1>1, <1>3, LenProperties DEF Relay!Dispatch
    <2>2. DOMAIN taken' = DOMAIN taken \cup {Len(taken) + 1}
      BY <1>1, <2>1, AppendFacts
    <2>3. \A i \in DOMAIN taken : taken'[i] = taken[i]
      BY <1>1, <2>1, AppendFacts
    <2> QED
      BY <2>1, <2>2, <2>3
  <1>4. ASSUME NEW d \in BOOLEAN, Relay!Acknowledge(d)
        PROVE  TruthfulAcks' /\ AcksFollowDispatch'
    <2> DEFINE a == [id |-> Current, delivered |-> d]
    <2>1. /\ taken # << >> /\ \A i \in DOMAIN acks : acks[i].id # Current
          /\ d => Current \in accepted
          /\ acks' = Append(acks, a) /\ UNCHANGED <<taken, accepted>>
      BY <1>4 DEF Relay!Acknowledge, Relay!Unanswered, Relay!Current, Current
    <2>2. /\ Len(taken) \in DOMAIN taken /\ DOMAIN taken = 1 .. Len(taken)
          /\ Len(taken) \in Nat /\ Current \in Nat
      BY <1>1, <2>1, LenProperties DEF Current
    <2>3. a \in Ack /\ a.id = Current /\ a.delivered = d
      BY <2>2 DEF Ack
    <2> HIDE DEF a
    <2>4. /\ DOMAIN acks' = DOMAIN acks \cup {Len(acks) + 1}
          /\ DOMAIN acks = 1 .. Len(acks) /\ Len(acks) \in Nat
          /\ \A i \in DOMAIN acks : acks'[i] = acks[i]
          /\ acks'[Len(acks) + 1] = a
      BY <1>1, <2>1, <2>3, AppendFacts
    <2>5. TruthfulAcks'
      BY <2>1, <2>3, <2>4
    <2>6. ASSUME NEW i \in DOMAIN acks
          PROVE  \E m \in DOMAIN taken : m < Len(taken) /\ taken[m] = acks[i].id
      <3>1. PICK m \in DOMAIN taken : taken[m] = acks[i].id
        BY <1>1 DEF Elements
      <3>2. m # Len(taken)
        BY <2>1, <3>1 DEF Current
      <3> QED
        BY <2>2, <3>1, <3>2
    <2>7. ASSUME NEW i \in DOMAIN acks', NEW j \in DOMAIN acks', i < j
          PROVE  \E m, n \in DOMAIN taken :
                    m < n /\ taken[m] = acks'[i].id /\ taken[n] = acks'[j].id
      <3>1. i \in DOMAIN acks
        BY <2>4, <2>7
      <3>2. CASE j \in DOMAIN acks
        BY <2>4, <2>7, <3>1, <3>2
      <3>3. CASE j = Len(acks) + 1
        BY <2>2, <2>3, <2>4, <2>6, <3>1, <3>3 DEF Current
      <3> QED
        BY <2>4, <3>2, <3>3
    <2>8. AcksFollowDispatch'
      BY <2>1, <2>7
    <2> QED
      BY <2>5, <2>8
  <1> QED
    BY <1>2, <1>3, <1>4 DEF Relay!Next, Relay!vars, Relay!Publish, Relay!Accept

LEMMA RelayAcks == Spec => [](TruthfulAcks /\ AcksFollowDispatch)
  <1> DEFINE Acks == TruthfulAcks /\ AcksFollowDispatch
  <1>1. Init => Acks
    BY DEF Init, TruthfulAcks, AcksFollowDispatch, Relay!TruthfulAcks,
           Relay!AcksFollowDispatch
  <1>2. (TypeOK /\ Inductive) /\ Acks /\ [Next]_vars => Acks'
    BY RelayStep, RelayKeepsAcks
  <1> QED
    BY <1>1, <1>2, InductiveInvariant, PTL DEF Spec

\* An acknowledgement says "delivered" only of an event whose mail was accepted.
THEOREM AcksAreTruthful == Spec => []TruthfulAcks
  BY RelayAcks, PTL

\* Acknowledgements come in the order of dispatch, at most one for an event.
THEOREM AcksInOrder == Spec => []AcksFollowDispatch
  BY RelayAcks, PTL
=============================================================================
