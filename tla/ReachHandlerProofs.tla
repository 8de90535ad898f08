-------------------------- MODULE ReachHandlerProofs --------------------------
(***************************************************************************)
(* Proofs about the handlers of the daemon: they climb the ladder of          *)
(* distress_delivery.rs, and leave nothing unanswered but for a fault.        *)
(***************************************************************************)
EXTENDS ReachDaemonProofs, FiniteSetTheorems

InHandler == {"calling", "backoff", "acking", "saving"}

\* Nothing has accepted the mail while the handler still tries.
NotYetDelivered == disp \in {"calling", "backoff"} => delivered = FALSE

\* What happened stays as it is: the bus and the events dispatched grow.
Grows ==
    /\ \A e \in 1 .. Len(bus) : bus'[e] = bus[e]
    /\ \A i \in DOMAIN taken : i \in DOMAIN taken' /\ taken'[i] = taken[i]

\* The steps, as the handlers see them.
LEMMA HandlerCases ==
    ASSUME Typed, Ordered, [Next]_vars
    PROVE  /\ Grows
           /\ faults' \in {faults, faults + 1}
           /\ \/ UNCHANGED <<taken, acks, disp, tries, delivered>>
              \/ disp \notin InHandler /\ disp' \notin InHandler /\ UNCHANGED <<taken, acks>>
              \/ /\ disp \in {"pollDistress", "pollNormal"}
                 /\ \E q \in {distressQ, normalQ} : q # << >> /\ Take(Head(q))
              \/ SendmailAccepts \/ SendmailFails \/ Backoff
              \/ PublishAck \/ AckFails \/ SaveState \/ Crash
  <1>0. Len(bus) \in Nat /\ bus \in Seq(Topics) /\ taken \in Seq(Nat)
    BY LenProperties DEF Typed, TypeOK
  <1>1. CASE UNCHANGED vars
    BY <1>1 DEF vars, Grows
  <1>2. ASSUME NEW k \in Topics \ {"ack"}, Publish(k)
        PROVE  Grows /\ UNCHANGED <<taken, acks, disp, tries, delivered, faults>>
    BY <1>0, <1>2, AppendProperties
       DEF Publish, Grows, streamVars, handlerVars, historyVars
  <1>3. ASSUME \/ Connect \/ ConnectFails \/ ReadEvent \/ SendDistress \/ SendNormal
               \/ \E end \in Ended : StreamEnds(end)
        PROVE  /\ UNCHANGED <<bus, taken, acks, disp, tries, delivered>>
               /\ faults' \in {faults, faults + 1}
    BY <1>3 DEF Connect, ConnectFails, ReadEvent, SendDistress, SendNormal, StreamEnds, Fault,
       streamVars, handlerVars, historyVars
  <1>4. ASSUME NEW q \in {distressQ, normalQ}, q # << >>, Take(Head(q))
        PROVE  Grows /\ faults' = faults
    <2>1. q \in Seq(Nat) /\ Head(q) \in Nat
      BY <1>4, TailFacts DEF Typed, TypeOK
    <2>2. \A i \in DOMAIN taken : i \in DOMAIN Append(taken, Head(q))
                                  /\ Append(taken, Head(q))[i] = taken[i]
      BY <1>0, <2>1, AppendFacts
    <2> QED BY <1>4, <2>2 DEF Take, Grows
  <1>5. CASE TakeDistress \/ TakeNormal
    <2>1. /\ disp \in {"pollDistress", "pollNormal"}
          /\ \E q \in {distressQ, normalQ} : q # << >> /\ Take(Head(q))
      BY <1>5 DEF TakeDistress, TakeNormal
    <2> QED BY <1>4, <2>1
  <1>6. ASSUME BreakOnDistress \/ SkipDistress \/ BreakOnNormal \/ Park \/ Wake
        PROVE  /\ disp \notin InHandler /\ disp' \notin InHandler
               /\ UNCHANGED <<bus, taken, acks, faults>>
    BY <1>6 DEF BreakOnDistress, SkipDistress, BreakOnNormal, Park, Wake, InHandler,
       historyVars
  <1>7. CASE SendmailAccepts \/ SendmailFails \/ Backoff \/ SaveState \/ AckFails
    BY <1>7 DEF SendmailAccepts, SendmailFails, Backoff, SaveState, AckFails, Fault, Grows,
       historyVars
  <1>8. CASE PublishAck
    BY <1>0, <1>8, AppendProperties DEF PublishAck, Grows, Topics
  <1>9. ASSUME Exit \/ Restart
        PROVE  /\ disp \notin InHandler /\ disp' \notin InHandler
               /\ UNCHANGED <<bus, taken, acks, faults>>
    BY <1>9 DEF Exit, Restart, Stopped, InHandler, historyVars, Typed, DownIsGone
  <1>10. CASE Crash
    BY <1>10 DEF Crash, Stopped, Fault, Grows
  <1> QED
    BY <1>1, <1>2, <1>3, <1>5, <1>6, <1>7, <1>8, <1>9, <1>10 DEF Next, Grows

\* The topic of an event that was dispatched does not change.
LEMMA TopicStays ==
    ASSUME Typed, Ordered, Grows, taken' = taken, taken # << >>
    PROVE  Topic' = Topic
  BY CurrentOnBus DEF Grows, Topic, Current

LEMMA NotYetDeliveredStep ==
    Typed /\ Ordered /\ NotYetDelivered /\ [Next]_vars => NotYetDelivered'
  <1> SUFFICES ASSUME Typed, Ordered, NotYetDelivered, [Next]_vars
               PROVE  NotYetDelivered'
    OBVIOUS
  <1> QED
    BY HandlerCases DEF NotYetDelivered, InHandler, Take, SendmailAccepts, SendmailFails,
       Settled, Backoff, PublishAck, AckFails, SaveState, Crash, Stopped

-----------------------------------------------------------------------------
(* The ladder *)

\* The calls of a handler that made n, the last of which delivered if d.
CallsMade(n, d) ==
    [i \in 1 .. n |->
        [by |-> 0, outcome |-> IF i = n /\ d THEN "delivered" ELSE "nack"]]

LEMMA CallsMadeFacts ==
    ASSUME NEW n \in Nat, NEW d \in BOOLEAN
    PROVE  /\ CallsMade(0, d) = << >>
           /\ Len(CallsMade(n, d)) = n
           /\ CallsMade(n + 1, d)
                = Append(CallsMade(n, FALSE),
                         [by |-> 0, outcome |-> IF d THEN "delivered" ELSE "nack"])
  <1> DEFINE C == [by : {0}, outcome : {"delivered", "nack"}]
             c == [by |-> 0, outcome |-> IF d THEN "delivered" ELSE "nack"]
             s == CallsMade(n, FALSE)
             t == CallsMade(n + 1, d)
  <1>1. s \in Seq(C) /\ Len(s) = n /\ \A i \in 1 .. n : s[i] = [by |-> 0, outcome |-> "nack"]
    BY DEF CallsMade
  <1>2. /\ t \in Seq(C) /\ Len(t) = n + 1 /\ t[n + 1] = c
        /\ \A i \in 1 .. n : t[i] = [by |-> 0, outcome |-> "nack"]
    BY DEF CallsMade
  <1>3. CallsMade(0, d) = << >> /\ Len(CallsMade(n, d)) = n
    BY DEF CallsMade
  <1>4. c \in C
    OBVIOUS
  <1> HIDE DEF s, t, c
  <1>5. Append(s, c) \in Seq(C) /\ Len(Append(s, c)) = n + 1
        /\ Append(s, c)[n + 1] = c /\ \A i \in 1 .. n : Append(s, c)[i] = s[i]
    BY <1>1, <1>4, AppendProperties
  <1>6. t = Append(s, c)
    BY <1>1, <1>2, <1>5, SeqEqual
  <1> QED BY <1>3, <1>6 DEF s, t, c

\* Where the ladder is, seen from a handler that is on it and one that is not.
Resting == ~OnLadder \/ disp \notin InHandler

OffLadder == LadderPhase = "idle" /\ LadderCalls = << >>

Climbing ==
    /\ LadderCalls = CallsMade(tries, delivered)
    /\ disp = "calling" => LadderPhase = "primary"
    /\ disp = "backoff" => LadderPhase = "backoff"
    /\ disp \in {"acking", "saving"} =>
          LadderPhase = IF delivered THEN "delivered" ELSE "exhausted"

LEMMA WhereOnTheLadder ==
    /\ Resting => OffLadder
    /\ Resting' => OffLadder'
    /\ ~Resting => Climbing
    /\ (~Resting)' => Climbing'
  <1>1. Resting => OffLadder
    BY DEF Resting, OffLadder, LadderPhase, LadderCalls, InHandler
  <1>2. ~Resting => Climbing
    BY DEF Resting, Climbing, LadderPhase, LadderCalls, CallsMade, InHandler
  <1>3. Resting' => OffLadder'
    BY DEF Resting, OffLadder, LadderPhase, LadderCalls, InHandler
  <1>4. (~Resting)' => Climbing'
    BY DEF Resting, Climbing, LadderPhase, LadderCalls, CallsMade, InHandler
  <1> QED BY <1>1, <1>2, <1>3, <1>4

\* A handler that ends, well or badly, leaves the ladder.
LEMMA LeavesTheLadder == Resting' => [Ladder!Next]_(Ladder!vars)
  <1> SUFFICES ASSUME Resting' PROVE [Ladder!Next]_(Ladder!vars)
    OBVIOUS
  <1>1. OffLadder'
    BY WhereOnTheLadder
  <1>2. CASE Resting
    BY <1>1, <1>2, WhereOnTheLadder DEF OffLadder, Ladder!vars
  <1>3. CASE ~Resting
    <2>1. LadderPhase \in Ladder!Running \cup Ladder!Finished
      BY <1>3, WhereOnTheLadder
         DEF Resting, InHandler, Climbing, Ladder!Running, Ladder!Finished
    <2> QED BY <1>1, <2>1 DEF OffLadder, Ladder!Next, Ladder!Leave, Ladder!Die
  <1> QED BY <1>2, <1>3

LEMMA LadderStep ==
    Typed /\ Ordered /\ NotYetDelivered /\ [Next]_vars => [Ladder!Next]_(Ladder!vars)
  <1> SUFFICES ASSUME Typed, Ordered, NotYetDelivered, [Next]_vars, ~Resting'
               PROVE  [Ladder!Next]_(Ladder!vars)
    BY LeavesTheLadder
  <1> DEFINE policy == [retries |-> MaxRetries, fallbacks |-> 0]
  <1>0. /\ Grows /\ tries \in Nat /\ delivered \in BOOLEAN
        /\ MaxRetries \in 0 .. U32Max /\ U32Max \in Nat \ {0}
        /\ taken \in Seq(Nat)
    BY HandlerCases, DaemonAssumption DEF Typed, TypeOK
  <1>1. Climbing' /\ OnLadder' /\ disp' \in InHandler
    BY WhereOnTheLadder DEF Resting
  <1>2. policy \in Ladder!Policies /\ Ladder!MaxAttempts(MaxRetries) \in Nat \ {0}
    BY <1>0 DEF Ladder!Policies, Ladder!MaxAttempts
  <1>3. ASSUME UNCHANGED taken, disp \in InHandler
        PROVE  /\ taken # << >> /\ Topic' = Topic /\ OnLadder /\ ~Resting /\ Climbing
    <2>1. taken # << >>
      BY <1>3 DEF Typed, BusyOnTaken, InHandler
    <2>2. Topic' = Topic
      BY <1>0, <1>3, <2>1, TopicStays
    <2>3. OnLadder
      BY <1>1, <2>1, <2>2 DEF OnLadder
    <2> QED BY <1>3, <2>1, <2>2, <2>3, WhereOnTheLadder DEF Resting
  <1>4. CASE UNCHANGED <<taken, disp, tries, delivered>>
    <2>1. Climbing /\ disp \in InHandler
      BY <1>1, <1>3, <1>4
    <2>2. LadderPhase' = LadderPhase /\ LadderCalls' = LadderCalls
      BY <1>1, <1>4, <2>1 DEF Climbing, InHandler, CallsMade
    <2> QED BY <2>2 DEF Ladder!vars
  <1>5. ASSUME disp \in {"pollDistress", "pollNormal"},
               NEW q \in {distressQ, normalQ}, q # << >>, Take(Head(q))
        PROVE  Ladder!Next
    <2>1. Resting /\ OffLadder
      BY <1>5, WhereOnTheLadder DEF Resting, InHandler
    <2>2. tries' = 0 /\ disp' = "calling" /\ delivered' = FALSE
      BY <1>1, <1>5 DEF Take, InHandler
    <2>3. LadderPhase' = "primary" /\ LadderCalls' = << >>
      BY <1>1, <2>2, CallsMadeFacts DEF Climbing
    <2>4. Ladder!Start(policy)
      BY <1>2, <2>1, <2>3 DEF OffLadder, Ladder!Start
    <2> QED BY <1>2, <2>4 DEF Ladder!Next
  <1>6. CASE SendmailAccepts
    <2>1. /\ disp = "calling" /\ taken' = taken /\ tries' = tries + 1 /\ delivered' = TRUE
          /\ disp' \in {"acking", "saving"} /\ delivered = FALSE
      BY <1>6 DEF SendmailAccepts, Settled, NotYetDelivered
    <2>2. /\ LadderPhase = "primary" /\ LadderCalls = CallsMade(tries, FALSE)
      BY <1>3, <2>1 DEF InHandler, Climbing
    <2>3. /\ LadderPhase' = "delivered"
          /\ LadderCalls' = Append(LadderCalls, [by |-> 0, outcome |-> "delivered"])
      BY <1>0, <1>1, <2>1, <2>2, CallsMadeFacts DEF Climbing
    <2>4. Ladder!PrimaryReturns("delivered")
      BY <2>2, <2>3 DEF Ladder!PrimaryReturns, Ladder!Returned
    <2> QED BY <2>4 DEF Ladder!Next, Ladder!Outcomes
  <1>7. CASE SendmailFails
    <2>1. /\ disp = "calling" /\ taken' = taken /\ tries' = tries + 1 /\ delivered' = FALSE
          /\ disp' = IF tries + 1 < Attempts THEN "backoff" ELSE Settled
          /\ Settled \in {"acking", "saving"} /\ delivered = FALSE
      BY <1>7 DEF SendmailFails, Settled, NotYetDelivered
    <2>2. OnLadder /\ LadderPhase = "primary" /\ LadderCalls = CallsMade(tries, FALSE)
      BY <1>3, <2>1 DEF InHandler, Climbing
    <2>3. /\ LadderCalls' = Append(LadderCalls, [by |-> 0, outcome |-> "nack"])
          /\ Len(LadderCalls') = tries + 1
      <3>1. LadderCalls' = CallsMade(tries + 1, FALSE)
        BY <1>1, <2>1 DEF Climbing
      <3>2. CallsMade(tries + 1, FALSE)
              = Append(CallsMade(tries, FALSE),
                       [by |-> 0, outcome |-> IF FALSE THEN "delivered" ELSE "nack"])
        BY <1>0, CallsMadeFacts
      <3>3. tries + 1 \in Nat
        BY <1>0
      <3>4. Len(CallsMade(tries + 1, FALSE)) = tries + 1
        BY <3>3, CallsMadeFacts
      <3> QED BY <2>2, <3>1, <3>2, <3>4
    <2>4. Attempts = Ladder!MaxAttempts(MaxRetries)
      BY <2>2 DEF Attempts, OnLadder, Ladder!MaxAttempts
    <2>5. LadderPhase' = IF tries + 1 < Attempts THEN "backoff" ELSE "exhausted"
      BY <1>1, <2>1 DEF Climbing
    <2>6. LadderPhase' = Ladder!PhaseAfterNack(policy, tries + 1)
      BY <1>0, <1>2, <2>4, <2>5 DEF Ladder!PhaseAfterNack
    <2>7. Ladder!PrimaryReturns("nack")
      BY <2>2, <2>3, <2>6 DEF Ladder!PrimaryReturns, Ladder!Returned
    <2> QED BY <2>7 DEF Ladder!Next, Ladder!Outcomes
  <1>8. CASE Backoff
    <2>1. /\ disp = "backoff" /\ disp' = "calling"
          /\ UNCHANGED <<taken, tries, delivered>>
      BY <1>8 DEF Backoff, historyVars
    <2>2. LadderPhase = "backoff" /\ LadderPhase' = "primary" /\ LadderCalls' = LadderCalls
      BY <1>1, <1>3, <2>1 DEF InHandler, Climbing, CallsMade
    <2> QED BY <2>2 DEF Ladder!Next, Ladder!Backoff
  <1>9. ~(PublishAck \/ AckFails \/ SaveState \/ Crash \/ disp' \notin InHandler)
    BY <1>1 DEF PublishAck, AckFails, SaveState, Crash, Stopped, InHandler
  <1> QED BY <1>4, <1>5, <1>6, <1>7, <1>8, <1>9, HandlerCases

-----------------------------------------------------------------------------
(* What is unanswered *)

Answered == {acks[i].id : i \in DOMAIN acks}

Unanswered ==
    {i \in DOMAIN taken : bus[taken[i]] \in AckedTopics /\ taken[i] \notin Answered}

\* The handler is about to answer its event.
Awaited ==
    IF disp \in {"calling", "backoff", "acking"} /\ Topic \in AckedTopics THEN 1 ELSE 0

\* What is unanswered is being answered, or a fault prevented it.
AnswersPaid == Cardinality(Unanswered) <= faults + Awaited

LEMMA UnansweredIsFinite ==
    ASSUME Typed
    PROVE  /\ IsFiniteSet(Unanswered) /\ Cardinality(Unanswered) \in Nat
           /\ faults \in Nat /\ Awaited \in {0, 1}
  <1>1. DOMAIN taken = 1 .. Len(taken) /\ Len(taken) \in Nat
    BY LenProperties DEF Typed, TypeOK
  <1>2. IsFiniteSet(DOMAIN taken)
    BY <1>1, FS_Interval
  <1>3. IsFiniteSet(Unanswered)
    BY <1>2, FS_Subset DEF Unanswered
  <1> QED BY <1>3, FS_CardinalityType, DaemonAssumption DEF Awaited, Typed, TypeOK

\* The events dispatched before keep their topics.
LEMMA DispatchedStay ==
    ASSUME Typed, Ordered, Grows, NEW i \in DOMAIN taken
    PROVE  bus'[taken'[i]] = bus[taken[i]]
  <1>1. taken[i] \in 1 .. LastSent
    BY DEF Ordered, TakenWereSent
  <1>2. taken[i] \in 1 .. Len(bus)
    BY <1>1, LastSentBound, LenProperties DEF Typed, TypeOK, Ordered
  <1> QED BY <1>2 DEF Grows

LEMMA AnswersPaidStep ==
    /\ Typed /\ Ordered /\ AnswersCurrent /\ AnswersPaid
    /\ Typed' /\ [Next]_vars
    => AnswersPaid'
  <1> SUFFICES ASSUME Typed, Ordered, AnswersCurrent, AnswersPaid, Typed', [Next]_vars
               PROVE  AnswersPaid'
    OBVIOUS
  <1>0. /\ Grows /\ faults' \in {faults, faults + 1}
        /\ faults \in Nat /\ faults' \in Nat
        /\ IsFiniteSet(Unanswered) /\ Cardinality(Unanswered) \in Nat
        /\ Awaited \in {0, 1} /\ Awaited' \in {0, 1}
        /\ taken \in Seq(Nat) /\ DOMAIN taken = 1 .. Len(taken) /\ Len(taken) \in Nat
    BY HandlerCases, UnansweredIsFinite, LenProperties, DaemonAssumption
       DEF Typed, TypeOK, Awaited
  <1>1. ASSUME UNCHANGED <<taken, acks>> PROVE Unanswered' = Unanswered
    BY <1>0, <1>1, DispatchedStay DEF Unanswered, Answered
  <1>2. ASSUME Unanswered' = Unanswered,
               Awaited' = Awaited \/ Awaited = 0 \/ faults' = faults + 1
        PROVE  AnswersPaid'
    <2>1. Cardinality(Unanswered) <= faults + Awaited
      BY DEF AnswersPaid
    <2>2. \A u \in Nat, f \in Nat, a, b \in {0, 1} :
             u <= f + a /\ (b = a \/ a = 0) => u <= f + b /\ u <= f + 1 + b
      OBVIOUS
    <2>3. \A u \in Nat, f \in Nat, a, b \in {0, 1} : u <= f + a => u <= f + 1 + b
      OBVIOUS
    <2>4. Cardinality(Unanswered) <= faults' + Awaited'
      BY <1>0, <1>2, <2>1, <2>2, <2>3
    <2> QED BY <1>2, <2>4 DEF AnswersPaid
  <1>3. ASSUME UNCHANGED taken, disp \in InHandler PROVE Topic' = Topic
    BY <1>0, <1>3, TopicStays DEF Typed, BusyOnTaken, InHandler
  <1>4. CASE UNCHANGED <<taken, acks, disp, tries, delivered>>
    <2>1. Awaited' = Awaited
      BY <1>3, <1>4 DEF Awaited, InHandler
    <2> QED BY <1>1, <1>2, <1>4, <2>1
  <1>5. CASE disp \notin InHandler /\ disp' \notin InHandler /\ UNCHANGED <<taken, acks>>
    <2>1. Awaited = 0
      BY <1>5 DEF Awaited, InHandler
    <2> QED BY <1>1, <1>2, <1>5, <2>1
  <1>6. ASSUME disp \in {"pollDistress", "pollNormal"},
               NEW q \in {distressQ, normalQ}, q # << >>, Take(Head(q))
        PROVE  AnswersPaid'
    <2> DEFINE e == Head(q)
               n == Len(taken) + 1
    <2>1. /\ taken' = Append(taken, e) /\ acks' = acks /\ bus' = bus /\ faults' = faults
          /\ disp' = "calling" \/ bus[e] \in GatedTopics
          /\ Awaited = 0
      BY <1>6 DEF Take, Awaited
    <2>2. q \in Seq(Nat)
      BY DEF Typed, TypeOK
    <2>3. e \in Nat
      BY <1>6, <2>2, TailFacts
    <2>4. /\ DOMAIN taken' = DOMAIN taken \cup {n} /\ Len(taken') = n /\ taken'[n] = e
          /\ \A i \in DOMAIN taken : taken'[i] = taken[i]
      BY <1>0, <2>1, <2>3, AppendFacts
    <2>5. Unanswered' \subseteq Unanswered \cup {n}
      BY <2>1, <2>4 DEF Unanswered, Answered
    <2>6. Topic' = bus[e]
      BY <2>1, <2>4 DEF Topic, Current
    <2>7. CASE bus[e] \in AckedTopics
      <3>1. disp' = "calling" /\ Awaited' = 1
        BY <2>1, <2>6, <2>7 DEF Awaited, AckedTopics, GatedTopics
      <3>2. /\ IsFiniteSet(Unanswered \cup {n})
            /\ Cardinality(Unanswered \cup {n}) <= Cardinality(Unanswered) + 1
        <4> HIDE DEF n
        <4>1. /\ IsFiniteSet(Unanswered \cup {n})
              /\ Cardinality(Unanswered \cup {n})
                   \in {Cardinality(Unanswered), Cardinality(Unanswered) + 1}
          BY <1>0, FS_AddElement
        <4> QED BY <1>0, <4>1
      <3>3. Cardinality(Unanswered') <= Cardinality(Unanswered \cup {n})
        BY <2>5, <3>2, FS_Subset
      <3>4. Cardinality(Unanswered') \in Nat /\ Cardinality(Unanswered \cup {n}) \in Nat
        BY <2>5, <3>2, FS_Subset, FS_CardinalityType
      <3>5. Cardinality(Unanswered)  <= faults
        BY <2>1, <1>0 DEF AnswersPaid
      <3>6. Cardinality(Unanswered') <= faults + 1
        BY <1>0, <3>2, <3>3, <3>4, <3>5
      <3> QED BY <2>1, <3>1, <3>6 DEF AnswersPaid
    <2>8. CASE bus[e] \notin AckedTopics
      <3>1. n \notin Unanswered'
        BY <2>1, <2>4, <2>8 DEF Unanswered
      <3>2. Unanswered' = Unanswered
        BY <2>1, <2>4, <3>1, <2>5 DEF Unanswered, Answered
      <3> QED BY <1>2, <2>1, <3>2
    <2> QED BY <2>7, <2>8
  <1>7. CASE SendmailAccepts \/ SendmailFails \/ Backoff \/ SaveState
    <2>1. UNCHANGED <<taken, acks, faults>> /\ disp \in InHandler
      BY <1>7 DEF SendmailAccepts, SendmailFails, Backoff, SaveState, historyVars, InHandler
    <2>2. Topic' = Topic
      BY <1>3, <2>1
    <2>3. Awaited' = Awaited
      BY <1>7, <2>2 DEF SendmailAccepts, SendmailFails, Backoff, SaveState, Settled, Awaited
    <2> QED BY <1>1, <1>2, <2>1, <2>3
  <1>8. CASE AckFails \/ Crash
    <2>1. UNCHANGED <<taken, acks>> /\ faults' = faults + 1
      BY <1>8 DEF AckFails, Crash, Fault, Stopped, historyVars
    <2> QED BY <1>1, <1>2, <2>1
  <1>9. CASE PublishAck
    <2> DEFINE n == Len(taken)
               a == [id |-> Current, delivered |-> delivered]
    <2>1. /\ disp = "acking" /\ taken' = taken /\ acks' = Append(acks, a)
          /\ faults' = faults /\ Awaited' = 0
      BY <1>9 DEF PublishAck, Awaited
    <2>2. /\ taken # << >> /\ Topic \in AckedTopics
          /\ \A i \in DOMAIN acks : acks[i].id # Current
      BY <2>1 DEF Typed, BusyOnTaken, AnswersCurrent
    <2>3. n \in DOMAIN taken /\ taken[n] = Current /\ Current \in Nat
      BY <2>2, CurrentType DEF Current, Typed
    <2>4. n \in Unanswered /\ Awaited = 1
      BY <2>1, <2>2, <2>3 DEF Unanswered, Answered, Awaited, Topic
    <2>5. a \in Ack /\ acks \in Seq(Ack)
      BY <2>3 DEF Ack, Typed, TypeOK
    <2>6. /\ \A i \in DOMAIN acks : i \in DOMAIN acks' /\ acks'[i] = acks[i]
          /\ Len(acks) + 1 \in DOMAIN acks' /\ acks'[Len(acks) + 1] = a
      BY <2>1, <2>5, AppendFacts
    <2>7. Answered \subseteq Answered' /\ Current \in Answered'
      BY <2>6 DEF Answered
    <2>8. Unanswered' \subseteq Unanswered \ {n}
      <3> SUFFICES ASSUME NEW i \in Unanswered' PROVE i \in Unanswered \ {n}
        OBVIOUS
      <3>1. i \in DOMAIN taken /\ taken'[i] = taken[i]
        BY <2>1 DEF Unanswered
      <3>2. bus'[taken'[i]] = bus[taken[i]]
        BY <1>0, <3>1, DispatchedStay
      <3> QED BY <2>3, <2>7, <3>1, <3>2 DEF Unanswered
    <2>9. /\ IsFiniteSet(Unanswered \ {n})
          /\ Cardinality(Unanswered \ {n}) = Cardinality(Unanswered) - 1
      BY <1>0, <2>4, FS_RemoveElement
    <2>10. Cardinality(Unanswered') <= Cardinality(Unanswered) - 1
      BY <2>8, <2>9, FS_Subset
    <2>11. Cardinality(Unanswered) - 1 <= faults
      BY <1>0, <2>4 DEF AnswersPaid
    <2>12. Cardinality(Unanswered') \in Nat
      BY <2>8, <2>9, FS_Subset, FS_CardinalityType
    <2>13. Cardinality(Unanswered') <= faults
      BY <1>0, <2>10, <2>11, <2>12
    <2> QED BY <1>0, <2>1, <2>13 DEF AnswersPaid
  <1> QED BY <1>4, <1>5, <1>6, <1>7, <1>8, <1>9, HandlerCases

-----------------------------------------------------------------------------
(* Progress *)

\* A running daemon has both tasks, and the dispatcher ends after the subscriber.
TasksAlive ==
    /\ proc = "up" => sub # "gone" /\ disp # "gone"
    /\ disp = "done" => sub \in Ended

\* A handler that is about to call sendmail has an attempt left.
AttemptsLeft == disp \in {"calling", "backoff"} => tries < Attempts

LEMMA SomeAttempts == Attempts \in Nat \ {0} /\ Attempts' \in Nat \ {0}
  BY DaemonAssumption DEF Attempts

LEMMA TasksAliveStep ==
    Typed /\ TasksAlive /\ [Next]_vars => TasksAlive'
  <1> SUFFICES ASSUME Typed, TasksAlive, [Next]_vars PROVE TasksAlive'
    OBVIOUS
  <1> USE DEF TasksAlive, streamVars, handlerVars, historyVars, Ended
  <1>1. CASE UNCHANGED vars
    BY <1>1 DEF vars
  <1>2. ASSUME NEW k \in Topics \ {"ack"}, Publish(k) PROVE TasksAlive'
    BY <1>2 DEF Publish
  <1>3. CASE Connect \/ ConnectFails \/ ReadEvent \/ SendDistress \/ SendNormal
    BY <1>3 DEF Connect, ConnectFails, ReadEvent, SendDistress, SendNormal
  <1>4. ASSUME NEW end \in Ended, StreamEnds(end) PROVE TasksAlive'
    BY <1>4 DEF StreamEnds
  <1>5. CASE TakeDistress \/ TakeNormal
    BY <1>5 DEF TakeDistress, TakeNormal, Take
  <1>6. CASE BreakOnDistress \/ SkipDistress \/ BreakOnNormal \/ Park \/ Wake
    BY <1>6 DEF BreakOnDistress, SkipDistress, BreakOnNormal, Park, Wake
  <1>7. CASE SendmailAccepts \/ SendmailFails \/ Backoff \/ PublishAck \/ AckFails \/ SaveState
    BY <1>7 DEF SendmailAccepts, SendmailFails, Backoff, PublishAck, AckFails, SaveState, Settled
  <1>8. CASE Exit \/ Crash \/ Restart
    BY <1>8 DEF Exit, Crash, Restart, Stopped
  <1> QED
    BY <1>1, <1>2, <1>3, <1>4, <1>5, <1>6, <1>7, <1>8 DEF Next

LEMMA AttemptsLeftStep ==
    Typed /\ Ordered /\ AttemptsLeft /\ [Next]_vars => AttemptsLeft'
  <1> SUFFICES ASSUME Typed, Ordered, AttemptsLeft, [Next]_vars PROVE AttemptsLeft'
    OBVIOUS
  <1>1. ASSUME disp \in InHandler, Grows, taken' = taken PROVE Attempts' = Attempts
    <2>1. Topic' = Topic
      BY <1>1, TopicStays DEF Typed, BusyOnTaken, InHandler
    <2> QED BY <2>1 DEF Attempts
  <1>2. CASE UNCHANGED <<taken, acks, disp, tries, delivered>>
    BY <1>1, <1>2, HandlerCases DEF AttemptsLeft, InHandler
  <1>3. CASE disp' \notin InHandler
    BY <1>3 DEF AttemptsLeft, InHandler
  <1>4. ASSUME NEW e, Take(e) PROVE AttemptsLeft'
    BY <1>4, SomeAttempts DEF Take, AttemptsLeft
  <1>5. CASE SendmailFails
    <2>1. Attempts' = Attempts
      BY <1>1, <1>5, HandlerCases DEF SendmailFails, InHandler, historyVars
    <2> QED BY <1>5, <2>1 DEF SendmailFails, AttemptsLeft, Settled
  <1>6. CASE Backoff
    <2>1. Attempts' = Attempts
      BY <1>1, <1>6, HandlerCases DEF Backoff, InHandler, historyVars
    <2> QED BY <1>6, <2>1 DEF Backoff, AttemptsLeft
  <1>7. CASE SendmailAccepts \/ PublishAck \/ AckFails \/ SaveState \/ Crash
    BY <1>7 DEF SendmailAccepts, PublishAck, AckFails, SaveState, Crash, Stopped,
       AttemptsLeft, Settled
  <1> QED
    BY <1>2, <1>3, <1>4, <1>5, <1>6, <1>7, HandlerCases

LEMMA WorkIsNatural ==
    ASSUME Typed, Ordered, AttemptsLeft
    PROVE  HandlerWork \in Nat /\ StreamWork \in Nat /\ PollWork \in Nat
  <1>1. Attempts \in Nat /\ tries \in Nat /\ cursor \in Nat /\ Len(bus) \in Nat
        /\ cursor <= Len(bus)
    BY SomeAttempts, LenProperties DEF Typed, TypeOK, Ordered, ReadsRoutedEvents
  <1>2. HandlerWork \in Nat
    BY <1>1 DEF HandlerWork, AttemptsLeft
  <1>3. StreamWork \in Nat
    BY <1>1 DEF StreamWork
  <1> QED BY <1>2, <1>3 DEF PollWork

\* The subscriber's steps bring it nearer to the end of the bus.
LEMMA StreamProgress ==
    ASSUME Typed, Ordered, Connect \/ ReadEvent \/ SendDistress \/ SendNormal
    PROVE  taken' = taken /\ HandlerWork' = HandlerWork /\ StreamWork' < StreamWork
  <1>1. UNCHANGED <<bus, taken, disp, tries>>
    BY DEF Connect, ReadEvent, SendDistress, SendNormal, handlerVars, historyVars
  <1>2. taken' = taken /\ HandlerWork' = HandlerWork
    BY <1>1 DEF HandlerWork, Attempts, Topic, Current
  <1>3. cursor \in Nat /\ Len(bus) \in Nat /\ cursor <= Len(bus) /\ Len(bus') = Len(bus)
    BY <1>1, LenProperties DEF Typed, TypeOK, Ordered, ReadsRoutedEvents
  <1>4. ASSUME Connect PROVE StreamWork' < StreamWork
    <2>1. StreamWork = 2 * (Len(bus) - cursor) + 1
      BY <1>4 DEF Connect, StreamWork
    <2>2. StreamWork' = 2 * (Len(bus) - Len(bus)) + 0
      BY <1>3, <1>4 DEF Connect, StreamWork
    <2> QED BY <1>3, <2>1, <2>2
  <1>5. ASSUME ReadEvent PROVE StreamWork' < StreamWork
    <2>1. StreamWork = 2 * (Len(bus) - cursor) + 0
      BY <1>5 DEF ReadEvent, StreamWork
    <2>2. \E n \in {0, 1} : StreamWork' = 2 * (Len(bus) - (cursor + 1)) + n
      BY <1>3, <1>5 DEF ReadEvent, StreamWork
    <2> QED BY <1>3, <2>1, <2>2
  <1>6. ASSUME SendDistress \/ SendNormal PROVE StreamWork' < StreamWork
    <2>1. StreamWork = 2 * (Len(bus) - cursor) + 1
      BY <1>6 DEF SendDistress, SendNormal, StreamWork
    <2>2. StreamWork' = 2 * (Len(bus) - cursor) + 0
      BY <1>3, <1>6 DEF SendDistress, SendNormal, StreamWork
    <2> QED BY <1>3, <2>1, <2>2
  <1> QED BY <1>2, <1>4, <1>5, <1>6

\* A handler's steps use up its attempts.
LEMMA HandlerProgress ==
    ASSUME Typed, Ordered, AttemptsLeft, [Next]_vars,
           SendmailAccepts \/ SendmailFails \/ Backoff \/ PublishAck \/ SaveState
    PROVE  taken' = taken /\ HandlerWork' < HandlerWork
  <1>1. taken' = taken /\ taken # << >>
    BY DEF SendmailAccepts, SendmailFails, Backoff, PublishAck, SaveState, historyVars,
       Typed, BusyOnTaken
  <1>2. Attempts' = Attempts /\ Attempts \in Nat /\ tries \in Nat
    BY <1>1, HandlerCases, TopicStays, SomeAttempts DEF Attempts, Typed, TypeOK
  <1>3. ASSUME SendmailAccepts PROVE HandlerWork' < HandlerWork
    BY <1>2, <1>3 DEF SendmailAccepts, HandlerWork, Settled, AttemptsLeft
  <1>4. ASSUME SendmailFails PROVE HandlerWork' < HandlerWork
    BY <1>2, <1>4 DEF SendmailFails, HandlerWork, Settled, AttemptsLeft
  <1>5. ASSUME Backoff PROVE HandlerWork' < HandlerWork
    <2>1. HandlerWork = 2 * (Attempts - tries) + 3
      BY <1>5 DEF Backoff, HandlerWork
    <2>2. HandlerWork' = 2 * (Attempts - tries) + 2
      BY <1>2, <1>5 DEF Backoff, HandlerWork
    <2> QED BY <1>2, <2>1, <2>2
  <1>6. ASSUME PublishAck \/ SaveState PROVE HandlerWork' < HandlerWork
    <2>1. HandlerWork = 1
      BY <1>6 DEF PublishAck, SaveState, HandlerWork
    <2>2. HandlerWork' = 0
      BY <1>6 DEF PublishAck, SaveState, HandlerWork
    <2> QED BY <2>1, <2>2
  <1> QED BY <1>1, <1>3, <1>4, <1>5, <1>6

\* The select polls, parks and wakes no more often than there is cause.
LEMMA PollProgress ==
    ASSUME BreakOnDistress \/ SkipDistress \/ BreakOnNormal \/ Park \/ Wake
    PROVE  /\ taken' = taken /\ HandlerWork' = HandlerWork /\ StreamWork' = StreamWork
           /\ PollWork' < PollWork
  <1>1. UNCHANGED <<bus, cursor, sub, distressQ, normalQ, taken, tries>>
    BY DEF BreakOnDistress, SkipDistress, BreakOnNormal, Park, Wake, streamVars, historyVars
  <1>2. HandlerWork = 0 /\ HandlerWork' = 0
    BY DEF BreakOnDistress, SkipDistress, BreakOnNormal, Park, Wake, HandlerWork
  <1>3. StreamWork' = StreamWork
    BY <1>1 DEF StreamWork
  <1>4. Overlooked' = Overlooked /\ Woken' = Woken
    BY <1>1 DEF Overlooked, Woken
  <1>5. ASSUME BreakOnDistress \/ SkipDistress PROVE PollWork' < PollWork
    <2>1. PollWork = 2
      BY <1>5 DEF BreakOnDistress, SkipDistress, PollWork
    <2>2. ~Overlooked
      BY <1>5 DEF BreakOnDistress, SkipDistress, Overlooked
    <2>3. PollWork' \in {0, 1}
      BY <1>4, <1>5, <2>2 DEF BreakOnDistress, SkipDistress, PollWork
    <2> QED BY <2>1, <2>3
  <1>6. ASSUME BreakOnNormal \/ Park PROVE PollWork' < PollWork
    <2>1. PollWork = IF Overlooked THEN 4 ELSE 1
      BY <1>6 DEF BreakOnNormal, Park, PollWork
    <2>2. ~Overlooked => PollWork' = 0
      BY <1>4, <1>6 DEF BreakOnNormal, Park, PollWork, Overlooked, Woken
    <2>3. PollWork' \in {0, 3}
      BY <1>4, <1>6 DEF BreakOnNormal, Park, PollWork
    <2> QED BY <2>1, <2>2, <2>3
  <1>7. ASSUME Wake PROVE PollWork' < PollWork
    <2>1. PollWork = 3
      BY <1>7 DEF Wake, PollWork
    <2>2. PollWork' = 2
      BY <1>7 DEF Wake, PollWork
    <2> QED BY <2>1, <2>2
  <1> QED BY <1>1, <1>2, <1>3, <1>5, <1>6, <1>7

LEMMA ProgressStep ==
    Typed /\ Ordered /\ AttemptsLeft /\ Typed' /\ [Next]_vars => [StepIsProgress]_vars
  <1> SUFFICES ASSUME Typed, Ordered, AttemptsLeft, Next, OwnStep
               PROVE  Len(taken') = Len(taken) + 1 \/ (taken' = taken /\ LessToDo)
    BY DEF StepIsProgress
  <1>1. ASSUME NEW k \in Topics \ {"ack"}, Publish(k) PROVE FALSE
    <2>1. bus' = Append(bus, k) /\ acks' = acks
      BY <1>1 DEF Publish, historyVars
    <2>2. Len(bus') = Len(bus) + 1 /\ Len(bus) \in Nat
      BY <2>1, AppendProperties, LenProperties DEF Typed, TypeOK, Topics
    <2> QED BY <2>1, <2>2 DEF OwnStep
  <1>2. ASSUME \/ ConnectFails \/ AckFails \/ Crash
               \/ \E end \in Ended : StreamEnds(end)
        PROVE  FALSE
    <2>1. faults' = faults + 1 /\ faults \in Nat
      BY <1>2, DaemonAssumption
         DEF ConnectFails, AckFails, Crash, StreamEnds, Fault, Typed, TypeOK
    <2> QED BY <2>1 DEF OwnStep
  <1>3. ASSUME Exit \/ Restart PROVE FALSE
    <2>1. CASE Restart
      BY <2>1 DEF Restart, OwnStep
    <2>2. CASE Exit
      BY <2>2 DEF Exit, OwnStep, Typed, DownIsGone
    <2> QED BY <1>3, <2>1, <2>2
  <1>4. CASE Connect \/ ReadEvent \/ SendDistress \/ SendNormal
    BY <1>4, StreamProgress DEF LessToDo
  <1>5. CASE TakeDistress \/ TakeNormal
    <2>1. PICK q \in {distressQ, normalQ} : q # << >> /\ Take(Head(q))
      BY <1>5 DEF TakeDistress, TakeNormal
    <2>2. Head(q) \in Nat /\ taken \in Seq(Nat)
      BY <2>1, TailFacts DEF Typed, TypeOK
    <2>3. taken' = Append(taken, Head(q))
      BY <2>1 DEF Take
    <2>4. Len(Append(taken, Head(q))) = Len(taken) + 1
      BY <2>2, AppendProperties
    <2> QED BY <2>3, <2>4
  <1>6. CASE BreakOnDistress \/ SkipDistress \/ BreakOnNormal \/ Park \/ Wake
    BY <1>6, PollProgress DEF LessToDo
  <1>7. CASE SendmailAccepts \/ SendmailFails \/ Backoff \/ PublishAck \/ SaveState
    BY <1>7, HandlerProgress DEF LessToDo
  <1> QED
    BY <1>1, <1>2, <1>3, <1>4, <1>5, <1>6, <1>7 DEF Next

\* The dispatched events are different positions on the bus, so there are no
\* more of them than of those.
LEMMA DispatchesAreBounded ==
    ASSUME Typed, Ordered
    PROVE  Len(taken) <= Len(bus)
  <1>1. taken \in Seq(Nat) /\ Len(taken) \in Nat /\ Len(bus) \in Nat
        /\ DOMAIN taken = 1 .. Len(taken)
    BY LenProperties DEF Typed, TypeOK
  <1>2. ASSUME NEW i \in DOMAIN taken PROVE taken[i] \in 1 .. Len(bus)
    BY <1>1, LastSentBound DEF Typed, TypeOK, Ordered, TakenWereSent
  <1>3. ASSUME NEW i \in DOMAIN taken, NEW j \in DOMAIN taken, taken[i] = taken[j]
        PROVE  i = j
    <2>1. taken[i] \in Nat /\ taken[j] \in Nat
      BY <1>1
    <2>2. SameLane(bus[taken[i]], bus[taken[j]]) /\ SameLane(bus[taken[j]], bus[taken[i]])
      BY <1>3 DEF SameLane
    <2>3. ~(i < j) /\ ~(j < i)
      BY <1>3, <2>1, <2>2 DEF Ordered, InOrder
    <2> QED BY <1>1, <2>3
  <1>4. taken \in Injection(1 .. Len(taken), 1 .. Len(bus))
    BY <1>1, <1>2, <1>3 DEF Injection, IsInjective
  <1>5. /\ IsFiniteSet(1 .. Len(bus)) /\ Cardinality(1 .. Len(bus)) = Len(bus)
        /\ Cardinality(1 .. Len(taken)) = Len(taken)
    <2>1. 0 \in Int /\ 1 \in Int /\ Len(taken) \in Int /\ Len(bus) \in Int
      BY <1>1
    <2>2. IsFiniteSet(1 .. Len(bus))
          /\ Cardinality(1 .. Len(bus)) = IF 1 > Len(bus) THEN 0 ELSE Len(bus) - 1 + 1
      BY <2>1, FS_Interval
    <2>3. Cardinality(1 .. Len(taken)) = IF 1 > Len(taken) THEN 0 ELSE Len(taken) - 1 + 1
      BY <2>1, FS_Interval
    <2> QED BY <1>1, <2>2, <2>3
  <1> QED BY <1>4, <1>5, FS_Injection

\* What is left when neither task goes on.
LEMMA RestingIsDone ==
    ASSUME Typed, Ordered, TasksAlive
    PROVE  RestsOnlyWhenDone
  <1> SUFFICES ASSUME proc = "up", ~SubscriberGoesOn, ~DispatcherGoesOn,
                      NEW e \in base + 1 .. Len(bus), bus[e] \in RoutedTopics
               PROVE  e \in Elements(taken)
    BY DEF RestsOnlyWhenDone
  <1>1. disp = "parked" /\ distressQ = << >> /\ normalQ = << >> /\ sub \notin Ended
    BY DEF DispatcherGoesOn, Woken, TasksAlive, Typed, TypeOK, DispStates
  <1>2. Len(distressQ) = 0 /\ Len(normalQ) = 0
    BY <1>1, EmptySeq
  <1>3. sub = "reading" /\ ~(cursor < Len(bus))
    BY <1>1, <1>2, DaemonAssumption
       DEF SubscriberGoesOn, TasksAlive, Typed, TypeOK, SubStates
  <1>4. e \in base + 1 .. cursor
    BY <1>3, LenProperties DEF Typed, TypeOK
  <1>5. e \in Held \cup Elements(distressQ) \cup Elements(normalQ) \cup Elements(taken)
    BY <1>4 DEF Ordered, NothingLostInside
  <1>6. Elements(<< >>) = {} /\ Held = {}
    BY <1>3, EmptySeq DEF Elements, Held
  <1> QED BY <1>1, <1>5, <1>6

-----------------------------------------------------------------------------
(* The theorems *)

Handling ==
    /\ Typed /\ Ordered /\ AnswersCurrent /\ NotYetDelivered /\ AnswersPaid
    /\ TasksAlive /\ AttemptsLeft

LEMMA HandlingInit == Init => Handling
  <1> SUFFICES ASSUME Init PROVE Handling
    OBVIOUS
  <1>1. Typed /\ Ordered /\ AnswersCurrent
    BY TypedInit, OrderedInit, AnsweringInit
  <1>2. NotYetDelivered
    BY DEF Init, NotYetDelivered
  <1>3. Unanswered = {}
    BY DEF Init, Unanswered
  <1>4. Cardinality(Unanswered) = 0
    BY <1>3, FS_EmptySet
  <1>5. AnswersPaid
    BY <1>1, <1>4, UnansweredIsFinite DEF AnswersPaid
  <1>6. TasksAlive /\ AttemptsLeft
    BY DEF Init, TasksAlive, AttemptsLeft
  <1> QED BY <1>1, <1>2, <1>5, <1>6 DEF Handling

\* Nothing has accepted the mail while a handler tries, and every unanswered
\* event has its fault, in every reachable state.
THEOREM HandlingInvariant == Spec => []Handling
  <1>1. Handling /\ [Next]_vars => Handling'
    BY TypedNext, OrderedNext, AnsweringNext, NotYetDeliveredStep, AnswersPaidStep,
       TasksAliveStep, AttemptsLeftStep
       DEF Handling
  <1> QED BY HandlingInit, <1>1, PTL DEF Spec

\* The handlers climb the ladder of distress_delivery.rs, call by call, for every
\* max_retries and through every crash (handle_distress, handle_hearing_fail).
THEOREM ImplementsLadder == Spec => ClimbsTheLadder
  <1>1. Init => Ladder!Init
    BY DaemonAssumption DEF Init, Ladder!Init, Ladder!Policies, OnLadder, LadderPhase,
       LadderCalls
  <1>2. Handling /\ [Next]_vars => [Ladder!Next]_(Ladder!vars)
    BY LadderStep DEF Handling
  <1> QED BY <1>1, <1>2, HandlingInvariant, PTL DEF Spec, ClimbsTheLadder, Ladder!Spec

\* A message or distress that was dispatched goes unanswered only by a fault, one
\* for each, for any number of them (README, criterion 5).  It speaks of what a
\* handler was given: an event that the end of a connection leaves in a channel
\* is never dispatched (QueuedNotDropped) and not counted.
THEOREM DispatchedAreAnswered == Spec => []AnsweredUnlessFault
  <1>1. Handling => AnsweredUnlessFault
    <2> SUFFICES ASSUME Handling PROVE AnsweredUnlessFault
      OBVIOUS
    <2> DEFINE busy == IF disp \in {"calling", "backoff", "acking"} THEN 1 ELSE 0
    <2>1. Awaited <= busy /\ Awaited \in {0, 1} /\ faults \in Nat
          /\ Cardinality(Unanswered) \in Nat
      BY UnansweredIsFinite DEF Handling, Awaited
    <2>2. Cardinality(Unanswered) <= faults + busy
      BY <2>1 DEF Handling, AnswersPaid
    <2> QED BY <2>2 DEF AnsweredUnlessFault, Unanswered, Answered
  <1> QED BY HandlingInvariant, <1>1, PTL

\* The subscriber and the dispatcher never wait for one another, for channels of
\* any capacity: they rest only when everything was dispatched (daemon.rs:87-96,
\* 229-249).
THEOREM NeverDeadlocked == Spec => []RestsOnlyWhenDone
  <1>1. Handling => RestsOnlyWhenDone
    BY RestingIsDone DEF Handling
  <1> QED BY HandlingInvariant, <1>1, PTL

\* No loop of the daemon goes round for ever: there are no more events to dispatch
\* than the bus has, and until the next one every step of the daemon makes a
\* measure in the natural numbers, three of them in lexical order, smaller.
THEOREM NeverSpins ==
    Spec => /\ [](/\ Len(taken) <= Len(bus)
                  /\ HandlerWork \in Nat /\ StreamWork \in Nat /\ PollWork \in Nat)
            /\ EveryStepIsProgress
  <1>1. Handling => /\ Len(taken) <= Len(bus)
                    /\ HandlerWork \in Nat /\ StreamWork \in Nat /\ PollWork \in Nat
    BY DispatchesAreBounded, WorkIsNatural DEF Handling
  <1>2. Handling /\ Handling' /\ [Next]_vars => [StepIsProgress]_vars
    BY ProgressStep DEF Handling
  <1> QED BY HandlingInvariant, <1>1, <1>2, PTL DEF Spec, EveryStepIsProgress
=============================================================================
