------------------------ MODULE DistressDeliveryProofs ------------------------
(***************************************************************************)
(* Proofs about the ladder over the email transport, for every number of      *)
(* retries, fallbacks and faults and every size of the mails and the pipes.   *)
(***************************************************************************)
EXTENDS DistressDelivery, SequenceTheorems, TLAPS

-----------------------------------------------------------------------------
(* The ladder by itself *)

\* The i-th call was the one that the ladder has to make then, and was refused.
Refused(i) ==
    /\ calls[i].by = IF i <= Attempts THEN 0 ELSE i - Attempts
    /\ calls[i].outcome = "nack"

\* How far the ladder is says where it is.
Climbed ==
    /\ phase = "idle" => calls = << >>
    /\ phase = "primary" => Len(calls) < Attempts
    /\ phase = "backoff" => 0 < Len(calls) /\ Len(calls) < Attempts
    /\ phase = "fallback" => Attempts <= Len(calls) /\ Len(calls) < Attempts + policy.fallbacks
    /\ phase = "exhausted" => Len(calls) = Attempts + policy.fallbacks
    /\ phase \in Running \cup {"exhausted"} => \A i \in DOMAIN calls : Refused(i)
    /\ StopsAtFirstSuccess

LEMMA AttemptsPositive ==
    ASSUME NEW r \in 0 .. U32Max
    PROVE  MaxAttempts(r) \in Nat /\ MaxAttempts(r) > 0
  BY LadderAssumption DEF MaxAttempts

\* The n-th return of the ladder, from the primary or a fallback whose turn it is.
LEMMA ReturnedClimbs ==
    ASSUME TypeOK, Climbed, NEW by \in 0 .. MaxFallbacks, NEW outcome \in Outcomes,
           \/ phase = "primary" /\ by = 0
           \/ phase = "fallback" /\ by = Len(calls) + 1 - Attempts,
           Returned(by, outcome)
    PROVE  TypeOK' /\ Climbed'
  <1> DEFINE c == [by |-> by, outcome |-> outcome]
             n == Len(calls) + 1
  <1>1. /\ calls \in Seq(Call) /\ Len(calls) \in Nat /\ DOMAIN calls = 1 .. Len(calls)
        /\ Attempts \in Nat /\ Attempts > 0
        /\ policy \in Policies /\ policy.fallbacks \in Nat
    BY AttemptsPositive, LadderAssumption, LenProperties DEF TypeOK, Policies, Attempts
  <1>2. c \in Call /\ c.by = by /\ c.outcome = outcome
    BY DEF Call
  <1>3. /\ calls' = Append(calls, c)
        /\ phase' = IF outcome = "nack" THEN PhaseAfterNack(policy, Len(calls')) ELSE outcome
        /\ policy' = policy
    BY DEF Returned
  <1> HIDE DEF c
  <1>4. /\ calls' \in Seq(Call) /\ Len(calls') = n /\ DOMAIN calls' = 1 .. n
        /\ \A i \in 1 .. Len(calls) : calls'[i] = calls[i]
        /\ calls'[n] = c
    BY <1>1, <1>2, <1>3, AppendProperties
  <1>5. /\ Attempts' = Attempts
        /\ phase' = IF outcome # "nack" THEN outcome
                    ELSE IF n < Attempts THEN "backoff"
                    ELSE IF n < Attempts + policy.fallbacks THEN "fallback"
                    ELSE "exhausted"
    BY <1>3, <1>4 DEF Attempts, PhaseAfterNack
  <1>6. TypeOK'
    BY <1>1, <1>3, <1>4, <1>5 DEF TypeOK, Outcomes, Running, Finished
  <1>7. \A i \in 1 .. Len(calls) : Refused(i)
    BY <1>1 DEF Climbed, Running
  <1>8. StopsAtFirstSuccess'
    BY <1>1, <1>4, <1>7 DEF StopsAtFirstSuccess, Refused
  <1>9. by = IF n <= Attempts THEN 0 ELSE n - Attempts
    BY <1>1 DEF Climbed
  <1>10. ASSUME outcome = "nack" PROVE \A i \in DOMAIN calls' : Refused(i)'
    BY <1>1, <1>2, <1>4, <1>5, <1>7, <1>9, <1>10 DEF Refused
  <1>11. outcome # "nack" => phase' \notin {"idle", "exhausted"} \cup Running
    BY <1>5 DEF Outcomes, Running
  <1>12. CASE outcome # "nack"
    BY <1>8, <1>11, <1>12, <1>6 DEF Climbed, Running
  <1>13. CASE outcome = "nack"
    BY <1>1, <1>3, <1>4, <1>5, <1>6, <1>8, <1>10, <1>13 DEF Climbed
  <1> QED
    BY <1>12, <1>13

LEMMA LadderInit == Init => TypeOK /\ Climbed
  <1> SUFFICES ASSUME Init PROVE TypeOK /\ Climbed
    OBVIOUS
  <1>1. calls = << >> /\ phase = "idle" /\ policy \in Policies
    BY DEF Init
  <1>2. << >> \in Seq(Call) /\ Len(<< >>) = 0
    OBVIOUS
  <1> QED
    BY <1>1, <1>2 DEF TypeOK, Climbed, StopsAtFirstSuccess, Running

LEMMA LadderStep == TypeOK /\ Climbed /\ [Next]_vars => TypeOK' /\ Climbed'
  <1> SUFFICES ASSUME TypeOK, Climbed, [Next]_vars PROVE TypeOK' /\ Climbed'
    OBVIOUS
  <1>1. ASSUME NEW p \in Policies, Start(p) PROVE TypeOK' /\ Climbed'
    <2>1. MaxAttempts(p.retries) \in Nat /\ MaxAttempts(p.retries) > 0
      BY AttemptsPositive DEF Policies
    <2>2. phase' = "primary" /\ policy' = p /\ calls' = << >> /\ Attempts' = MaxAttempts(p.retries)
      BY <1>1, <2>1 DEF Start, Attempts
    <2>3. << >> \in Seq(Call) /\ Len(<< >>) = 0 /\ DOMAIN << >> = {}
      OBVIOUS
    <2> QED
      BY <2>1, <2>2, <2>3 DEF TypeOK, Climbed, StopsAtFirstSuccess, Running
  <1>2. ASSUME NEW outcome \in Outcomes, PrimaryReturns(outcome) PROVE TypeOK' /\ Climbed'
    <2>1. 0 \in 0 .. MaxFallbacks
      BY LadderAssumption
    <2> QED
      BY <1>2, <2>1, ReturnedClimbs DEF PrimaryReturns
  <1>3. CASE Backoff
    BY <1>3 DEF Backoff, TypeOK, Climbed, StopsAtFirstSuccess, Running, Attempts, Refused
  <1>4. ASSUME NEW outcome \in Outcomes, FallbackReturns(outcome) PROVE TypeOK' /\ Climbed'
    <2>1. /\ Attempts \in Nat /\ policy.fallbacks \in 0 .. MaxFallbacks /\ Len(calls) \in Nat
      BY AttemptsPositive, LenProperties DEF TypeOK, Policies, Attempts
    <2>2. Len(calls) + 1 - Attempts \in 0 .. MaxFallbacks
      BY <1>4, <2>1, LadderAssumption DEF FallbackReturns, Climbed
    <2> QED
      BY <1>4, <2>2, ReturnedClimbs DEF FallbackReturns
  <1>5. CASE Leave \/ Die
    <2>1. phase' = "idle" /\ calls' = << >> /\ policy' = policy
      BY <1>5 DEF Leave, Die
    <2>2. << >> \in Seq(Call) /\ Len(<< >>) = 0
      OBVIOUS
    <2> QED
      BY <2>1, <2>2 DEF TypeOK, Climbed, StopsAtFirstSuccess, Running
  <1>6. CASE UNCHANGED vars
    BY <1>6 DEF vars, TypeOK, Climbed, StopsAtFirstSuccess, Attempts, Refused
  <1> QED
    BY <1>1, <1>2, <1>3, <1>4, <1>5, <1>6 DEF Next

-----------------------------------------------------------------------------
(* The mail of the call that is being made *)

\* Between two calls the transport is as new.
AtRest == ~Delivering => Idle

\* sendmail queues at most once, before the end only if it gives its input up,
\* and a part only then or of a mail whose write failed.
Queues ==
    /\ pc = "idle" => queued = "no" /\ sendmail = "none"
    /\ pc = "writing" => queued = "no" \/ stopped
    /\ input /\ queued # "no" => pc \in {"waiting", "returned"}
    /\ sendmail \in {"ok", "failed"} => queued # "no" \/ stopped
    /\ pc # "returned" /\ sendmail = "reading" => queued = "no" /\ input
    /\ pc = "waiting" /\ unsent > 0 => ~input
    /\ queued = "part" => stopped \/ (pc = "returned" /\ ~result)
    /\ result => pc = "returned" /\ (queued # "no" \/ stopped)

\* sendmail at its ends of the pipes: it reports only what it has to say, and
\* holds its input no longer than it runs; deliver writes or waits only for a
\* sendmail it started.
Ends ==
    /\ sendmail = "reporting" => diag > 0
    /\ input => Alive
    /\ pc \in {"writing", "waiting"} => sendmail # "none"

\* The mail of this call is queued and its failure, if any, is still to come.
Standing ==
    IF Delivering THEN queued # "no" /\ sendmail # "failed" /\ (pc = "returned" => result)
    ELSE phase = "delivered"

\* All copies but the one that stands were paid for by a fault.
Paid ==
    /\ phase = "idle" => copies = 0
    /\ Standing => copies <= faults + 1
    /\ ~Standing => copies <= faults

Mailed == MailTypeOK /\ primary \in {"email", "other"} /\ AtRest /\ Queues /\ Ends /\ Paid

LEMMA MailedInit == DeliveryInit => Mailed
  <1> SUFFICES ASSUME DeliveryInit PROVE Mailed
    OBVIOUS
  <1>1. Idle /\ phase = "idle" /\ primary = "email" /\ copies = 0 /\ faults = 0
    BY DEF DeliveryInit, Init, MailInit
  <1>2. 0 \in 0 .. MaxMail /\ 0 \in 0 .. PipeCap /\ 0 \in 0 .. MaxDiag /\ 0 \in 0 .. MaxFaults
    BY TransportAssumption
  <1>3. MailTypeOK
    BY <1>1, <1>2 DEF Idle, MailTypeOK
  <1>4. AtRest /\ Queues /\ Ends
    BY <1>1 DEF Idle, AtRest, Queues, Ends, Alive
  <1>5. Paid
    BY <1>1 DEF Paid, Standing, Delivering
  <1> QED
    BY <1>1, <1>3, <1>4, <1>5 DEF Mailed

\* A sendmail that stops reading has queued nothing, or what it has read, or
\* had queued before.
LEMMA GivesUp ==
    ASSUME CloseInput, queued \in {"no", "part", "whole"}
    PROVE  /\ queued = "no" => stopped' = TRUE
           /\ queued # "no" => stopped' = stopped
           /\ \/ queued' = queued /\ copies' = copies
              \/ /\ queued = "no" /\ pc # "returned"
                 /\ queued' \in {"part", "whole"} /\ copies' = copies + 1
  <1>1. /\ queued = "no" => stopped' = TRUE
        /\ queued # "no" => stopped' = stopped
        /\ queued' = queued \/ (queued = "no" /\ pc # "returned" /\ queued' \in {"part", "whole"})
        /\ copies' = IF queued' = queued THEN copies ELSE copies + 1
    BY DEF CloseInput, GiveInputUp, ReadSoFar
  <1> QED
    BY <1>1

\* One step of deliver, or of the program it started.
LEMMA MailTypes == MailTypeOK /\ Ends /\ MailStep => MailTypeOK' /\ Ends'
  <1> SUFFICES ASSUME MailTypeOK, Ends, MailStep PROVE MailTypeOK' /\ Ends'
    OBVIOUS
  <1>0. 0 \in 0 .. PipeCap
    BY TransportAssumption
  <1> USE TransportAssumption
      DEF MailTypeOK, Ends, Alive, pipes, programVars, counters, Fault, LeftAlone, AtEnd
  <1>1. CASE Spawn
    BY <1>1 DEF Spawn
  <1>2. CASE SpawnFails
    BY <1>2 DEF SpawnFails
  <1>3. CASE Write
    BY <1>3 DEF Write
  <1>4. CASE Written
    BY <1>4 DEF Written
  <1>5. CASE Drain
    BY <1>5 DEF Drain
  <1>6. CASE Reap
    BY <1>6 DEF Reap
  <1>7. CASE WriteFails
    BY <1>7 DEF WriteFails
  <1>8. CASE WaitFails
    BY <1>8 DEF WaitFails
  <1>9. CASE Decide
    BY <1>9 DEF Decide
  <1>10. CASE ReadInput
    BY <1>10 DEF ReadInput, InputEnded
  <1>11. CASE Report
    BY <1>11 DEF Report
  <1>12. CASE CloseInput
    <2>1. stopped' \in BOOLEAN
      <3>1. stopped' = TRUE \/ stopped' = stopped
        BY <1>12, GivesUp
      <3> QED
        BY <3>1
    <2>2. queued' \in {"no", "part", "whole"} /\ copies' \in Nat
      <3>1. \/ queued' = queued /\ copies' = copies
            \/ queued' \in {"part", "whole"} /\ copies' = copies + 1
        BY <1>12, GivesUp
      <3> QED
        BY <3>1
    <2>3. /\ input' = FALSE /\ stdin' = 0
          /\ UNCHANGED <<pc, unsent, stderr, sendmail, diag, helper, result, faults>>
      BY <1>12 DEF CloseInput, GiveInputUp
    <2> QED
      BY <1>0, <2>1, <2>2, <2>3
  <1>13. CASE Detach \/ HelperEnds
    BY <1>13 DEF Detach, HelperEnds
  <1>14. ASSUME NEW status \in {"ok", "failed"}, SendmailExits(status)
         PROVE  MailTypeOK' /\ Ends'
    <2>1. faults' = faults \/ (faults < MaxFaults /\ faults' = faults + 1)
      BY <1>14 DEF SendmailExits
    <2>2. faults' \in 0 .. MaxFaults
      BY <2>1
    <2> QED
      BY <1>0, <1>14, <2>2 DEF SendmailExits, GiveInputUp
  <1> QED
    BY <1>1, <1>2, <1>3, <1>4, <1>5, <1>6, <1>7, <1>8, <1>9, <1>10, <1>11, <1>12,
       <1>13, <1>14 DEF MailStep, Deliver, Sendmail

LEMMA MailQueues == MailTypeOK /\ Queues /\ MailStep => Queues'
  <1> SUFFICES ASSUME MailTypeOK, Queues, MailStep PROVE Queues'
    OBVIOUS
  <1> USE DEF MailTypeOK, Queues, Alive, pipes, programVars, counters, LeftAlone, AtEnd
  <1>1. CASE Spawn
    BY <1>1 DEF Spawn
  <1>2. CASE SpawnFails
    BY <1>2 DEF SpawnFails
  <1>3. CASE Write
    BY <1>3 DEF Write
  <1>4. CASE Written
    BY <1>4 DEF Written
  <1>5. CASE Drain
    BY <1>5 DEF Drain
  <1>6. CASE Reap
    <2>1. /\ sendmail \in {"ok", "failed"} /\ pc = "waiting" /\ pc' = "returned"
          /\ UNCHANGED <<unsent, input, queued, sendmail, stopped>>
      BY <1>6 DEF Reap
    <2>2. queued' = "part" => stopped'
      BY <2>1
    <2>3. queued' # "no" \/ stopped'
      BY <2>1
    <2> QED
      BY <2>1, <2>2, <2>3
  <1>7. CASE WriteFails
    BY <1>7 DEF WriteFails
  <1>8. CASE WaitFails
    BY <1>8 DEF WaitFails
  <1>9. CASE Decide
    BY <1>9 DEF Decide
  <1>10. CASE ReadInput
    BY <1>10 DEF ReadInput, InputEnded
  <1>11. CASE Report
    BY <1>11 DEF Report
  <1>12. CASE CloseInput
    <2>1. /\ input' = FALSE /\ sendmail = "busy"
          /\ UNCHANGED <<pc, unsent, sendmail, result>>
      BY <1>12 DEF CloseInput, GiveInputUp
    <2>2. queued # "no" \/ stopped'
      BY <1>12, GivesUp
    <2>3. queued' = queued \/ (queued = "no" /\ pc # "returned" /\ stopped')
      BY <1>12, GivesUp
    <2>4. stopped => stopped'
      BY <1>12, GivesUp
    <2>5. pc # "idle"
      BY <2>1
    <2> QED
      BY <2>1, <2>2, <2>3, <2>4, <2>5
  <1>13. CASE Detach \/ HelperEnds
    BY <1>13 DEF Detach, HelperEnds
  <1>14. ASSUME NEW status \in {"ok", "failed"}, SendmailExits(status)
         PROVE  Queues'
    BY <1>14 DEF SendmailExits, GiveInputUp
  <1> QED
    BY <1>1, <1>2, <1>3, <1>4, <1>5, <1>6, <1>7, <1>8, <1>9, <1>10, <1>11, <1>12,
       <1>13, <1>14 DEF MailStep, Deliver, Sendmail

\* A mail that is queued stands, and loses its standing only by a fault.
LEMMA MailPays ==
    ASSUME MailTypeOK, Queues, Paid, Delivering, MailStep, UNCHANGED <<phase, primary>>
    PROVE  Paid'
  <1> USE DEF pipes, programVars, counters
  <1>1. /\ Delivering' /\ phase # "idle" /\ phase' # "idle"
        /\ copies \in Nat /\ faults \in Nat
        /\ copies <= faults + 1
        /\ Standing \/ copies <= faults
    BY DEF Delivering, Paid, MailTypeOK
  <1>2. ASSUME UNCHANGED <<copies, faults>>, Standing => Standing' PROVE Paid'
    BY <1>1, <1>2 DEF Paid
  <1>3. ASSUME faults' = faults + 1, copies' = copies PROVE Paid'
    BY <1>1, <1>3 DEF Paid
  <1>4. ASSUME faults' = faults + 1, copies' = copies + 1, ~Standing PROVE Paid'
    BY <1>1, <1>4 DEF Paid
  <1>5. ASSUME faults' = faults, copies' = copies + 1, ~Standing, Standing' PROVE Paid'
    BY <1>1, <1>5 DEF Paid
  <1>6. CASE Spawn \/ SpawnFails \/ Write \/ Written \/ Drain
    BY <1>1, <1>2, <1>6 DEF Spawn, SpawnFails, Write, Written, Drain, Standing, Queues
  <1>7. CASE Reap
    BY <1>1, <1>2, <1>7 DEF Reap, Standing
  <1>8. ASSUME Fault, LeftAlone PROVE Paid'
    <2>1. CASE copies' = copies
      BY <1>3, <1>8, <2>1 DEF Fault
    <2>2. CASE copies' # copies
      <3>1. queued = "no" /\ copies' = copies + 1
        BY <1>8, <2>2 DEF LeftAlone
      <3> QED
        BY <1>1, <1>4, <1>8, <3>1 DEF Fault, Standing
    <2> QED
      BY <2>1, <2>2
  <1>9. CASE WriteFails \/ WaitFails
    BY <1>8, <1>9 DEF WriteFails, WaitFails
  <1>10. CASE Decide \/ Report \/ Detach \/ HelperEnds
    BY <1>1, <1>2, <1>10 DEF Decide, Report, Detach, HelperEnds, Standing
  <1>11. CASE ReadInput
    <2>1. CASE copies' = copies
      <3>1. stdin > 0 \/ copies' = copies + 1
        BY <1>11 DEF ReadInput, InputEnded
      <3>2. UNCHANGED <<queued, copies, faults, pc, result>> /\ sendmail' # "failed"
        BY <1>1, <1>11, <2>1, <3>1 DEF ReadInput, InputEnded
      <3> QED
        BY <1>1, <1>2, <3>2 DEF Standing
    <2>2. CASE copies' # copies
      <3>1. /\ copies' = copies + 1 /\ faults' = faults /\ pc = "waiting"
            /\ sendmail = "reading" /\ queued' = AtEnd /\ sendmail' = "busy" /\ pc' = pc
        BY <1>11, <2>2 DEF ReadInput, InputEnded
      <3>2. ~Standing
        BY <1>1, <3>1 DEF Queues, Standing
      <3>3. Standing'
        BY <1>1, <3>1 DEF AtEnd, Standing
      <3> QED
        BY <1>5, <3>1, <3>2, <3>3
    <2> QED
      BY <2>1, <2>2
  <1>12. ASSUME NEW status \in {"ok", "failed"}, SendmailExits(status) PROVE Paid'
    <2>1. UNCHANGED <<queued, copies, pc, result>> /\ sendmail' = status
      BY <1>12 DEF SendmailExits
    <2>2. CASE status = "failed" /\ queued # "no"
      BY <1>3, <1>12, <2>1, <2>2 DEF SendmailExits, Fault
    <2>3. CASE status = "ok" \/ queued = "no"
      <3>1. faults' = faults
        BY <1>12, <2>3 DEF SendmailExits
      <3> QED
        BY <1>1, <1>2, <2>1, <2>3, <3>1 DEF Standing
    <2> QED
      BY <2>2, <2>3
  <1>13. CASE CloseInput
    <2>1. sendmail = "busy" /\ UNCHANGED <<pc, sendmail, result, faults>>
      BY <1>13 DEF CloseInput
    <2>2. CASE queued' = queued
      <3>1. copies' = copies
        BY <1>13, <2>2 DEF CloseInput
      <3> QED
        BY <1>1, <1>2, <2>1, <2>2, <3>1 DEF Standing
    <2>3. CASE queued' # queued
      <3>1. queued = "no" /\ pc # "returned" /\ queued' # "no" /\ copies' = copies + 1
        BY <1>13, <2>3 DEF CloseInput, ReadSoFar
      <3> QED
        BY <1>1, <1>5, <2>1, <3>1 DEF Standing
    <2> QED
      BY <2>2, <2>3
  <1> QED
    BY <1>6, <1>7, <1>9, <1>10, <1>11, <1>12, <1>13 DEF MailStep, Deliver, Sendmail

-----------------------------------------------------------------------------
(* What is left to do *)

LEMMA WorkIsNatural ==
    /\ MailTypeOK => CallWork \in Nat
    /\ MailTypeOK' => CallWork' \in Nat
  BY TransportAssumption DEF MailTypeOK, CallWork

\* Each step of deliver, of sendmail and of what it left behind uses some of it.
LEMMA MailWorks ==
    ASSUME MailTypeOK, MailTypeOK', Queues, Ends, MailStep
    PROVE  CallWork' < CallWork
  <1> USE TransportAssumption
      DEF MailTypeOK, Alive, pipes, programVars, counters, LeftAlone, AtEnd, CallWork
  <1>1. CASE Spawn
    BY <1>1 DEF Spawn
  <1>2. CASE SpawnFails
    BY <1>2 DEF SpawnFails
  <1>3. CASE Write
    BY <1>3 DEF Write
  <1>4. CASE Written
    BY <1>4 DEF Written
  <1>5. CASE Drain
    BY <1>5 DEF Drain
  <1>6. CASE Reap
    BY <1>6 DEF Reap
  <1>7. CASE WriteFails
    BY <1>7 DEF WriteFails
  <1>8. CASE WaitFails
    BY <1>8 DEF WaitFails
  <1>9. CASE Decide
    BY <1>9 DEF Decide
  <1>10. CASE ReadInput
    <2>1. CASE stdin > 0 /\ stdin' = stdin - 1 /\ UNCHANGED <<queued, copies>>
      BY <1>10, <2>1 DEF ReadInput
    <2>2. CASE InputEnded /\ queued' = AtEnd /\ UNCHANGED stdin
      <3>1. queued = "no" /\ queued' # "no"
        BY <1>10, <2>2 DEF ReadInput, InputEnded, Queues
      <3> QED
        BY <1>10, <2>2, <3>1 DEF ReadInput
    <2> QED
      BY <1>10, <2>1, <2>2 DEF ReadInput
  <1>11. CASE Report
    BY <1>11 DEF Report, Ends
  <1>12. CASE CloseInput
    <2>1. /\ input = TRUE /\ input' = FALSE /\ stdin' = 0
          /\ UNCHANGED <<pc, unsent, stderr, sendmail, diag, helper>>
      BY <1>12 DEF CloseInput, GiveInputUp
    <2>2. queued = "no" \/ queued' # "no"
      BY <1>12, GivesUp
    <2> QED
      BY <2>1, <2>2
  <1>13. CASE Detach
    BY <1>13 DEF Detach
  <1>14. CASE HelperEnds
    BY <1>14 DEF HelperEnds
  <1>15. ASSUME NEW status \in {"ok", "failed"}, SendmailExits(status)
         PROVE  CallWork' < CallWork
    BY <1>15 DEF SendmailExits, GiveInputUp
  <1> QED
    BY <1>1, <1>2, <1>3, <1>4, <1>5, <1>6, <1>7, <1>8, <1>9, <1>10, <1>11, <1>12,
       <1>13, <1>14, <1>15 DEF MailStep, Deliver, Sendmail

\* With nothing left to go on with, both pipes are full.
LEMMA WaitingMeansFull == MailTypeOK /\ Queues /\ Ends => StuckOnlyIfBothFull
  BY TransportAssumption
     DEF MailTypeOK, Alive, Queues, Ends, StuckOnlyIfBothFull, DeliverGoesOn, SendmailGoesOn,
         InputEnded, BothPipesFull

-----------------------------------------------------------------------------
(* The two together *)

\* A step of the delivery is a step of the ladder or leaves the ladder alone.
LEMMA ClimbsTheLadder == DeliveryNext => [Next]_vars
  BY DEF DeliveryNext, Enter, EmailStep, EmailReturns, OtherReturns, Between, Taken,
         Killed, Next, Outcomes

LEMMA MailedStep ==
    ASSUME TypeOK, Climbed, Mailed, [DeliveryNext]_deliveryVars
    PROVE  Mailed'
  <1> USE DEF pipes, programVars, counters, mailVars
  <1>1. MailTypeOK /\ AtRest /\ Queues /\ Ends /\ Paid /\ primary \in {"email", "other"}
    BY DEF Mailed
  <1>2. copies \in Nat /\ faults \in Nat /\ Alive \in BOOLEAN
    BY <1>1 DEF MailTypeOK, Alive
  <1>3. CASE EmailStep
    <2>1. Delivering /\ MailStep /\ UNCHANGED <<phase, primary>>
      BY <1>3 DEF EmailStep, vars
    <2>2. MailTypeOK' /\ Ends' /\ Queues'
      BY <1>1, <2>1, MailTypes, MailQueues
    <2>3. Paid'
      BY <1>1, <2>1, MailPays
    <2>4. AtRest' /\ primary' \in {"email", "other"}
      BY <1>1, <2>1 DEF AtRest, Delivering
    <2> QED
      BY <2>2, <2>3, <2>4 DEF Mailed
  \* Whatever else happens starts from rest or returns to it.
  <1>4. ASSUME UNCHANGED mailVars, ~Delivering PROVE MailTypeOK' /\ Queues' /\ Ends' /\ Idle'
    BY <1>1, <1>4 DEF MailTypeOK, Alive, AtRest, Queues, Ends, Idle
  <1>5. 0 \in 0 .. MaxMail /\ 0 \in 0 .. PipeCap /\ 0 \in 0 .. MaxDiag /\ 0 \in 0 .. MaxFaults
    BY TransportAssumption
  <1>6. ASSUME Reset, copies' \in Nat, faults' \in 0 .. MaxFaults
        PROVE  MailTypeOK' /\ Queues' /\ Ends' /\ Idle'
    BY <1>5, <1>6 DEF Reset, MailTypeOK, Alive, Queues, Ends, Idle
  <1>7. CASE Enter
    <2>1. phase = "idle" /\ primary' \in {"email", "other"} /\ UNCHANGED mailVars
      BY <1>7 DEF Enter, Start
    <2>2. ~Delivering
      BY <2>1 DEF Delivering
    <2>3. MailTypeOK' /\ Queues' /\ Ends' /\ Idle'
      BY <1>4, <2>1, <2>2
    <2>4. phase' = "primary"
      <3>1. PICK p \in Policies : Start(p)
        BY <1>7 DEF Enter
      <3>2. MaxAttempts(p.retries) > 0
        BY AttemptsPositive DEF Policies
      <3> QED
        BY <3>1, <3>2 DEF Start
    <2>5. Paid'
      BY <1>1, <1>2, <2>1, <2>3, <2>4 DEF Paid, Standing, Delivering, Idle
    <2> QED
      BY <2>1, <2>3, <2>5 DEF Mailed, AtRest
  <1>8. CASE EmailReturns
    <2>1. /\ Delivering /\ pc = "returned" /\ Reset
          /\ UNCHANGED <<primary, copies, faults>>
          /\ PrimaryReturns(IF result THEN "delivered" ELSE "nack")
      BY <1>8 DEF EmailReturns
    <2>2. MailTypeOK' /\ Queues' /\ Ends' /\ Idle'
      BY <1>1, <1>2, <1>6, <2>1 DEF MailTypeOK
    <2>3. IF result THEN phase' = "delivered" ELSE phase' \in {"backoff", "fallback", "exhausted"}
      BY <1>1, <2>1 DEF PrimaryReturns, Returned, PhaseAfterNack, MailTypeOK
    <2>4. \/ ~Standing' /\ copies <= faults
          \/ phase' = "delivered" /\ copies <= faults + 1
      BY <1>1, <1>2, <2>1, <2>3 DEF Paid, Standing, Delivering
    <2>5. Paid'
      BY <1>2, <2>1, <2>3, <2>4 DEF Paid, Standing, Delivering
    <2> QED
      BY <1>1, <2>1, <2>2, <2>5 DEF Mailed, AtRest
  <1>9. ASSUME NEW outcome \in Outcomes, OtherReturns(outcome) PROVE Mailed'
    <2>1. /\ ~Delivering /\ ~Delivering' /\ UNCHANGED <<primary, mailVars>>
          /\ phase = "primary" /\ phase' # "idle"
      BY <1>9 DEF OtherReturns, Delivering, PrimaryReturns, Returned, PhaseAfterNack, Outcomes
    <2>2. MailTypeOK' /\ Queues' /\ Ends' /\ Idle'
      BY <1>4, <2>1
    <2>3. copies <= faults
      BY <1>1, <2>1 DEF Paid, Standing
    <2>4. Paid'
      BY <1>2, <2>1, <2>3 DEF Paid
    <2> QED
      BY <1>1, <2>1, <2>2, <2>4 DEF Mailed, AtRest
  <1>10. CASE Between
    <2>1. phase \in {"backoff", "fallback"} /\ phase' # "idle" /\ UNCHANGED <<primary, mailVars>>
      BY <1>10 DEF Between, Backoff, FallbackReturns, Returned, PhaseAfterNack, Outcomes
    <2>2. ~Delivering /\ copies <= faults
      BY <1>1, <2>1 DEF Delivering, Paid, Standing
    <2>3. MailTypeOK' /\ Queues' /\ Ends' /\ Idle'
      BY <1>4, <2>1, <2>2
    <2>4. Paid'
      BY <1>2, <2>1, <2>2 DEF Paid
    <2> QED
      BY <1>1, <2>1, <2>3, <2>4 DEF Mailed, AtRest
  <1>11. CASE Taken \/ Killed
    <2>1. /\ phase' = "idle" /\ Reset /\ copies' = 0 /\ faults' = 0
          /\ UNCHANGED primary
      BY <1>11 DEF Taken, Killed, Leave, Die, Forget
    <2>2. MailTypeOK' /\ Queues' /\ Ends' /\ Idle'
      BY <1>5, <1>6, <2>1
    <2>3. Paid'
      BY <2>1 DEF Paid
    <2> QED
      BY <1>1, <2>1, <2>2, <2>3 DEF Mailed, AtRest
  <1>12. CASE UNCHANGED deliveryVars
    BY <1>1, <1>12 DEF deliveryVars, vars, Mailed, MailTypeOK, Alive, AtRest, Queues, Ends,
       Paid, Standing, Delivering, Idle
  <1> QED
    BY <1>3, <1>7, <1>8, <1>9, <1>10, <1>11, <1>12 DEF DeliveryNext

-----------------------------------------------------------------------------
(* The theorems *)

\* The ladder, with the transport in its place, keeps both invariants.
THEOREM DeliveryInvariant == DeliverySpec => [](TypeOK /\ Climbed /\ Mailed)
  <1>1. DeliveryInit => TypeOK /\ Climbed /\ Mailed
    BY LadderInit, MailedInit DEF DeliveryInit
  <1>2. TypeOK /\ Climbed /\ Mailed /\ [DeliveryNext]_deliveryVars
            => TypeOK' /\ Climbed' /\ Mailed'
    <2>1. [DeliveryNext]_deliveryVars => [Next]_vars
      BY ClimbsTheLadder DEF deliveryVars
    <2> QED
      BY <2>1, LadderStep, MailedStep
  <1> QED
    BY <1>1, <1>2, PTL DEF DeliverySpec

\* Every variable of the ladder and of the transport keeps its type.
THEOREM TypeCorrect == DeliverySpec => []DeliveryTypeOK
  <1>1. TypeOK /\ Mailed => DeliveryTypeOK
    BY DEF Mailed, DeliveryTypeOK
  <1> QED
    BY <1>1, DeliveryInvariant, PTL

\* A mail that was accepted is never sent again.
THEOREM NothingAfterSuccess == DeliverySpec => []StopsAtFirstSuccess
  <1>1. Climbed => StopsAtFirstSuccess
    BY DEF Climbed
  <1> QED
    BY <1>1, DeliveryInvariant, PTL

\* Failure is reported only after every call there is, and at least one.
THEOREM FailureAfterAll == DeliverySpec => []FailsOnlyWhenExhausted
  <1>1. TypeOK /\ Climbed => FailsOnlyWhenExhausted
    <2> SUFFICES ASSUME TypeOK, Climbed, phase = "exhausted"
                 PROVE  /\ Len(calls) = Attempts + policy.fallbacks
                        /\ Len(calls) > 0
                        /\ \A i \in DOMAIN calls : Refused(i)
      BY DEF FailsOnlyWhenExhausted, Refused
    <2>1. Attempts \in Nat /\ Attempts > 0 /\ policy.fallbacks \in Nat
      BY AttemptsPositive, LadderAssumption DEF TypeOK, Policies, Attempts
    <2> QED
      BY <2>1 DEF Climbed
  <1> QED
    BY <1>1, DeliveryInvariant, PTL

\* A pause is always followed by an attempt.
THEOREM PausesAreFollowed == DeliverySpec => []PausesBetweenAttempts
  <1>1. Climbed => PausesBetweenAttempts
    BY DEF Climbed, PausesBetweenAttempts
  <1> QED
    BY <1>1, DeliveryInvariant, PTL

\* "delivered" means that the whole mail is in a queue, unless the sendmail that
\* said so had stopped reading by itself.
THEOREM DeliveredIsQueued == DeliverySpec => []WholeUnlessStopped
  <1>1. Mailed => WholeUnlessStopped
    BY DEF Mailed, MailTypeOK, Queues, WholeUnlessStopped
  <1> QED
    BY <1>1, DeliveryInvariant, PTL

\* However many attempts there are, each copy but one costs a fault.
THEOREM OneCopy == DeliverySpec => []OneCopyUnlessFault
  <1>1. Mailed => OneCopyUnlessFault
    <2> SUFFICES ASSUME Mailed PROVE copies <= 1 + faults
      BY DEF OneCopyUnlessFault
    <2>1. copies \in Nat /\ faults \in Nat /\ Paid
      BY DEF Mailed, MailTypeOK
    <2> QED
      BY <2>1 DEF Paid
  <1> QED
    BY <1>1, DeliveryInvariant, PTL

\* deliver and sendmail wait for one another only with both pipes full.
THEOREM NeverStuckOtherwise == DeliverySpec => []StuckOnlyIfBothFull
  <1>1. Mailed => StuckOnlyIfBothFull
    BY WaitingMeansFull DEF Mailed
  <1> QED
    BY <1>1, DeliveryInvariant, PTL

\* The bound on the ladder's steps: a natural number to begin with, and every
\* step completes a call or lowers it.
THEOREM LadderIsBounded == DeliverySpec => [](LadderWork \in Nat) /\ EveryStepCounts
  <1> DEFINE Inv == TypeOK /\ Climbed /\ Mailed
  <1>1. Inv => LadderWork \in Nat
    BY WorkIsNatural DEF Inv, Mailed, LadderWork
  <1>2. Inv /\ Inv' /\ [DeliveryNext]_deliveryVars => [StepCounts]_deliveryVars
    <2> SUFFICES ASSUME Inv, Inv', DeliveryNext, phase \in Running, phase' \in Running
                 PROVE  \/ Len(calls') = Len(calls) + 1 /\ Len(calls') < Attempts + policy.fallbacks
                        \/ calls' = calls /\ LadderWork' < LadderWork
      BY DEF StepCounts
    <2>1. TypeOK /\ Climbed /\ Mailed /\ TypeOK' /\ Climbed' /\ MailTypeOK /\ MailTypeOK'
      BY DEF Inv, Mailed
    <2> HIDE DEF Inv
    <2>2. CASE EmailStep
      <3>1. Delivering /\ MailStep /\ UNCHANGED <<phase, calls>>
        BY <2>2 DEF EmailStep, vars
      <3>2. CallWork' < CallWork
        BY <2>1, <3>1, MailWorks DEF Mailed
      <3>3. phase = "primary" /\ phase' = "primary"
        BY <3>1 DEF Delivering
      <3>4. LadderWork = CallWork /\ LadderWork' = CallWork'
        BY <2>1, <3>3, WorkIsNatural DEF LadderWork
      <3> QED
        BY <3>1, <3>2, <3>4
    <2>3. CASE Between /\ Backoff
      <3>1. UNCHANGED mailVars /\ phase = "backoff" /\ phase' = "primary" /\ calls' = calls
        BY <2>3 DEF Between, Backoff
      <3>2. CallWork \in Nat
        BY <2>1, WorkIsNatural
      <3>3. CallWork' = CallWork
        BY <3>1 DEF CallWork, mailVars, pipes, programVars
      <3>4. LadderWork = CallWork + 1 /\ LadderWork' = CallWork'
        BY <2>1, <3>1, WorkIsNatural DEF LadderWork
      <3> QED
        BY <3>1, <3>2, <3>3, <3>4
    <2>4. ASSUME NEW by, NEW outcome, Returned(by, outcome)
          PROVE  Len(calls') = Len(calls) + 1 /\ Len(calls') < Attempts + policy.fallbacks
      <3>1. /\ calls' = Append(calls, [by |-> by, outcome |-> outcome])
            /\ policy' = policy
        BY <2>4 DEF Returned
      <3>2. Len(calls') = Len(calls) + 1
        BY <2>1, <3>1 DEF TypeOK
      <3>3. /\ Attempts' = Attempts /\ Attempts \in Nat /\ policy.fallbacks \in Nat
            /\ Len(calls) \in Nat
        BY <2>1, <3>1, AttemptsPositive, LadderAssumption, LenProperties
           DEF TypeOK, Policies, Attempts
      <3>4. Len(calls') < Attempts' \/ Len(calls') < Attempts' + policy'.fallbacks
        BY <2>1 DEF Climbed, Running
      <3> QED
        BY <3>1, <3>2, <3>3, <3>4
    <2>5. CASE EmailReturns \/ (\E outcome \in Outcomes : OtherReturns(outcome))
               \/ (Between /\ ~Backoff)
      BY <2>4, <2>5 DEF EmailReturns, OtherReturns, Between, PrimaryReturns, FallbackReturns
    <2>6. CASE Enter \/ Taken \/ Killed
      BY <2>6 DEF Enter, Start, Taken, Leave, Killed, Die, Running, Finished
    <2> QED
      BY <2>2, <2>3, <2>5, <2>6 DEF DeliveryNext
  <1>3. DeliverySpec => []Inv
    BY DeliveryInvariant DEF Inv
  <1> HIDE DEF Inv
  <1> QED
    BY <1>1, <1>2, <1>3, PTL DEF DeliverySpec, EveryStepCounts
=============================================================================
