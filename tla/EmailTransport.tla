---------------------------- MODULE EmailTransport ----------------------------
(***************************************************************************)
(* EmailTransport::deliver of transport.rs: a sendmail process, the pipe to   *)
(* its stdin and the pipe from its stderr.  The mail is written to the end    *)
(* before stderr is read, and then both the end of stderr and the exit status *)
(* are waited for.                                                           *)
(*                                                                         *)
(* Pipes and mails are counted in blocks; what a block says is left out.      *)
(* sendmail is another program and may do anything with its two ends.         *)
(***************************************************************************)
EXTENDS Naturals

CONSTANTS
    PipeCap,    \* blocks a pipe holds
    MaxMail,    \* bound: the longest mail
    MaxDiag,    \* bound: the longest diagnostics
    MaxFaults   \* bound: calls that fail after sendmail may have queued the mail

ASSUME TransportAssumption ==
    /\ PipeCap \in Nat \ {0} /\ MaxMail \in Nat \ {0}
    /\ MaxDiag \in Nat /\ MaxFaults \in Nat

VARIABLES
    pc,         \* where deliver is
    unsent,     \* blocks of the mail it has still to write
    stdin,      \* blocks in the pipe to sendmail
    sendmail,   \* what sendmail is doing, or its exit status
    input,      \* sendmail holds its end of stdin open
    diag,       \* blocks it has still to say on stderr
    stderr,     \* blocks in the pipe from it
    helper,     \* a process it left behind, which inherits stderr
    result,     \* DeliveryResult::delivered
    queued,     \* history: what this sendmail queued
    stopped,    \* history: it gave its input up before it had met the end
    copies,     \* history: mails queued, fragments included
    faults      \* faults so far

pipes == <<stdin, stderr>>
programVars == <<sendmail, input, diag, helper, queued, stopped>>
counters == <<copies, faults>>
mailVars == <<pc, unsent, pipes, programVars, result, counters>>

Alive == sendmail \in {"busy", "reading", "reporting"}

MailTypeOK ==
    /\ pc \in {"idle", "writing", "waiting", "returned"}
    /\ unsent \in 0 .. MaxMail
    /\ stdin \in 0 .. PipeCap /\ stderr \in 0 .. PipeCap
    /\ Alive \/ sendmail \in {"none", "ok", "failed"}
    /\ input \in BOOLEAN
    /\ diag \in 0 .. MaxDiag
    /\ helper \in {"none", "running", "gone"}
    /\ result \in BOOLEAN
    /\ queued \in {"no", "part", "whole"}
    /\ stopped \in BOOLEAN
    /\ copies \in Nat
    /\ faults \in 0 .. MaxFaults

Idle ==
    /\ pc = "idle"
    /\ unsent = 0 /\ stdin = 0 /\ stderr = 0 /\ diag = 0
    /\ sendmail = "none" /\ helper = "none"
    /\ input = FALSE /\ result = FALSE
    /\ queued = "no" /\ stopped = FALSE

MailInit == Idle /\ copies = 0 /\ faults = 0

\* The state in which the next call of deliver finds its transport.
Reset ==
    /\ pc' = "idle"
    /\ unsent' = 0 /\ stdin' = 0 /\ stderr' = 0 /\ diag' = 0
    /\ sendmail' = "none" /\ helper' = "none"
    /\ input' = FALSE /\ result' = FALSE
    /\ queued' = "no" /\ stopped' = FALSE

Fault == faults < MaxFaults /\ faults' = faults + 1

\* What sendmail queues when it meets the end of its input now.
AtEnd == IF unsent = 0 THEN "whole" ELSE "part"

\* sendmail goes on alone once deliver has returned: it may queue what it meets
\* up to the end of its input, or stop reading before and queue that.
LeftAlone ==
    /\ queued' \in IF Alive /\ input /\ queued = "no" THEN {"no", "part", AtEnd} ELSE {queued}
    /\ copies' = IF queued' = queued THEN copies ELSE copies + 1

-----------------------------------------------------------------------------
(* deliver *)

Spawn ==
    /\ pc = "idle"
    /\ pc' = "writing"
    /\ unsent' \in 1 .. MaxMail
    /\ diag' \in 0 .. MaxDiag
    /\ sendmail' = "busy"
    /\ input' = TRUE
    /\ UNCHANGED <<pipes, helper, queued, stopped, result, counters>>

SpawnFails ==
    /\ pc = "idle"
    /\ pc' = "returned"
    /\ UNCHANGED <<unsent, pipes, programVars, result, counters>>

\* write_all fills the pipe and waits while it is full.
Write ==
    /\ pc = "writing"
    /\ unsent > 0 /\ input /\ stdin < PipeCap
    /\ unsent' = unsent - 1
    /\ stdin' = stdin + 1
    /\ UNCHANGED <<pc, stderr, programVars, result, counters>>

\* The whole mail is in the pipe, or sendmail closed its end of it: either way
\* stdin is dropped and the exit status decides.
Written ==
    /\ pc = "writing"
    /\ unsent = 0 \/ ~input
    /\ pc' = "waiting"
    /\ UNCHANGED <<unsent, pipes, programVars, result, counters>>

\* Faulty variant: every error of the write counts as a broken pipe.
WriteFailsSilently ==
    /\ Fault
    /\ pc = "writing" /\ unsent > 0
    /\ pc' = "waiting"
    /\ UNCHANGED <<unsent, pipes, programVars, result, copies>>

\* Any other error of the write: deliver returns without waiting, and sendmail
\* meets the end of a truncated mail.
WriteFails ==
    /\ Fault
    /\ pc = "writing" /\ unsent > 0
    /\ pc' = "returned"
    /\ LeftAlone
    /\ UNCHANGED <<unsent, pipes, sendmail, input, diag, helper, stopped, result>>

\* Faulty variant: stderr is read once sendmail has exited.
DrainAfterExit ==
    /\ pc = "waiting" /\ stderr > 0 /\ ~Alive
    /\ stderr' = stderr - 1
    /\ UNCHANGED <<pc, unsent, stdin, programVars, result, counters>>

\* wait_with_output reads stderr to its end ...
Drain ==
    /\ pc = "waiting" /\ stderr > 0
    /\ stderr' = stderr - 1
    /\ UNCHANGED <<pc, unsent, stdin, programVars, result, counters>>

\* ... which comes when every process that holds it is gone, and takes the
\* exit status.
Reap ==
    /\ pc = "waiting"
    /\ sendmail \in {"ok", "failed"}
    /\ stderr = 0 /\ helper # "running"
    /\ pc' = "returned"
    /\ result' = (sendmail = "ok")
    /\ UNCHANGED <<unsent, pipes, programVars, counters>>

WaitFails ==
    /\ Fault
    /\ pc = "waiting"
    /\ pc' = "returned"
    /\ LeftAlone
    /\ UNCHANGED <<unsent, pipes, sendmail, input, diag, helper, stopped, result>>

Deliver == Spawn \/ SpawnFails \/ Write \/ Written \/ Drain \/ Reap

-----------------------------------------------------------------------------
(* sendmail, any program that reads, reports, queues the mail at the end of    *)
(* its input and exits, in an order of its own.                              *)

Decide ==
    /\ sendmail = "busy"
    /\ \/ sendmail' = "reading" /\ input /\ queued = "no"
       \/ sendmail' = "reporting" /\ diag > 0
    /\ UNCHANGED <<pc, unsent, pipes, input, diag, helper, queued, stopped, result, counters>>

\* Faulty variant: the pipe to stdin is open until wait_with_output returns.
InputEndsWithTheWait == stdin = 0 /\ pc = "returned"

\* The end of the mail: the pipe is empty, and deliver dropped its end before
\* it went on to wait.
InputEnded == stdin = 0 /\ pc = "waiting"

ReadInput ==
    /\ sendmail = "reading"
    /\ \/ /\ stdin > 0
          /\ stdin' = stdin - 1
          /\ UNCHANGED <<queued, copies>>
       \/ /\ InputEnded
          /\ queued' = AtEnd
          /\ copies' = copies + 1
          /\ UNCHANGED stdin
    /\ sendmail' = "busy"
    /\ UNCHANGED <<pc, unsent, stderr, input, diag, helper, stopped, result, faults>>

Report ==
    /\ sendmail = "reporting"
    /\ stderr < PipeCap
    /\ stderr' = stderr + 1
    /\ diag' = diag - 1
    /\ sendmail' = "busy"
    /\ UNCHANGED <<pc, unsent, stdin, input, helper, queued, stopped, result, counters>>

\* sendmail drops its end of the pipe, and with it what nobody has read.
GiveInputUp ==
    /\ input' = FALSE
    /\ stdin' = 0
    /\ stopped' = IF queued = "no" THEN TRUE ELSE stopped

\* What sendmail has read so far.
ReadSoFar == IF unsent = 0 /\ stdin = 0 THEN "whole" ELSE "part"

\* It stops reading, and may queue what it has.  (What it queues once deliver
\* has returned is chosen in LeftAlone.)
CloseInput ==
    /\ sendmail = "busy" /\ input
    /\ GiveInputUp
    /\ queued' \in IF queued = "no" /\ pc # "returned" THEN {"no", ReadSoFar} ELSE {queued}
    /\ copies' = IF queued' = queued THEN copies ELSE copies + 1
    /\ UNCHANGED <<pc, unsent, stderr, sendmail, diag, helper, result, faults>>

Detach ==
    /\ sendmail = "busy" /\ helper = "none"
    /\ helper' = "running"
    /\ UNCHANGED <<pc, unsent, pipes, sendmail, input, diag, queued, stopped, result, counters>>

HelperEnds ==
    /\ helper = "running"
    /\ helper' = "gone"
    /\ UNCHANGED <<pc, unsent, pipes, sendmail, input, diag, queued, stopped, result, counters>>

\* It exits, or is killed; to fail after it queued the mail is a fault.
SendmailExits(status) ==
    /\ sendmail = "busy"
    /\ sendmail' = status
    /\ GiveInputUp
    /\ IF status = "failed" /\ queued # "no" THEN Fault ELSE UNCHANGED faults
    /\ UNCHANGED <<pc, unsent, stderr, diag, helper, queued, result, copies>>

Sendmail ==
    \/ Decide \/ ReadInput \/ Report \/ CloseInput \/ Detach
    \/ \E status \in {"ok", "failed"} : SendmailExits(status)

MailStep == Deliver \/ WriteFails \/ WaitFails \/ Sendmail \/ HelperEnds

-----------------------------------------------------------------------------
\* deliver waits for room in the one pipe and sendmail in the other.
BothPipesFull ==
    /\ pc = "writing" /\ unsent > 0 /\ input /\ stdin = PipeCap
    /\ sendmail = "reporting" /\ stderr = PipeCap

\* deliver, or sendmail, has a step to take and need not wait for the other.
DeliverGoesOn ==
    \/ pc \in {"idle", "returned"}
    \/ pc = "writing" /\ (unsent = 0 \/ ~input \/ stdin < PipeCap)
    \/ pc = "waiting" /\ stderr > 0
    \/ pc = "waiting" /\ sendmail \in {"ok", "failed"} /\ helper # "running"

SendmailGoesOn ==
    \/ sendmail = "busy"
    \/ sendmail = "reading" /\ (stdin > 0 \/ InputEnded)
    \/ sendmail = "reporting" /\ stderr < PipeCap

\* deliver and sendmail never wait for one another, unless both pipes are full:
\* not for the end of a mail that was written, not for a sendmail that exited
\* or closed its input, not for diagnostics in a pipe that is being drained
\* (transport.rs:91-111).
StuckOnlyIfBothFull ==
    DeliverGoesOn \/ SendmailGoesOn \/ helper = "running" \/ BothPipesFull

\* What deliver and its sendmail can still do before deliver returns: a block
\* of the mail is written, then read; one of the diagnostics is decided on,
\* reported, then drained.
CallWork ==
    3 * unsent + 2 * stdin + 3 * diag + stderr
    + (CASE pc = "idle" -> 3 * MaxMail + 3 * MaxDiag + 6
         [] pc = "writing" -> 2
         [] pc = "waiting" -> 1
         [] pc = "returned" -> 0)
    + (IF sendmail = "busy" THEN 1 ELSE 0)
    + (IF input THEN 1 ELSE 0)
    + (IF queued = "no" THEN 2 ELSE 0)
    + (CASE helper = "none" -> 2 [] helper = "running" -> 1 [] helper = "gone" -> 0)

\* "delivered" stands for the whole mail in a queue, or for a sendmail that
\* stopped reading by itself, which is the broken pipe that the code leaves to
\* the exit status (transport.rs:94-97).  No other error of the write or of the
\* wait, and no mail that deliver itself cut short, is reported as delivered
\* (transport.rs:98-119).
WholeUnlessStopped ==
    pc = "returned" /\ result => queued = "whole" \/ stopped
=============================================================================
