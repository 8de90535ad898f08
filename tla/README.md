# wintermute-reach in TLA+

`wm-reach` carries family messages off a device: it subscribes to a local bus
(agorabus), mails what it receives through sendmail, and acknowledges the result
on the bus. This directory models what the program does with events, processes,
files and failures; it leaves out what the mails say. Paths below are relative to
the repository.

## The system

| Component | Source | State | Operations |
|---|---|---|---|
| subscriber task | `src/daemon.rs:185-256` | the bus connection, the event in hand | connect, announce, subscribe; read; filter own events; send into one of two channels |
| dispatcher | `src/daemon.rs:61-182` | two bounded channels (64, 256) | biased select: distress, then normal; run a handler; end when a channel is closed and empty |
| message and distress handlers | `src/dispatch.rs` | none | deliver (once, or the ladder), then `publish_ack` on a connection of its own; `send_one`, `publish_reply` are one-shot subcommands |
| distress ladder | `src/distress_delivery.rs` | attempt counter | `1 + max_retries` attempts with pauses, then each fallback once |
| email transport | `src/transport.rs` | a child process, two pipes | spawn, write the mail, wait for stderr and the exit status |
| deaf-device escalation | `src/deaf_escalation.rs` | `deaf_escalation_state.json` | alert on `hearing.fail` with cool-down, note on `hearing.ok` |
| silence nudge | `src/silence_nudge.rs` | `silence_nudge_state.json`, reads pulse-watch's `state.json` | gate, debounce, one mail, save |
| maildir inbound | `src/inbound.rs` | `new/` and `cur/` of a maildir | poll: read, gate by allowlist, move, hand to the caller |
| daily digest | `src/digest.rs` | `digest_tally.json` | count summons, flag silence, reset, format, deliver |
| configuration | `src/config.rs` | none after loading | load, defaults |
| command line | `src/main.rs` | none | dispatch to a subcommand; exit status |
| systemd unit | `dist/wm-reach.service` | the unit's state | restart on failure after 5 s |

Outside the repository: agorabus, sendmail, pulse-watch (presence file and
`wm.presence.*`, `wm.health.hearing.*` events) and the mail system that fills the
maildir. They are modelled from how `src/` uses them.

How they interact. Producers publish on the bus; the subscriber task, on a thread
of its own (tokio's multi-thread runtime), turns five topics into events and waits
when a channel is full. The dispatcher awaits each handler inside the select, so
handlers run one at a time and nothing is polled meanwhile. The acknowledgement
comes back through the subscription and is filtered by the session id. Two
handlers keep a small JSON file. Nothing else survives the process. The digest
and the inbound poller are libraries that no program of the repository calls yet.

What is hard: the two threads meet between the two polls of one select; two
bounded channels fed by one task can fill while the dispatcher is busy; the end of
the connection races the last events; sendmail may accept a mail and still report
a failure, hang, or block on a pipe that nobody reads; each state file is written
after the mail it is about; a write truncates first; the clock may be set, and
midnight may pass between two looks at it. `PROJECT.json` lists each of these
("hazards") at its line with the properties that cover it; "What the properties
excuse", below, says where a property permits what the hazard describes.

What makes each part correct:

* daemon: an event is dispatched in the order of its channel and never twice;
  nothing read from the bus is lost inside a running process; a distress is
  overtaken by at most one normal event; every message and distress is answered
  once and truthfully unless something fails; it subscribes again after a failure.
* ladder and transport: stops at the first success, fails only after every attempt,
  ends; calls delivered only a mail that is whole in a queue, unless sendmail stopped
  reading by itself; one copy unless a call failed after sendmail had the mail.
* escalation: alerts once for each outage and cool-down; the file agrees with what
  was tried last, sent or refused.
* nudge: no mail for a window without a reason, no window debounced unless mailed.
* inbound: no reply spoken twice, none lost, only the allowlist.
* digest: the date is that of the calendar; the tally of a day has what happened on
  that day, restarts and midnight included.

## Modules

| Module | What it is |
|---|---|
| `FamilyTopics` | the topics and how the daemon treats each |
| `FamilyRelay` | abstract: what the daemon promises the bus, without queues, retries or crashes |
| `DistressLadder` | the ladder, also the abstract specification of the daemon's sendmail calls |
| `ReachDaemon` | the core: subscriber, channels, dispatcher, handlers, ack, process, systemd |
| `ReachDaemonProofs` | theorems about `ReachDaemon` |
| `EmailTransport` | `deliver`: a sendmail process and the two pipes to it |
| `DistressDelivery` | composition: the ladder over the email transport |
| `StateFile` | the life of a JSON state file: absent, torn, whole |
| `Debounce` | abstract: a notice is not sent twice in a row unless due again or for a fault |
| `DeafEscalation`, `SilenceNudge` | the two handlers with a state file, which both implement `Debounce` |
| `Inbox` | abstract: a mail leaves the mailbox once, and is spoken once unless something fails |
| `MaildirInbound` | the inbound poller, which implements `Inbox` |
| `CivilDate` | `today_utc`, and the Gregorian calendar day by day |
| `CivilDateProofs` | the two are the same calendar |
| `DigestTally` | the daily tally: load, change of day, record, digest, save |
| `DigestTallyProofs` | theorems about `DigestTally` |
| `DistressDeliveryProofs` | theorems about `DistressDelivery` |
| `ReachHandlerProofs` | theorems about the handlers of `ReachDaemon` |
| `SilenceNudgeProofs`, `DeafEscalationProofs` | theorems about the two debounced mails |
| `MaildirInboundProofs` | theorems about `MaildirInbound` |
| `MCReachDaemon`, `MCDigestTally` | what producers publish in a run; the dates a run starts on |

`ReachDaemon` composes the others through two instances: `Relay`
(`FamilyRelay`, same variables) and `Ladder` (`DistressLadder` with
`LadderPhase` and `LadderCalls`, the part of the dispatcher's state that is inside
`run_distress_ladder`). Its `SendmailAccepts` and `SendmailFails` are one deliver call
seen from outside; `DistressDelivery` has that call in full, between the same steps
of the ladder. The bodies of the deaf and nudge handlers appear in
`ReachDaemon` as calls and a save, and in full in their own modules: the
dispatcher runs one handler at a time, so nothing else of the daemon can come
between their steps except the end of the process.

Definitions called "Faulty variant" are never used by a specification. Each states
one plausible bug; `PROJECT.json` says which definition it stands for and which
property must find it.

### ReachDaemon

An event is its position in `bus`; its topic is `bus[e]`. A replay by a producer
is a new position. `cursor` is the last position read, `base` where the present
subscription began: agorabus hands out only what is published afterwards.

* `Connect`, `ConnectFails`, `ReadEvent`, `SendDistress`, `SendNormal`,
  `StreamEnds`: `subscribe_loop`. `sub = "sending"` is the task waiting inside
  `send(..).await`. `ReadEvent` skips the daemon's own acks and unrouted topics.
  `StreamEnds` covers `None` (`endedOk`) and an error (`endedErr`); both drop the
  senders.
* `TakeDistress`, `SkipDistress`, `BreakOnDistress`, then `TakeNormal`, `Park`,
  `BreakOnNormal`, and `Wake`: one `tokio::select!` with `biased`. Each poll is a
  step of its own because the subscriber runs in parallel. A closed, empty channel
  yields `None`, which breaks the loop whatever the other channel holds.
* `SendmailAccepts`, `SendmailFails`, `Backoff`: the deliver calls of the handler.
  A failure may follow an acceptance: the mail is out and the exit status or the
  write says otherwise.
* `PublishAck`, `AckFails`, `SaveState`: the end of the handler.
* `Exit`, `Crash`, `Restart`: the process. `Exit` has the subscriber's result as
  exit status; systemd restarts only a failure.

`Woken` is what `recv` leaves behind when both channels are empty: a waker with each,
which a send or the end of the senders calls. `HandlerWork`, `StreamWork` and
`PollWork` measure what the handler, the subscriber and the select have left to do;
`EveryStepIsProgress` is about the steps of the daemon alone (`OwnStep`): no fault, no
event of a producer, nothing of systemd.

History variables (`taken`, `accepted`, `acks`, `passed`) record what happened and
guard nothing but the bound on published events (`Publish` does not count acks).

### EmailTransport, DistressDelivery

Mails, diagnostics and pipes are counted in blocks. `Spawn`, `Write`, `Written`,
`Drain`, `Reap` are `deliver` in its order: all of the mail first, then the end of
stderr and the exit status. `Written` covers the broken pipe, which the code treats
as a success of the write; `WriteFails` and `WaitFails` return at once and leave
sendmail running, which then may queue what it got (`LeftAlone`). sendmail is any
program: it chooses between reading and reporting (`Decide`), may close its input and
queue what it has read so far (`CloseInput`, `ReadSoFar`), leave a process behind that
holds stderr (`Detach`), and exit with any status. `queued` says whether it queued the
whole mail or a part, `stopped` that it gave its input up before it had met the end of
it. `WholeUnlessStopped` separates the broken pipe, after which only sendmail's exit
status speaks, from all that `deliver` can see itself. A fault is a call that fails
after sendmail may have the mail.

`DistressDelivery` puts these steps between `Start` and the return of the primary
transport, for `handle_distress` and `on_hearing_fail`. With another kind of
transport, and for fallbacks, a call returns any outcome, an error too. `CallWork` and
`LadderWork` count what a call, with its pause, has left to do.

### DeafEscalation, SilenceNudge, Debounce

`pc` follows the handler: the mail, the truncation of the file, the write. `age` in
`DeafEscalation` is the wall clock minus the recorded `alert_sent_at`, so
`ClockStep` changes it and `Tick` lets it grow up to the cool-down. `pending` is the
state about to be written. Two histories keep apart what was tried and what was sent:
`last` is the mail the transport was called for last, whatever it answered (`Tried`),
which is what the code's debounce follows; `reached` says that an alert of this outage
was accepted, which `EscalationIsPersisted` relates to the file. In `SilenceNudge` the presence file may change at any
moment, also between the gate and the mail, and the event of any window may come
at any time, again as well.

`Debounce` has the last notice, whether it may be given again (`due`), and counts
repetitions against faults. For the escalation a notice is a mail that was tried, for
the nudge one that was accepted, as in the code. For the escalation a notice is an alert or a
recovery note and an alert is due after the cool-down; for the nudge it is a window
and none is ever due. The histories `last` and `repeats` of the two modules are its
variables.

### MaildirInbound

A mail is of one of four kinds, which stand for what `read_to_string`,
`parse_mail_message` and `is_allowed` make of the file. `Open`, `Skip`, `Read`,
`Move`, `MoveFails`, `Return` are the loop of `poll`; `Publish` is its caller, for
which the repository has `publish_reply`. Several pollers share the mailbox, as
two processes over one maildir would; the code has no lock. `Inbox` has no pollers and
no files, only the place of each mail; `Place` maps the files, the copies and the
counts to it, and the reads, the renames that fail and the drops met again to stutters.

### CivilDate, DigestTally

`Civil` is `today_utc` line by line, on a number of days. `Tomorrow` is the calendar
as everybody knows it (lengths of months, leap years), independent of it.

The program that calls the digest is not in the repository. `DigestTally` takes it to
handle one event at a time in the order the module's text and tests give:
`load_tally`, `is_new_day`, `reset`, then `record_*` and `save_tally`, or
`deliver_digest`. `is_new_day` and `reset` each look at the clock, so `Midnight` may
come between any two steps. `date` is counted with `Tomorrow` and compared with what
`today_utc` says; `arrived` counts the events of the day, `late` those of yesterday
that are handled today. The clock only moves forward.

## Runs

Bounds are named in the configurations. Every run finishes within a minute or two.

| Run | Shows | Bounds, and why they are enough |
|---|---|---|
| `distress_delivery` | type, stops at success, fails only when exhausted, pauses; delivered means whole in a queue unless sendmail stopped reading, one copy unless a fault; every step makes progress; stuck only with both pipes full, and otherwise the ladder ends | `U32Max = 3`, so every retry count including the saturating one; 0 to 2 fallbacks; pipes of 1 block, mails and diagnostics of up to 2, so that each pipe can fill; 2 faults, so that two attempts of one distress may each queue a copy |
| `daemon_safety` | type, order, nothing lost, bounded overtaking, answers, `FamilyRelay` and `DistressLadder` implemented; no deadlock of the two tasks, no step without progress | 3 events of a distress, a message or a `hearing.fail` (the three kinds of handler: ladder and ack, one call and ack, ladder and save); channels of 2 and 1 so that both fill; 1 retry; 2 faults so that a restarted daemon can fail again |
| `daemon_liveness` | events dispatched and answered; the daemon subscribes again | both channels of 1, 3 events, 1 fault |
| `deaf` | the file agrees with the mail tried last; `Debounce` implemented; re-alert | cool-downs 0 to 2 (none, at once, later), clock one second back, 3 faults |
| `nudge` | `Debounce` implemented; what is debounced was nudged | 2 windows, so one can displace the other's key, and the empty key; any number of mails; 2 faults |
| `maildir` | never spoken twice, none lost, drops accounted; `Inbox` implemented; everything readable is consumed | 2 pollers, 2 mails of every combination of kinds, 2 faults |
| `digest` | the date on every day; type; the tally of the day; today's events accounted for | the clock runs from 1970 to February 2400, past every kind of leap year and century; the program is installed on the last days of a February, a year and a century, for 2 midnights, 2 events of a kind each day, 2 faults |

`TruthfulAcks` and `AcksFollowDispatch` are consequences of `FamilyRelay`, stated
there and checked of the daemon.

Runs that must find a violation state what a document says; the quotations are in
`PROJECT.json` ("findings"):

| Run | Document | What the code does |
|---|---|---|
| `daemon_bypass` | distress bypasses the normal queue (README) | not while the subscriber waits for room in the normal channel |
| `daemon_dropped` | a published message results in one delivery and one ack, a distress has the highest priority (README, overview and criterion 3) | what is queued when the connection ends can be dropped, even a distress |
| `daemon_starved` | a second distress is not starved (`distress_delivery.rs`) | it is, by a sendmail that does not exit |
| `deaf_torn` | a re-alert will happen (`deaf_escalation.rs`) | not after a crash inside the write |
| `nudge_again` | exactly one nudge per window (`silence_nudge.rs`) | only the last window is kept: A, B, A nudges A twice, without any fault |

Ten smaller differences between a text and the code show in the models and have
no run of their own:

* a distress that arrives between the two polls of a select waits for one normal
  event (`README.md:16`, `daemon.rs:9`); `BoundedOvertaking` is what holds;
* the recovery note is also sent after an alert that was refused
  (`deaf_escalation.rs:12` says after a sent one); `EscalationIsPersisted` is what holds:
  a sent alert is followed by its note, and a refused one as well;
* a crash between the mail and the save nudges the same window again
  (`silence_nudge.rs:8`); `KeepsDebouncePromise` allows it once for each crash;
* when the bus closes the connection cleanly the daemon ends with status 0 and
  `Restart=on-failure` leaves it down (`README.md:7`, "long-running");
  `Resubscribes` speaks of the other ends;
* `digest.rs:16-17` says that a restart does not lose the count; a crash inside the
  write leaves a file that no longer loads, as it does for the other state files;
* an event with the empty key is taken as nudged before any nudge
  (`silence_nudge.rs:86`); `DebouncedWereNudged` leaves that key out;
* a sendmail that fills its stderr before it reads its input blocks `deliver` for ever
  (`transport.rs:37`); `LadderEnds` excepts `BothPipesFull`;
* a sendmail that stops reading, queues the part it has and exits with 0 is
  reported as delivered (`transport.rs:94` leaves it to the exit status, against
  `README.md:15`, one delivery); `WholeUnlessStopped` excepts it;
* a quiet day drops the note that a silence was flagged (`digest.rs:77-81`), though
  the tally has it;
* `format_ts_local` (`digest.rs:102-113`) says local time and gives UTC.

### What the properties excuse

Some properties bound what a hazard can do and do not forbid it, because the code
gives no more. Where a text of the repository promises more, the lists above say so:

* a lost ack (`daemon.rs:92`) is a fault, and leaves one event unanswered;
  `EventuallyAnswered` is about behaviours without faults;
* a crash between the move of a reply and its publication (`inbound.rs:132`) loses
  what that poller has in hand; `NoReplyLostUnlessFault` is about behaviours without
  faults, `KeepsInboxPromise` says that nothing else is lost and nothing repeated;
* a file that cannot be read (`inbound.rs:107`) stays in new/; `EventuallyConsumed` is
  about the others;
* a process that sendmail left behind (`transport.rs:109`) is assumed to end in
  `LadderEnds`; `daemon_starved` is what follows when it does not;
* a clean close (`daemon.rs:217`) leaves the daemon down; `Resubscribes` leaves it out;
* `ReAlertsUnlessFault`, `KeepsDebouncePromise` and `TodayIsAccounted` excuse a torn
  state file as a fault; `deaf_torn` shows that the program never recovers from it, and
  the tally (`digest.rs:161`) is written the same way.

Deadlock is not checked where the system may really stop: when the published
events are used up, the unit is down after a clean exit, or a state file is torn.
`distress_delivery` and `maildir` check it.

## Fairness

* `ReachDaemon!Fairness`: the tokio runtime polls a woken task (weak fairness of
  the subscriber and of the dispatcher), a handler's own calls return, and systemd
  restarts a failed unit (`RestartSec=5s` keeps it below the default start limit).
  No fairness is assumed of producers or of faults.
* `FairSpec` adds that sendmail exits. The code has no timeout, so this is an
  assumption about sendmail; `HangingSpec` goes without it and
  `daemon_starved` shows what follows.
* `DeafEscalation!FairSpec`: time passes, calls return, and pulse-watch keeps
  publishing `hearing.fail` while the device is deaf. The re-alert depends on it:
  the program has no timer of its own.
* `DistressDelivery!FairDeliverySpec`: the steps of `deliver` and of the ladder are
  taken; sendmail goes on (it is not stopped, and exits at last because what it reads
  and reports is finite) and a process it left behind ends. Nothing is assumed of
  which step sendmail takes next.
* `MaildirInbound!FairSpec`: every poller polls again and its calls return.

## Proofs

`ReachDaemonProofs` proves, for all channel capacities, retries and numbers of
events and faults, under `DaemonAssumption` (capacities are positive, as
`mpsc::channel` requires, and `MaxRetries` is a u32):

* `TypeCorrect`: the type invariant, with `BusyOnTaken`;
* `InductiveInvariant`: `Inductive`, described below, which also holds in every state
  of the `daemon_safety` run;
* `DispatchInOrder`, `NothingIsLost`, `OvertakenAtMostOnce`: the safety properties
  `InOrder`, `NothingLostInside`, `BoundedOvertaking`;
* `ImplementsRelay`: every behaviour of the daemon is one of `FamilyRelay`;
* `AcksAreTruthful`, `AcksInOrder`: `TruthfulAcks` and `AcksFollowDispatch`, from the
  steps of the relay that the daemon's steps map to (`RelayKeepsAcks`).

None of the properties is inductive alone. `InOrder` speaks only of what was
dispatched, so a step that dispatches needs to know that what waits in a channel is
newer: `SortedChannel` (a channel holds events of its own topics, in bus order, that
were sent) and `TakenBefore` (what was dispatched precedes what waits in the same
lane), which in turn need `TakenWereSent` and `ReadsRoutedEvents` (what the
subscriber holds is newer than everything sent). Every restart keeps them because
the new subscription starts at the end of the bus. `BoundedOvertaking` needs
`PassedOnce`: after a normal event passed a distress the dispatcher is never at the
normal poll while that distress waits. The acknowledgement's part of the promise
needs `AnswersCurrent`: the event being handled has no ack yet and its ack will say
what sendmail said. The proof treats the stream of events (`Ordered`) and the
answers (`AnswersCurrent`) apart, one lemma for each action that moves an event and
one (`QuietKeepsOrder`, `QuietKeepsAnswers`) for all the others. `RelayStep` then
maps each action to `Publish`, `Dispatch`, `Accept`, `Acknowledge` or a stutter.

`CivilDateProofs` proves `DateAdvances`: for every day number the date `today_utc`
computes for the next day is `Tomorrow` of the one it computes for this day. With the
first day, 1970-01-01, that makes it the calendar on every day. The proof places a day
by its era of 400 years, the year of the era and the day of that year. The year that
the division by 365 gives is the one in which the day lies (`YearIsRight`), and no
other is (`YearIsUnique`); the month likewise (`MonthIsRight`); years and months
counted from March have the lengths of the calendar (`YearLength`, `MonthLength`).
From a day to the next either the day of the year advances (`SameYear`) or a year is
over (`NewYear`), which is the first of March. `DatesDiffer` adds that no two days have
the same date, however far apart: a date gives back its era, year of the era and day
(`PlaceIsDay`), so comparing dates, as `is_new_day` does, compares days.

`DigestTallyProofs` proves the four invariants of the `digest` run for any number of
days, midnights, events and faults, under `TallyAssumption`: `TypeCorrect`,
`DateIsRight`, `RecordedInItsDay`, `TodayAccounted`. The inductive invariant has the
type, the date and the tally of the day, and two parts more. `Dated`: no tally, in the
file or in hand, is of a later date than today, so that after midnight none is of
today (`OrdinalGrows` makes the order of dates a number). `Accounts`: what the tally
says of today, and what has arrived, differ by the event at hand, by faults and by the
event that was at hand at midnight; `TodayIsAccounted` is this between two events.

`DistressDeliveryProofs` proves the safety properties of the `distress_delivery`
run for every `max_retries` and fallback list and every size of mail and pipe, under
the assumptions of `DistressLadder` and `EmailTransport`. Two invariants carry it.
`Climbed`: how far the ladder has come says where it is, and every call made so far
was the one due at that point and was refused; `NothingAfterSuccess` and
`FailureAfterAll` are read off it. `Mailed`: the transport is at rest between calls, a
delivered result has the whole mail in a queue or a sendmail that gave its input up
(`DeliveredIsQueued`), and every copy but the one that the result stands for was paid
for by a fault (`OneCopy`). `ClimbsTheLadder` (the lemma) maps every step of the
composition to a step of the ladder or to a stutter, so each of the two invariants is
shown once, for its own module.

Two more theorems are what holds of `LadderEnds` without fairness. `NeverStuckOtherwise`:
unless both pipes are full, `deliver`, sendmail or the process it left behind has a
step; `WaitingMeansFull` is the reason, a writer waits only for a pipe that somebody
else still has to empty. `LadderIsBounded`: each step of a running ladder completes one
of at most `Attempts` plus the fallbacks calls, or makes `LadderWork`, a natural number,
smaller. Together: a ladder that does not end has stopped, and only where both pipes
are full or a process takes no more steps.

`ReachHandlerProofs` goes on from `ReachDaemonProofs` with the handlers.
`ImplementsLadder` is `ClimbsTheLadder`: with `NotYetDelivered` (while a handler tries,
nothing has accepted its mail) every step is a step of the ladder or a stutter, and a
crash is the ladder's `Die`. `DispatchedAreAnswered` is `AnsweredUnlessFault`. It counts
what a handler was given; events that the end of a connection leaves in a channel are
outside it, and `daemon_dropped` is about them. The count is not inductive: an event that will not be
answered anyway must not count as busy, so the invariant `AnswersPaid` counts only the
event whose handler is about to answer.

It also proves what holds of the daemon's progress without fairness. `NeverDeadlocked`
is `RestsOnlyWhenDone`, from `NothingLostInside`, the order of the two ends
(`TasksAlive`: the dispatcher ends only after the subscriber) and capacities that are
not 0. `NeverSpins` is `EveryStepIsProgress`: a step dispatches one more event, of which
there are no more than positions on the bus (`DispatchesAreBounded`, by `InOrder` and
the pigeonhole principle), or makes `HandlerWork`, `StreamWork`, `PollWork` smaller in
lexical order, all of them natural numbers (`WorkIsNatural`, with `AttemptsLeft`: a
handler about to call has an attempt left). So in any behaviour of `Spec` the loops of
the daemon come to rest between two outside events, and at rest everything it
subscribed to was dispatched. What fairness adds in `EventuallyDispatched` is that they
get there.

`SilenceNudgeProofs` and `DeafEscalationProofs` prove the invariants of their runs and
that both implement `Debounce`, for all windows, cool-downs, clock steps and numbers of
faults. The invariant (`Debouncing` in both) says that, while a handler may still
decide, the file agrees with the mail that was tried last (for the nudge, accepted
last) or some fault has not yet
been used up by a repetition. For the escalation "agrees" includes the age: the
recorded alert is no older than the real one (`OlderIsTruthful`), so that a cool-down
that is over for the file is over in fact. `TriesArePersisted` is `EscalationIsPersisted`:
the file follows what was tried; what was sent is a part of it (`ReachedByAlert`).

`MaildirInboundProofs` proves the invariants of the `maildir` run for any number
of mails, pollers and faults. `OneCopy` is what the rename gives: a mail that is in
new/ has no copy, so the one poller whose rename succeeds has the only one. `HasCopy`
is its converse without faults. `Counted` bounds the count of a mail that is not yet
moved by the pollers that have read it (`Readers`) and the faults. `ImplementsInbox`
maps each step to one of `Inbox` or to a stutter (`StepsAsInbox`). It needs both
`OneCopy` (what is spoken was in one hand only) and `HasFile` (what a poller moves has
arrived and can be read, which `Consume` asks for).

Only model-checked: every liveness property (liveness under fairness is beyond the
prover); the bounded steps and the freedom from deadlock on which `LadderEnds`,
`EventuallyDispatched` and `EventuallyAnswered` rest are proved. Every invariant, action property and refinement that a passing run checks has
a theorem.

## Not modelled

* Mail and ack texts, formatting, logging and addresses: no property is about them.
* `send`, `reply`, `test-transport`: one call each, without state.
* The IMAP, ntfy and webhook backends: stubs that return nothing or a refusal.
* Loading the configuration: pure input; `enabled`, the cool-down and the policy are
  chosen freely in the initial states.
* Events published while the daemon is not subscribed: the bus keeps none, so the
  properties speak of events after `base`.
* The tests, release scripts and receipts.

## Plan

Done: every component but the configuration and the one-shot subcommands is
modelled, and every safety property of the passing runs is proved.

What is left:

1. The refinement of `ReachDaemon`'s single delivery step by `EmailTransport`, so that
   the daemon's runs include the pipes (today `DistressDelivery` composes the
   transport with the ladder, and the daemon with the ladder alone).
2. A model of the configuration's precedence, should it get state (it is read once).
