---------------------------- MODULE DeafEscalation ----------------------------
(***************************************************************************)
(* deaf_escalation.rs: the alert sent when the device can no longer hear, its *)
(* debounce, the recovery note, and the state file that carries the debounce  *)
(* over restarts.  The dispatcher runs one handler at a time.                 *)
(*                                                                         *)
(* Times appear only as differences: "age" is the wall clock minus the        *)
(* alert_sent_at that is recorded, up to the cool-down.                      *)
(***************************************************************************)
EXTENDS Integers

CONSTANTS
    MaxCooldown,    \* bound: the longest cooldown_s
    MaxStep,        \* bound: how far the wall clock is set back
    MaxFaults       \* bound: crashes, failed writes and clock steps

ASSUME DeafAssumption ==
    MaxCooldown \in Nat /\ MaxStep \in Nat /\ MaxFaults \in Nat

VARIABLES
    cfg,        \* DeafEscalationConfig
    file,       \* deaf_escalation_state.json
    pc,         \* where the handler is
    pending,    \* the state it is about to save
    faults,     \* faults so far
    last,       \* history: the mail that was tried last, sent or refused
    reached,    \* history: an alert of this outage was sent
    elapsed,    \* history: real time since the last try, up to cooldown_s
    repeats     \* history: alerts before their time, notes with no alert before

history == <<last, reached, elapsed, repeats>>
vars == <<cfg, file, pc, pending, faults, history>>

\* suppressed holds exactly when alert_sent_at is Some; age is 0 otherwise.
State ==
    {s \in [suppressed : BOOLEAN, age : -MaxStep .. MaxCooldown] : s.suppressed \/ s.age = 0}
Clear == [suppressed |-> FALSE, age |-> 0]

Mails == {"alert", "note"}

Disk == INSTANCE StateFile WITH Values <- State, Default <- Clear

TypeOK ==
    /\ cfg \in [enabled : BOOLEAN, cooldown : 0 .. MaxCooldown]
    /\ file \in Disk!File
    /\ pc \in {"idle", "alerting", "recovering", "opening", "writing"}
    /\ pending \in State
    /\ faults \in 0 .. MaxFaults
    /\ elapsed \in 0 .. MaxCooldown
    /\ last \in Mails
    /\ reached \in BOOLEAN
    /\ repeats \in Nat

Init ==
    /\ cfg \in [enabled : BOOLEAN, cooldown : 0 .. MaxCooldown]
    /\ file = Disk!Absent
    /\ pc = "idle"
    /\ pending = Clear
    /\ faults = 0
    /\ last = "note" /\ reached = FALSE /\ elapsed = 0 /\ repeats = 0

Fault == faults < MaxFaults /\ faults' = faults + 1

\* An alert is due again once the cool-down is over.
Due == last = "alert" /\ cfg.cooldown > 0 /\ elapsed >= cfg.cooldown

\* The transport was called for the mail, and accepted it or not.
Tried(mail) ==
    /\ last' = mail
    /\ elapsed' = 0
    /\ repeats' = IF mail = last /\ ~Due THEN repeats + 1 ELSE repeats

-----------------------------------------------------------------------------
(* Time. *)

Older(s) == IF s.suppressed /\ s.age < cfg.cooldown THEN [s EXCEPT !.age = @ + 1] ELSE s

\* A second passes; it matters until the cool-down is over.
Tick ==
    /\ file' = [file EXCEPT !.value = Older(@)]
    /\ pending' = Older(pending)
    /\ elapsed' = IF elapsed < cfg.cooldown THEN elapsed + 1 ELSE elapsed
    /\ <<file', pending', elapsed'>> # <<file, pending, elapsed>>
    /\ UNCHANGED <<cfg, pc, faults, last, reached, repeats>>

\* The wall clock is set: the recorded time is suddenly older or in the future.
\* A step during a save has the effect of one right after it.
ClockStep(age) ==
    /\ Fault
    /\ pc \notin {"opening", "writing"}
    /\ file.value.suppressed
    /\ age <= cfg.cooldown
    /\ file' = [file EXCEPT !.value.age = age]
    /\ UNCHANGED <<cfg, pc, pending, history>>

-----------------------------------------------------------------------------
(* wm.health.hearing.fail *)

\* Faulty variants: a zero cool-down re-alerts at once; none ever re-alerts.
ReAlertAtZero(s) == s.age >= cfg.cooldown

NeverReAlert(s) == FALSE

\* now.saturating_sub(sent_at) >= cooldown_s, if there is a cool-down.
ShouldReAlert(s) == cfg.cooldown > 0 /\ s.age >= cfg.cooldown

\* An alert is due; with the switch off, an unreadable file or a suppressed
\* outage the event changes nothing.
OnHearingFail ==
    /\ pc = "idle"
    /\ cfg.enabled
    /\ Disk!Loads(file)
    /\ file.value.suppressed => ShouldReAlert(file.value)
    /\ pc' = "alerting"
    /\ UNCHANGED <<cfg, file, pending, faults, history>>

\* Faulty variant: a refused alert does not suppress the next one.
AlertReturnsUnsuppressed(delivered) ==
    /\ pc = "alerting"
    /\ pc' = "opening"
    /\ pending' = [suppressed |-> delivered, age |-> 0]
    /\ Tried("alert")
    /\ reached' = (reached \/ delivered)
    /\ UNCHANGED <<cfg, file, faults>>

\* The ladder returns; suppression follows whether or not it delivered.
AlertReturns(delivered) ==
    /\ pc = "alerting"
    /\ pc' = "opening"
    /\ pending' = [suppressed |-> TRUE, age |-> 0]
    /\ Tried("alert")
    /\ reached' = (reached \/ delivered)
    /\ UNCHANGED <<cfg, file, faults>>

-----------------------------------------------------------------------------
(* wm.health.hearing.ok *)

\* A recovery note is due only if the file says an outage was alerted.
OnHearingOk ==
    /\ pc = "idle"
    /\ cfg.enabled
    /\ Disk!Loads(file)
    /\ file.value.suppressed
    /\ pc' = "recovering"
    /\ UNCHANGED <<cfg, file, pending, faults, history>>

\* Faulty variant: the end of an outage leaves alert_sent_at as it is.
NoteReturnsKeepingTime ==
    /\ pc = "recovering"
    /\ pc' = "opening"
    /\ pending' = [file.value EXCEPT !.suppressed = FALSE]
    /\ Tried("note")
    /\ reached' = FALSE
    /\ UNCHANGED <<cfg, file, faults>>

\* The note was sent or refused; suppression ends all the same.
NoteReturns ==
    /\ pc = "recovering"
    /\ pc' = "opening"
    /\ pending' = Clear
    /\ Tried("note")
    /\ reached' = FALSE
    /\ UNCHANGED <<cfg, file, faults>>

-----------------------------------------------------------------------------
(* save_state, which neither syncs nor renames. *)

Truncate ==
    /\ pc = "opening"
    /\ pc' = "writing"
    /\ file' = Disk!Torn
    /\ UNCHANGED <<cfg, pending, faults, history>>

Write ==
    /\ pc = "writing"
    /\ pc' = "idle"
    /\ file' = Disk!Whole(pending)
    /\ pending' = Clear
    /\ UNCHANGED <<cfg, faults, history>>

\* The directory or the file cannot be opened, or the write fails halfway.
SaveFails ==
    /\ Fault
    /\ pc \in {"opening", "writing"}
    /\ pc' = "idle"
    /\ pending' = Clear
    /\ UNCHANGED <<cfg, file, history>>

-----------------------------------------------------------------------------
\* The daemon is killed and restarted; a mail on its way may still go out.
Crash ==
    /\ Fault
    /\ pc' = "idle"
    /\ pending' = Clear
    /\ \/ UNCHANGED history
       \/ pc = "alerting" /\ Tried("alert") /\ reached' = TRUE
       \/ pc = "recovering" /\ Tried("note") /\ reached' = FALSE
    /\ UNCHANGED <<cfg, file>>

Next ==
    \/ Tick
    \/ \E age \in -MaxStep .. MaxCooldown : ClockStep(age)
    \/ OnHearingFail
    \/ \E delivered \in BOOLEAN : AlertReturns(delivered)
    \/ OnHearingOk
    \/ NoteReturns
    \/ Truncate
    \/ Write
    \/ SaveFails
    \/ Crash

Spec == Init /\ [][Next]_vars

Returns == \/ \E delivered \in BOOLEAN : AlertReturns(delivered)
           \/ NoteReturns \/ Truncate \/ Write

\* Time passes, calls return, and while the device is deaf the presence watch
\* keeps publishing hearing.fail.
FairSpec ==
    Spec /\ WF_vars(Tick) /\ WF_vars(Returns) /\ WF_vars(OnHearingFail)

-----------------------------------------------------------------------------
\* "Persist suppression state whether or not delivery succeeded: we don't want
\* a failing transport to spam" (deaf_escalation.rs:266-267).  Without faults
\* the file a restart would find says "suppressed" exactly when the mail tried
\* last is an alert, sent or refused, so that no sequence of refusals, notes
\* and cool-downs makes the handler forget a try or invent one.  In particular an
\* outage of which somebody was told is followed by its recovery note
\* (deaf_escalation.rs:12-13); that a note is only for a sent alert does not hold.
EscalationIsPersisted ==
    pc = "idle" /\ faults = 0 =>
        /\ file.value.suppressed <=> last = "alert"
        /\ reached => file.value.suppressed

Promise == INSTANCE Debounce WITH Notices <- Mails, due <- Due

\* "Debounced per outage" (deaf_escalation.rs:7-9): an alert is repeated before
\* the cool-down, or a recovery note sent with no alert tried before it, only
\* because of a fault (a torn file, a crash, a failed write, a clock step), once
\* for each.  A refused mail counts as well: the debounce is there to spare the
\* transport.
KeepsDebouncePromise == Promise!Spec

\* While the device stays deaf an alert is repeated after every cool-down, or
\* the recovery is noted, as long as nothing fails.
ReAlertsUnlessFault ==
    (last = "alert" /\ cfg.enabled /\ cfg.cooldown > 0)
        ~> (pc = "alerting" \/ last = "note" \/ faults > 0)

-----------------------------------------------------------------------------
(* What the comments say and the code does not do. *)

\* deaf_escalation.rs:267-268: "A re-alert will happen when the cool-down
\* elapses or an .ok arrives."
ReAlerts ==
    (last = "alert" /\ cfg.enabled /\ cfg.cooldown > 0) ~> (pc = "alerting" \/ last = "note")
=============================================================================
