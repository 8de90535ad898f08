------------------------- MODULE DeafEscalationProofs -------------------------
(***************************************************************************)
(* Proofs about the deaf-device escalation, for every cool-down, every step   *)
(* of the wall clock and any number of faults.                               *)
(***************************************************************************)
EXTENDS DeafEscalation, TLAPS

\* A state says of an alert whether it was tried, and makes it no older than it is.
Truthful(s) ==
    /\ s.suppressed <=> last = "alert"
    /\ s.suppressed => s.age <= elapsed

\* A fault that is not yet used up by a repetition.
Excused == repeats < faults

\* What the file says is true when an event comes, the handler decides by it,
\* and what it is about to save is true, or a fault excuses it.
Debouncing ==
    /\ repeats <= faults
    /\ pc \in {"idle", "alerting", "recovering"} => Truthful(file.value) \/ Excused
    /\ pc = "alerting" /\ file.value.suppressed => ShouldReAlert(file.value) \/ Excused
    /\ pc = "recovering" => file.value.suppressed
    /\ pc \in {"opening", "writing"} => Truthful(pending)

Inductive == TypeOK /\ Debouncing

\* The types behind TypeOK that arithmetic needs.
LEMMA Bounds ==
    ASSUME TypeOK
    PROVE  /\ cfg.cooldown \in 0 .. MaxCooldown /\ cfg.cooldown \in Nat
           /\ elapsed \in Nat /\ repeats \in Nat /\ faults \in Nat
           /\ file.value \in State /\ file.value.suppressed \in BOOLEAN
           /\ file.value.age \in -MaxStep .. MaxCooldown /\ file.value.age \in Int
           /\ pending.suppressed \in BOOLEAN
           /\ pending.age \in -MaxStep .. MaxCooldown /\ pending.age \in Int
           /\ Clear \in State
  BY DeafAssumption DEF TypeOK, State, Clear, Disk!File

LEMMA InductiveInit == Init => Inductive
  <1> SUFFICES ASSUME Init PROVE Inductive
    OBVIOUS
  <1>1. Clear \in State
    BY DeafAssumption DEF Clear, State
  <1>2. TypeOK
    <2>1. reached \in BOOLEAN
      BY DEF Init
    <2> QED
      BY <1>1, <2>1, DeafAssumption DEF Init, TypeOK, Disk!Absent, Disk!File, Mails
  <1>3. Debouncing
    BY DEF Init, Debouncing, Truthful, Excused, Disk!Absent, Clear
  <1> QED BY <1>2, <1>3 DEF Inductive

-----------------------------------------------------------------------------
(* Time *)

\* A state that grows older stays a state, no older than the alert, and due.
LEMMA OlderIsTruthful ==
    ASSUME TypeOK, Tick
    PROVE  \A s \in State :
               /\ Older(s) \in State
               /\ Older(s).suppressed = s.suppressed
               /\ s.suppressed /\ s.age <= elapsed => Older(s).age <= elapsed'
               /\ s.suppressed /\ ShouldReAlert(s) => ShouldReAlert(Older(s))
  <1> SUFFICES ASSUME NEW s \in State
               PROVE  /\ Older(s) \in State
                      /\ Older(s).suppressed = s.suppressed
                      /\ s.suppressed /\ s.age <= elapsed => Older(s).age <= elapsed'
                      /\ s.suppressed /\ ShouldReAlert(s) => ShouldReAlert(Older(s))
    OBVIOUS
  <1> DEFINE c == cfg.cooldown
  <1>1. /\ c \in 0 .. MaxCooldown /\ c \in Nat /\ elapsed \in Nat
        /\ MaxCooldown \in Nat /\ MaxStep \in Nat
        /\ s.suppressed \in BOOLEAN /\ s.age \in -MaxStep .. MaxCooldown /\ s.age \in Int
    BY Bounds, DeafAssumption DEF State
  <1>2. elapsed' = IF elapsed < c THEN elapsed + 1 ELSE elapsed
    BY DEF Tick
  <1>3. CASE s.suppressed /\ s.age < c
    <2>1. Older(s) = [suppressed |-> s.suppressed, age |-> s.age + 1]
      BY <1>3 DEF Older, State
    <2>2. s.age + 1 \in -MaxStep .. MaxCooldown /\ s.age + 1 <= c
      BY <1>1, <1>3
    <2>3. s.age <= elapsed => s.age + 1 <= elapsed'
      BY <1>1, <1>2, <1>3
    <2>4. ~ShouldReAlert(s)
      BY <1>1, <1>3 DEF ShouldReAlert
    <2>5. Older(s) \in State
      BY <1>1, <1>3, <2>1, <2>2 DEF State
    <2> QED BY <1>1, <2>1, <2>3, <2>4, <2>5
  <1>4. CASE ~(s.suppressed /\ s.age < c)
    <2>1. Older(s) = s
      BY <1>4 DEF Older
    <2>2. s.age <= elapsed => s.age <= elapsed'
      BY <1>1, <1>2
    <2> QED BY <2>1, <2>2
  <1> QED BY <1>3, <1>4

LEMMA TickStep == Inductive /\ Tick => Inductive'
  <1> SUFFICES ASSUME Inductive, Tick PROVE Inductive'
    OBVIOUS
  <1>1. /\ TypeOK /\ Debouncing /\ file.value \in State /\ pending \in State
        /\ file' = [file EXCEPT !.value = Older(file.value)]
        /\ pending' = Older(pending)
        /\ UNCHANGED <<cfg, pc, faults, last, reached, repeats>>
    BY Bounds DEF Inductive, Tick, TypeOK
  <1>2. file'.value = Older(file.value) /\ file' \in Disk!File
    BY <1>1, OlderIsTruthful DEF TypeOK, Disk!File
  <1>3. elapsed' \in 0 .. MaxCooldown
    BY <1>1, Bounds, DeafAssumption DEF Tick, TypeOK
  <1>4. TypeOK'
    BY <1>1, <1>2, <1>3, OlderIsTruthful DEF TypeOK
  <1>5. /\ Truthful(file.value) => Truthful(file.value)'
        /\ Truthful(pending) => Truthful(pending)'
        /\ (file.value.suppressed /\ ShouldReAlert(file.value)) => ShouldReAlert(file.value)'
        /\ file'.value.suppressed = file.value.suppressed
    BY <1>1, <1>2, OlderIsTruthful DEF Truthful, ShouldReAlert
  <1>6. Debouncing'
    BY <1>1, <1>5 DEF Debouncing, Excused
  <1> QED BY <1>4, <1>6 DEF Inductive

LEMMA ClockStepStep ==
    ASSUME Inductive, NEW age \in -MaxStep .. MaxCooldown, ClockStep(age)
    PROVE  Inductive'
  <1>1. /\ TypeOK /\ Debouncing /\ file \in Disk!File
        /\ file' = [file EXCEPT !.value.age = age]
        /\ faults < MaxFaults /\ faults' = faults + 1
        /\ pc \notin {"opening", "writing"} /\ file.value.suppressed
        /\ UNCHANGED <<cfg, pc, pending, last, reached, elapsed, repeats>>
    BY DEF Inductive, ClockStep, Fault, TypeOK, history
  <1>2. file' \in Disk!File /\ file'.value.suppressed
    BY <1>1 DEF Disk!File, State
  <1>3. TypeOK'
    BY <1>1, <1>2, Bounds, DeafAssumption DEF TypeOK
  <1>4. repeats' < faults'
    BY <1>1, Bounds DEF Debouncing
  <1>5. repeats' <= faults'
    BY <1>1, Bounds DEF Debouncing
  <1>6. Debouncing'
    BY <1>1, <1>2, <1>4, <1>5 DEF Debouncing, Excused
  <1> QED BY <1>3, <1>6 DEF Inductive

-----------------------------------------------------------------------------
(* The mails *)

\* A mail is tried that the file asked for: it is no repetition, or a fault
\* paid for it.
LEMMA AlertIsPaid ==
    ASSUME Inductive, pc = "alerting", Tried("alert")
    PROVE  repeats' \in Nat /\ repeats' <= faults
  <1>1. /\ repeats' = IF "alert" = last /\ ~Due THEN repeats + 1 ELSE repeats
        /\ Truthful(file.value) \/ Excused
        /\ file.value.suppressed => ShouldReAlert(file.value) \/ Excused
        /\ repeats <= faults
    BY DEF Inductive, Debouncing, Tried
  <1>2. Excused \/ ~(last = "alert" /\ ~Due)
    BY <1>1, Bounds DEF Truthful, ShouldReAlert, Due, Inductive
  <1> QED BY <1>1, <1>2, Bounds DEF Excused, Inductive

LEMMA NoteIsPaid ==
    ASSUME Inductive, pc = "recovering", Tried("note")
    PROVE  repeats' \in Nat /\ repeats' <= faults
  <1>1. /\ repeats' = IF "note" = last /\ ~Due THEN repeats + 1 ELSE repeats
        /\ Truthful(file.value) \/ Excused
        /\ file.value.suppressed
        /\ repeats <= faults
    BY DEF Inductive, Debouncing, Tried
  <1>2. Excused \/ last # "note"
    BY <1>1 DEF Truthful
  <1> QED BY <1>1, <1>2, Bounds DEF Excused, Inductive

LEMMA AlertReturnsStep ==
    ASSUME Inductive, NEW delivered \in BOOLEAN, AlertReturns(delivered)
    PROVE  Inductive'
  <1>1. /\ pc' = "opening" /\ pending' = [suppressed |-> TRUE, age |-> 0]
        /\ last' = "alert" /\ elapsed' = 0 /\ reached' = (reached \/ delivered)
        /\ UNCHANGED <<cfg, file, faults>>
    BY DEF AlertReturns, Tried
  <1>2. repeats' \in Nat /\ repeats' <= faults
    BY AlertIsPaid DEF AlertReturns
  <1>3. pending' \in State
    BY <1>1, DeafAssumption DEF State
  <1>4. TypeOK'
    <2>1. reached' \in BOOLEAN
      BY <1>1
    <2>2. UNCHANGED <<cfg, file, faults>> /\ TypeOK
      BY <1>1 DEF Inductive
    <2> QED
      BY <1>1, <1>2, <1>3, <2>1, <2>2, DeafAssumption DEF TypeOK, Mails
  <1>5. Debouncing'
    BY <1>1, <1>2 DEF Debouncing, Truthful
  <1> QED BY <1>4, <1>5 DEF Inductive

LEMMA NoteReturnsStep == Inductive /\ NoteReturns => Inductive'
  <1> SUFFICES ASSUME Inductive, NoteReturns PROVE Inductive'
    OBVIOUS
  <1>1. /\ pc' = "opening" /\ pending' = Clear
        /\ last' = "note" /\ elapsed' = 0
        /\ UNCHANGED <<cfg, file, faults>>
    BY DEF NoteReturns, Tried
  <1>2. repeats' \in Nat /\ repeats' <= faults
    BY NoteIsPaid DEF NoteReturns
  <1>3. TypeOK'
    <2>1. reached' \in BOOLEAN
      BY DEF NoteReturns
    <2> QED
      BY <1>1, <1>2, <2>1, Bounds, DeafAssumption DEF TypeOK, Inductive, Mails
  <1>4. Debouncing'
    BY <1>1, <1>2 DEF Debouncing, Truthful, Clear
  <1> QED BY <1>3, <1>4 DEF Inductive

-----------------------------------------------------------------------------
(* The file, and the daemon *)

LEMMA SaveStep == Inductive /\ (Truncate \/ Write) => Inductive'
  <1> SUFFICES ASSUME Inductive, Truncate \/ Write PROVE Inductive'
    OBVIOUS
  <1>1. TypeOK /\ Debouncing /\ Clear \in State /\ pending \in State
    BY Bounds DEF Inductive, TypeOK
  <1>2. CASE Truncate
    <2>1. TypeOK'
      BY <1>1, <1>2 DEF Truncate, TypeOK, history, Disk!Torn, Disk!File
    <2>2. Debouncing'
      BY <1>1, <1>2 DEF Truncate, Debouncing, history, Truthful
    <2> QED BY <2>1, <2>2 DEF Inductive
  <1>3. CASE Write
    <2>1. TypeOK'
      BY <1>1, <1>3 DEF Write, TypeOK, history, Disk!Whole, Disk!File
    <2>2. Debouncing'
      BY <1>1, <1>3 DEF Write, Debouncing, history, Truthful, Disk!Whole
    <2> QED BY <2>1, <2>2 DEF Inductive
  <1> QED BY <1>2, <1>3

LEMMA FaultStep == Inductive /\ (SaveFails \/ Crash) => Inductive'
  <1> SUFFICES ASSUME Inductive, SaveFails \/ Crash PROVE Inductive'
    OBVIOUS
  <1>1. /\ TypeOK /\ Debouncing
        /\ pc' = "idle" /\ pending' = Clear /\ cfg' = cfg /\ file' = file
        /\ faults < MaxFaults /\ faults' = faults + 1
        /\ \/ UNCHANGED history
           \/ pc = "alerting" /\ Tried("alert") /\ reached' = TRUE
           \/ pc = "recovering" /\ Tried("note") /\ reached' = FALSE
    BY DEF Inductive, SaveFails, Crash, Fault
  <1>2. repeats' \in Nat /\ repeats' <= faults
    BY <1>1, AlertIsPaid, NoteIsPaid, Bounds DEF history, Debouncing
  <1>3. repeats' < faults' /\ repeats' <= faults' /\ faults' \in 0 .. MaxFaults
    BY <1>1, <1>2, Bounds, DeafAssumption
  <1>4. last' \in Mails /\ elapsed' \in 0 .. MaxCooldown
    BY <1>1, DeafAssumption DEF TypeOK, history, Tried, Mails
  <1>7. reached' \in BOOLEAN
    BY <1>1 DEF TypeOK, history
  <1>5. TypeOK'
    BY <1>1, <1>2, <1>3, <1>4, <1>7, Bounds DEF TypeOK
  <1>6. Debouncing'
    BY <1>1, <1>3 DEF Debouncing, Excused
  <1> QED BY <1>5, <1>6 DEF Inductive

LEMMA InductiveStep == Inductive /\ [Next]_vars => Inductive'
  <1> SUFFICES ASSUME Inductive, [Next]_vars PROVE Inductive'
    OBVIOUS
  <1>1. CASE OnHearingFail
    <2>1. UNCHANGED <<cfg, file, pending, faults, last, reached, elapsed, repeats>> /\ pc' = "alerting"
      BY <1>1 DEF OnHearingFail, history
    <2>2. file.value.suppressed => ShouldReAlert(file.value)
      BY <1>1 DEF OnHearingFail
    <2>3. Truthful(file.value) \/ Excused
      BY <1>1 DEF OnHearingFail, Inductive, Debouncing
    <2>4. TypeOK'
      BY <2>1 DEF Inductive, TypeOK
    <2>5. Debouncing'
      BY <2>1, <2>2, <2>3 DEF Inductive, Debouncing, Truthful, Excused, ShouldReAlert
    <2> QED BY <2>4, <2>5 DEF Inductive
  <1>2. CASE OnHearingOk
    <2>1. UNCHANGED <<cfg, file, pending, faults, last, reached, elapsed, repeats>> /\ pc' = "recovering"
      BY <1>2 DEF OnHearingOk, history
    <2>2. TypeOK'
      BY <2>1 DEF Inductive, TypeOK
    <2>3. Debouncing'
      BY <1>2, <2>1 DEF OnHearingOk, Inductive, Debouncing, Truthful, Excused
    <2> QED BY <2>2, <2>3 DEF Inductive
  <1>3. CASE UNCHANGED vars
    BY <1>3 DEF vars, history, Inductive, TypeOK, Debouncing, Truthful, Excused, ShouldReAlert
  <1> QED
    BY <1>1, <1>2, <1>3, TickStep, ClockStepStep, AlertReturnsStep, NoteReturnsStep, SaveStep,
       FaultStep DEF Next

-----------------------------------------------------------------------------
(* The theorems *)

\* The inductive invariant holds in every reachable state.
THEOREM DeafInvariant == Spec => []Inductive
  BY InductiveInit, InductiveStep, PTL DEF Spec

\* The handler, its state file and the times keep their types, for every
\* cool-down (deaf_escalation.rs).
THEOREM TypeCorrect == Spec => []TypeOK
  <1>1. Inductive => TypeOK
    BY DEF Inductive
  <1> QED BY DeafInvariant, <1>1, PTL

\* An outage of which somebody was told is not over before its note was tried.
LEMMA ReachedByAlert == Spec => [](reached => last = "alert")
  <1>1. Init => (reached => last = "alert")
    BY DEF Init
  <1>2. (reached => last = "alert") /\ [Next]_vars => (reached => last = "alert")'
    BY DEF Next, vars, history, Tried, OnHearingFail, AlertReturns, OnHearingOk, NoteReturns,
       Truncate, Write, SaveFails, Crash, Tick, ClockStep
  <1> QED BY <1>1, <1>2, PTL DEF Spec

\* Until something fails the state file says "suppressed" exactly when the mail
\* tried last is an alert, sent or refused, and after an alert that was sent, for
\* every cool-down and every interleaving of events and time (on_hearing_fail,
\* on_hearing_ok, save_state).
THEOREM TriesArePersisted == Spec => []EscalationIsPersisted
  <1>1. Inductive /\ (reached => last = "alert") => EscalationIsPersisted
    BY Bounds DEF Inductive, Debouncing, EscalationIsPersisted, Truthful, Excused
  <1> QED BY DeafInvariant, ReachedByAlert, <1>1, PTL

\* A mail that is tried is one the debounce allows.
LEMMA NotifyStep ==
    ASSUME TypeOK, NEW mail \in Mails, Tried(mail), cfg' = cfg,
           repeats' <= faults'
    PROVE  Promise!Notify(mail)
  <1>1. Due' = FALSE
    BY Bounds DEF Due, Tried
  <1> QED BY <1>1 DEF Promise!Notify, Tried

LEMMA DebounceStep == Inductive /\ [Next]_vars => [Promise!Next]_(Promise!vars)
  <1> SUFFICES ASSUME Inductive, Inductive', [Next]_vars
               PROVE  [Promise!Next]_(Promise!vars)
    BY InductiveStep
  <1>1. TypeOK /\ repeats' <= faults'
    BY DEF Inductive, Debouncing
  <1>2. Due \in BOOLEAN /\ Due' \in BOOLEAN
    BY DEF Due
  <1>3. ASSUME UNCHANGED <<last, elapsed, cfg>> PROVE Due' = Due
    BY <1>3 DEF Due
  <1>4. CASE Tick
    <2>1. UNCHANGED <<cfg, last, repeats, faults>>
      BY <1>4 DEF Tick
    <2>2. Due => Due'
      BY <1>1, <1>4, <2>1, Bounds DEF Tick, Due
    <2> QED BY <1>2, <2>1, <2>2 DEF Promise!Next, Promise!vars
  <1>5. ASSUME NEW age \in -MaxStep .. MaxCooldown, ClockStep(age)
        PROVE  Promise!Next
    BY <1>3, <1>5 DEF ClockStep, Fault, history, Promise!Next
  <1>6. ASSUME NEW delivered \in BOOLEAN, AlertReturns(delivered)
        PROVE  Promise!Next
    <2>1. Promise!Notify("alert")
      BY <1>1, <1>6, NotifyStep DEF AlertReturns, Mails
    <2> QED BY <1>6, <2>1 DEF AlertReturns, Promise!Next, Mails
  <1>7. CASE NoteReturns
    <2>1. Promise!Notify("note")
      BY <1>1, <1>7, NotifyStep DEF NoteReturns, Mails
    <2> QED BY <1>7, <2>1 DEF NoteReturns, Promise!Next, Mails
  <1>8. CASE OnHearingFail \/ OnHearingOk \/ Truncate \/ Write \/ UNCHANGED vars
    BY <1>3, <1>8
       DEF OnHearingFail, OnHearingOk, Truncate, Write, vars, history, Promise!vars
  <1>9. CASE SaveFails \/ Crash
    <2>1. faults' = faults + 1 /\ cfg' = cfg
      BY <1>9 DEF SaveFails, Crash, Fault
    <2>2. CASE UNCHANGED history
      BY <1>3, <2>1, <2>2 DEF history, Promise!Next
    <2>3. ASSUME NEW mail \in Mails, Tried(mail) PROVE Promise!Next
      BY <1>1, <2>1, <2>3, NotifyStep DEF Promise!Next
    <2> QED BY <1>9, <2>2, <2>3 DEF SaveFails, Crash, Mails
  <1> QED BY <1>4, <1>5, <1>6, <1>7, <1>8, <1>9 DEF Next

\* The escalation implements the debounce: an alert before the cool-down is over,
\* or a note for no alert, has a fault of its own, for every cool-down, clock step
\* and number of restarts (deaf_escalation.rs:7-9).
THEOREM ImplementsDebounce == Spec => KeepsDebouncePromise
  <1>1. Init => Promise!Init
    BY DEF Init, Promise!Init, Due, Mails
  <1> QED BY <1>1, DeafInvariant, DebounceStep, PTL
        DEF Spec, KeepsDebouncePromise, Promise!Spec
=============================================================================
