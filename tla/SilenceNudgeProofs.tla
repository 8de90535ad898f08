-------------------------- MODULE SilenceNudgeProofs --------------------------
(***************************************************************************)
(* Proofs about the silence nudge, for every set of windows and any number of *)
(* faults.                                                                   *)
(***************************************************************************)
EXTENDS SilenceNudge, TLAPS

\* The key in the file was nudged, and so was the one that is being saved.
SavedWereNudged ==
    /\ file.value # NoWindow => file.value \in nudged
    /\ pc \in {"opening", "writing"} => window \in nudged
    /\ DebouncedWereNudged

\* The file knows the last window nudged, or a fault that made it forget is
\* not yet used up by a repetition.
Remembered == file.value = last \/ repeats < faults

\* A handler that sends was told by the file that the window is another one.
Debouncing ==
    /\ repeats <= faults
    /\ pc \in {"idle", "sending"} => Remembered
    /\ pc = "sending" => window # file.value
    /\ pc \in {"opening", "writing"} => window = last

Inductive == SavedWereNudged /\ Debouncing

LEMMA InductiveInit == Init => TypeOK /\ Inductive
  BY NudgeAssumption DEF Init, TypeOK, Inductive, SavedWereNudged, Debouncing, Remembered,
     DebouncedWereNudged, Keys, PresenceFiles, Disk!Absent, Disk!File

LEMMA TypeStep == TypeOK /\ [Next]_vars => TypeOK'
  <1> SUFFICES ASSUME TypeOK, [Next]_vars PROVE TypeOK'
    OBVIOUS
  <1> USE DEF TypeOK
  <1>1. CASE PulseWatch
    BY <1>1 DEF PulseWatch, mails
  <1>2. ASSUME NEW w \in Windows, OnSilence(w) PROVE TypeOK'
    BY <1>2 DEF OnSilence, mails, Keys
  <1>3. CASE Delivered
    BY <1>3 DEF Delivered, Accepted
  <1>4. CASE Refused
    BY <1>4 DEF Refused, mails
  <1>5. CASE Truncate
    BY <1>5 DEF Truncate, mails, Disk!Torn, Disk!File, Keys
  <1>6. CASE Write
    BY <1>6 DEF Write, mails, Disk!Whole, Disk!File, Keys
  <1>7. CASE SaveFails
    BY <1>7, NudgeAssumption DEF SaveFails, Fault, mails
  <1>8. CASE Crash
    BY <1>8, NudgeAssumption DEF Crash, Fault, Accepted, mails
  <1>9. CASE UNCHANGED vars
    BY <1>9 DEF vars, mails
  <1> QED BY <1>1, <1>2, <1>3, <1>4, <1>5, <1>6, <1>7, <1>8, <1>9 DEF Next

LEMMA NudgedStep == TypeOK /\ SavedWereNudged /\ [Next]_vars => SavedWereNudged'
  <1> SUFFICES ASSUME TypeOK, SavedWereNudged, [Next]_vars PROVE SavedWereNudged'
    OBVIOUS
  <1> USE DEF SavedWereNudged, DebouncedWereNudged
  <1>1. CASE PulseWatch
    BY <1>1 DEF PulseWatch, mails
  <1>2. ASSUME NEW w \in Windows, OnSilence(w) PROVE SavedWereNudged'
    BY <1>2 DEF OnSilence, mails
  <1>3. CASE Delivered
    BY <1>3 DEF Delivered, Accepted
  <1>4. CASE Refused
    BY <1>4 DEF Refused, mails
  <1>5. CASE Truncate
    BY <1>5 DEF Truncate, mails, Disk!Torn
  <1>6. CASE Write
    BY <1>6 DEF Write, mails, Disk!Whole
  <1>7. CASE SaveFails
    BY <1>7 DEF SaveFails, Fault, mails
  <1>8. CASE Crash
    BY <1>8 DEF Crash, Fault, Accepted, mails
  <1>9. CASE UNCHANGED vars
    BY <1>9 DEF vars, mails
  <1> QED BY <1>1, <1>2, <1>3, <1>4, <1>5, <1>6, <1>7, <1>8, <1>9 DEF Next

\* A mail is accepted: a repetition is one that a fault paid for.
LEMMA AcceptedIsPaid ==
    ASSUME TypeOK, Debouncing, pc = "sending", Accepted
    PROVE  /\ last' = window /\ last' \in Keys
           /\ repeats' = IF window = last THEN repeats + 1 ELSE repeats
           /\ repeats' <= faults
  <1>1. repeats \in Nat /\ faults \in Nat
    BY NudgeAssumption DEF TypeOK
  <1>2. window = last => repeats < faults
    BY DEF Debouncing, Remembered
  <1> QED BY <1>1, <1>2 DEF Accepted, Debouncing, TypeOK

LEMMA DebouncingStep == TypeOK /\ Debouncing /\ [Next]_vars => Debouncing'
  <1> SUFFICES ASSUME TypeOK, Debouncing, [Next]_vars PROVE Debouncing'
    OBVIOUS
  <1>0. repeats \in Nat /\ faults \in Nat
    BY NudgeAssumption DEF TypeOK
  <1> USE DEF Debouncing, Remembered
  <1>1. CASE PulseWatch
    BY <1>1 DEF PulseWatch, mails
  <1>2. ASSUME NEW w \in Windows, OnSilence(w) PROVE Debouncing'
    BY <1>2 DEF OnSilence, mails
  <1>3. CASE Delivered
    <2>1. /\ last' = window /\ repeats' <= faults
          /\ pc' = "opening" /\ window' = window /\ faults' = faults
      BY <1>3, AcceptedIsPaid DEF Delivered
    <2> QED BY <2>1
  <1>4. CASE Refused
    BY <1>4 DEF Refused, mails
  <1>5. CASE Truncate
    BY <1>5 DEF Truncate, mails
  <1>6. CASE Write
    BY <1>6 DEF Write, mails, Disk!Whole
  <1>7. CASE SaveFails
    BY <1>0, <1>7 DEF SaveFails, Fault, mails
  <1>8. CASE Crash
    <2>1. pc' = "idle" /\ faults' = faults + 1 /\ repeats' <= faults /\ repeats' \in Nat
      BY <1>0, <1>8, AcceptedIsPaid DEF Crash, Fault, mails
    <2> QED BY <1>0, <2>1
  <1>9. CASE UNCHANGED vars
    BY <1>9 DEF vars, mails
  <1> QED BY <1>1, <1>2, <1>3, <1>4, <1>5, <1>6, <1>7, <1>8, <1>9 DEF Next

-----------------------------------------------------------------------------
(* The theorems *)

\* The inductive invariant holds in every reachable state.
THEOREM NudgeInvariant == Spec => [](TypeOK /\ Inductive)
  <1>1. TypeOK /\ Inductive /\ [Next]_vars => (TypeOK /\ Inductive)'
    BY TypeStep, NudgedStep, DebouncingStep DEF Inductive
  <1> QED BY InductiveInit, <1>1, PTL DEF Spec

\* The handler, its state file and the history keep their types
\* (silence_nudge.rs).
THEOREM TypeCorrect == Spec => []TypeOK
  BY NudgeInvariant, PTL

\* No window is taken as already nudged that was not, for any number of windows,
\* crashes and failed writes (debounce_check and save_state).
THEOREM DebouncedNudged == Spec => []DebouncedWereNudged
  <1>1. Inductive => DebouncedWereNudged
    BY DEF Inductive, SavedWereNudged
  <1> QED BY NudgeInvariant, <1>1, PTL

LEMMA DebounceStep == TypeOK /\ Inductive /\ [Next]_vars => [Promise!Next]_(Promise!vars)
  <1> SUFFICES ASSUME TypeOK, Debouncing, [Next]_vars
               PROVE  [Promise!Next]_(Promise!vars)
    BY DEF Inductive
  <1>0. repeats \in Nat /\ faults \in Nat
    BY NudgeAssumption DEF TypeOK
  <1> USE DEF Promise!vars
  <1>1. CASE PulseWatch
    BY <1>1 DEF PulseWatch, mails
  <1>2. ASSUME NEW w \in Windows, OnSilence(w) PROVE UNCHANGED Promise!vars
    BY <1>2 DEF OnSilence, mails
  <1>3. CASE Delivered
    <2>1. Promise!Notify(window) /\ window \in Keys /\ UNCHANGED faults
      BY <1>3, AcceptedIsPaid DEF Delivered, Promise!Notify, TypeOK
    <2> QED BY <2>1 DEF Promise!Next
  <1>4. CASE Refused
    BY <1>4 DEF Refused, mails
  <1>5. CASE Truncate
    BY <1>5 DEF Truncate, mails
  <1>6. CASE Write
    BY <1>6 DEF Write, mails
  <1>7. CASE SaveFails
    BY <1>7 DEF SaveFails, Fault, mails, Promise!Next
  <1>8. CASE Crash
    <2>1. faults' = faults + 1
      BY <1>8 DEF Crash, Fault
    <2>2. CASE UNCHANGED mails
      BY <2>1, <2>2 DEF mails, Promise!Next
    <2>3. CASE pc = "sending" /\ Accepted
      <3>1. /\ window \in Keys /\ last' = window
            /\ repeats' = IF window = last THEN repeats + 1 ELSE repeats
            /\ repeats' <= faults
        BY <2>3, AcceptedIsPaid DEF TypeOK
      <3>2. repeats' <= faults'
        BY <1>0, <2>1, <3>1
      <3>3. Promise!Notify(window)
        BY <3>1, <3>2 DEF Promise!Notify
      <3> QED BY <2>1, <3>1, <3>3 DEF Promise!Next
    <2> QED BY <1>8, <2>2, <2>3 DEF Crash
  <1>9. CASE UNCHANGED vars
    BY <1>9 DEF vars, mails
  <1> QED BY <1>1, <1>2, <1>3, <1>4, <1>5, <1>6, <1>7, <1>8, <1>9 DEF Next

\* The nudge implements the debounce: a window is nudged twice in a row only
\* because of a fault, once for each, over any number of restarts
\* (silence_nudge.rs:7-8).
THEOREM ImplementsDebounce == Spec => KeepsDebouncePromise
  <1>1. Init => Promise!Init
    BY DEF Init, Promise!Init, Keys
  <1> QED BY <1>1, NudgeInvariant, DebounceStep, PTL
        DEF Spec, KeepsDebouncePromise, Promise!Spec
=============================================================================
