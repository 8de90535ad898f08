----------------------------- MODULE SilenceNudge -----------------------------
(***************************************************************************)
(* silence_nudge.rs: one gentle mail when a silence window fires, gated by    *)
(* the presence file of pulse-watch and debounced by the key of the last      *)
(* window nudged, which a state file carries over restarts.  The bus may      *)
(* hand the event of a window to the daemon again at any time.                *)
(***************************************************************************)
EXTENDS Naturals, FiniteSets

CONSTANTS
    Windows,        \* the keys of the windows that fire
    NoWindow,       \* the empty key, which stands for "never nudged"
    MaxFaults       \* bound: crashes and failed writes

ASSUME NudgeAssumption == IsFiniteSet(Windows) /\ MaxFaults \in Nat

VARIABLES
    enabled,    \* SilenceNudgeConfig::enabled
    presence,   \* what pulse-watch's state.json holds
    file,       \* silence_nudge_state.json
    pc,         \* where the handler is
    window,     \* the key of the event being handled
    faults,     \* faults so far
    nudged,     \* history: keys a mail was accepted for
    debounced,  \* history: keys for which an event was taken as already nudged
    last,       \* history: the key of the last mail accepted
    repeats     \* history: mails for the same key in a row

mails == <<nudged, last, repeats>>
vars == <<enabled, presence, file, pc, window, faults, debounced, mails>>

Keys == Windows \cup {NoWindow}

Disk == INSTANCE StateFile WITH Values <- Keys, Default <- NoWindow

PresenceFiles == {"absent", "corrupt", "noField", "notConfirmed", "confirmed"}

TypeOK ==
    /\ enabled \in BOOLEAN
    /\ presence \in PresenceFiles
    /\ file \in Disk!File
    /\ pc \in {"idle", "sending", "opening", "writing"}
    /\ window \in Keys
    /\ faults \in 0 .. MaxFaults
    /\ nudged \subseteq Keys /\ debounced \subseteq Keys
    /\ last \in Keys
    /\ repeats \in Nat

Init ==
    /\ enabled \in BOOLEAN
    /\ presence = "absent"
    /\ file = Disk!Absent
    /\ pc = "idle"
    /\ window = NoWindow
    /\ faults = 0
    /\ nudged = {} /\ debounced = {}
    /\ last = NoWindow /\ repeats = 0

Fault == faults < MaxFaults /\ faults' = faults + 1

Accepted ==
    /\ nudged' = nudged \cup {window}
    /\ last' = window
    /\ repeats' = IF window = last THEN repeats + 1 ELSE repeats

\* pulse-watch rewrites its file.
PulseWatch ==
    /\ presence' \in PresenceFiles \ {presence}
    /\ UNCHANGED <<enabled, file, pc, window, faults, debounced, mails>>

\* read_hearing_confirmed and its match: only a file that parses and does not
\* say TRUE suppresses; a missing field reads as FALSE.
HearingGate == presence \notin {"noField", "notConfirmed"}

\* wm.presence.silence for window w: past the gate, a loaded state and the
\* debounce, the mail is sent.  Every other outcome leaves the state alone.
OnSilence(w) ==
    /\ pc = "idle"
    /\ enabled
    /\ HearingGate
    /\ Disk!Loads(file)
    /\ IF file.value = w
       THEN /\ debounced' = debounced \cup {w}
            /\ UNCHANGED <<pc, window>>
       ELSE /\ pc' = "sending"
            /\ window' = w
            /\ UNCHANGED debounced
    /\ UNCHANGED <<enabled, presence, file, faults, mails>>

\* One attempt: the key is saved only if the mail was accepted.
Delivered ==
    /\ pc = "sending"
    /\ Accepted
    /\ pc' = "opening"
    /\ UNCHANGED <<enabled, presence, file, window, faults, debounced>>

\* Faulty variant: the key is persisted whether or not the mail was accepted.
RefusedPersists ==
    /\ pc = "sending"
    /\ pc' = "idle"
    /\ file' = Disk!Whole(window)
    /\ UNCHANGED <<enabled, presence, window, faults, debounced, mails>>

Refused ==
    /\ pc = "sending"
    /\ pc' = "idle"
    /\ UNCHANGED <<enabled, presence, file, window, faults, debounced, mails>>

\* save_state
Truncate ==
    /\ pc = "opening"
    /\ pc' = "writing"
    /\ file' = Disk!Torn
    /\ UNCHANGED <<enabled, presence, window, faults, debounced, mails>>

\* Faulty variants: the key is not updated; something else is written.
WriteOldKey ==
    /\ pc = "writing"
    /\ pc' = "idle"
    /\ file' = Disk!Absent
    /\ UNCHANGED <<enabled, presence, window, faults, debounced, mails>>

WriteCount ==
    /\ pc = "writing"
    /\ pc' = "idle"
    /\ file' = Disk!Whole(repeats)
    /\ UNCHANGED <<enabled, presence, window, faults, debounced, mails>>

Write ==
    /\ pc = "writing"
    /\ pc' = "idle"
    /\ file' = Disk!Whole(window)
    /\ UNCHANGED <<enabled, presence, window, faults, debounced, mails>>

SaveFails ==
    /\ Fault
    /\ pc \in {"opening", "writing"}
    /\ pc' = "idle"
    /\ UNCHANGED <<enabled, presence, file, window, debounced, mails>>

\* The daemon is killed and restarted; a mail on its way may still be accepted.
Crash ==
    /\ Fault
    /\ pc' = "idle"
    /\ UNCHANGED mails \/ (pc = "sending" /\ Accepted)
    /\ UNCHANGED <<enabled, presence, file, window, debounced>>

Next ==
    \/ PulseWatch
    \/ \E w \in Windows : OnSilence(w)
    \/ Delivered
    \/ Refused
    \/ Truncate
    \/ Write
    \/ SaveFails
    \/ Crash

Spec == Init /\ [][Next]_vars

-----------------------------------------------------------------------------
Promise == INSTANCE Debounce WITH Notices <- Keys, due <- FALSE

\* A window is nudged again only after another one was, or after a fault (a
\* crash, a failed write), once for each.
KeepsDebouncePromise == Promise!Spec

\* An event is taken as "already nudged" only for a window that was, whatever
\* crashes or failed deliveries came before.
DebouncedWereNudged == debounced \ {NoWindow} \subseteq nudged

-----------------------------------------------------------------------------
(* What the comments say and the code does not do. *)

\* silence_nudge.rs:7-8: "Exactly one nudge per window", a daemon restart
\* replaying the same event included.  A window that was nudged is never nudged
\* again: not after a crash, and not because another window fired in between,
\* though the file keeps the last key only (silence_nudge.rs:226).
NudgedOnce == [][mails' # mails => last' \notin nudged]_vars
=============================================================================
