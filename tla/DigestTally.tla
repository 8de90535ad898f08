----------------------------- MODULE DigestTally -----------------------------
(***************************************************************************)
(* The daily tally of digest.rs: loaded from its file, begun anew when the     *)
(* date has changed, updated or sent as the digest of the day, and saved.  The *)
(* program that calls these functions is not in the repository; it is taken    *)
(* to handle one event at a time, in the order of digest.rs and its tests.     *)
(*                                                                         *)
(* The clock is a number of days since 1970-01-01.  The timestamps of the      *)
(* summons and the wording of the digest are left out.                       *)
(***************************************************************************)
EXTENDS CivilDate

CONSTANTS
    Starts,     \* the dates on which the program may be installed
    LastDay,    \* bound: the last day of the clock
    MaxNights,  \* bound: midnights while the program runs
    MaxEvents,  \* bound: summons of a day
    MaxFaults   \* bound: crashes and failed writes

ASSUME TallyAssumption ==
    LastDay \in Nat /\ MaxNights \in Nat /\ MaxEvents \in Nat /\ MaxFaults \in Nat

VARIABLES
    day,        \* the clock
    date,       \* history: the date of the day, counted on the calendar
    file,       \* digest_tally.json
    pc,         \* where the caller is
    work,       \* the event it handles
    tally,      \* the tally in its hands
    nights,     \* midnights since it runs
    faults,     \* faults so far
    arrived,    \* history: events of each kind that arrived today
    late,       \* history: events of yesterday handled today
    arrival     \* history: the day on which the event at hand arrived

clock == <<day, date, nights>>
history == <<arrived, late, arrival>>
vars == <<clock, file, pc, work, tally, faults, history>>

Works == {"summon", "silence", "digest"}

NoDate == [y |-> 0, m |-> 0, d |-> 0]
Dates == Date \cup {NoDate}

\* PresenceTally
Tally == [date : Dates, summons : Nat, silence : BOOLEAN]
Empty(t) == [date |-> t, summons |-> 0, silence |-> FALSE]

Disk == INSTANCE StateFile WITH Values <- Tally, Default <- Empty(NoDate)

TypeOK ==
    /\ day \in Nat /\ date \in Date
    /\ file \in Disk!File
    /\ pc \in {"off", "idle", "loaded", "stale", "current", "opening", "writing"}
    /\ work \in Works
    /\ tally \in Tally
    /\ nights \in Nat /\ faults \in Nat
    /\ arrived \in [Works -> Nat]
    /\ late \in Nat
    /\ arrival \in Nat

Nothing == [w \in Works |-> 0]

Init ==
    /\ day = 0 /\ date = [y |-> 1970, m |-> 1, d |-> 1]
    /\ file = Disk!Absent
    /\ pc = "off"
    /\ work = "digest"
    /\ tally = Empty(NoDate)
    /\ nights = 0 /\ faults = 0
    /\ arrived = Nothing /\ late = 0
    /\ arrival = 0

Fault == faults < MaxFaults /\ faults' = faults + 1

-----------------------------------------------------------------------------
Install ==
    /\ pc = "off"
    /\ date \in Starts
    /\ pc' = "idle"
    /\ UNCHANGED <<clock, file, work, tally, faults, history>>

\* The clock of the system turns to the next day.
Midnight ==
    /\ IF pc = "off" THEN day < LastDay ELSE nights < MaxNights
    /\ day' = day + 1
    /\ date' = Tomorrow(date)
    /\ nights' = IF pc = "off" THEN 0 ELSE nights + 1
    /\ arrived' = Nothing
    /\ late' = IF pc \in {"off", "idle"} \/ work = "digest" THEN 0 ELSE 1
    /\ UNCHANGED <<file, pc, work, tally, faults, arrival>>

-----------------------------------------------------------------------------
(* One event *)

\* load_tally; an event that meets a torn file goes no further.
Load(w) ==
    /\ pc = "idle"
    /\ Disk!Loads(file)
    /\ arrived[w] < MaxEvents
    /\ pc' = "loaded"
    /\ work' = w
    /\ tally' = file.value
    /\ arrived' = [arrived EXCEPT ![w] = @ + 1]
    /\ arrival' = day
    /\ UNCHANGED <<clock, file, faults, late>>

\* Faulty variant: only a tally without a date is a new one.
IsNewDayWhenEmpty(t) == t.date = NoDate

\* is_new_day
IsNewDay(t) == t.date = NoDate \/ t.date # Civil(day)

Check ==
    /\ pc = "loaded"
    /\ pc' = IF IsNewDay(tally) THEN "stale" ELSE "current"
    /\ UNCHANGED <<clock, file, work, tally, faults, history>>

\* Faulty variant: the date is new and the counts are not.
ResetDateOnly ==
    /\ pc = "stale"
    /\ pc' = "current"
    /\ tally' = [tally EXCEPT !.date = Civil(day)]
    /\ UNCHANGED <<clock, file, work, faults, history>>

\* reset(today_utc()), a second look at the clock.
Reset ==
    /\ pc = "stale"
    /\ pc' = "current"
    /\ tally' = Empty(Civil(day))
    /\ UNCHANGED <<clock, file, work, faults, history>>

\* record_summon and record_silence
Record ==
    /\ pc = "current"
    /\ \/ /\ work = "summon"
          /\ tally' = [tally EXCEPT !.summons = @ + 1]
       \/ /\ work = "silence"
          /\ tally' = [tally EXCEPT !.silence = TRUE]
    /\ pc' = "opening"
    /\ UNCHANGED <<clock, file, work, faults, history>>

\* deliver_digest, sent, refused or disabled.
DeliverDigest ==
    /\ pc = "current"
    /\ work = "digest"
    /\ pc' = "idle"
    /\ UNCHANGED <<clock, file, work, tally, faults, history>>

-----------------------------------------------------------------------------
(* save_tally *)

Truncate ==
    /\ pc = "opening"
    /\ pc' = "writing"
    /\ file' = Disk!Torn
    /\ UNCHANGED <<clock, work, tally, faults, history>>

Write ==
    /\ pc = "writing"
    /\ pc' = "idle"
    /\ file' = Disk!Whole(tally)
    /\ UNCHANGED <<clock, work, tally, faults, history>>

\* The directory or the file cannot be opened, or the write fails halfway.
SaveFails ==
    /\ Fault
    /\ pc \in {"opening", "writing"}
    /\ pc' = "idle"
    /\ UNCHANGED <<clock, file, work, tally, history>>

\* The program is killed and restarted.
Crash ==
    /\ Fault
    /\ pc \notin {"off", "idle"}
    /\ pc' = "idle"
    /\ UNCHANGED <<clock, file, work, tally, history>>

Next ==
    \/ Install
    \/ Midnight
    \/ \E w \in Works : Load(w)
    \/ Check
    \/ Reset
    \/ Record
    \/ DeliverDigest
    \/ Truncate
    \/ Write
    \/ SaveFails
    \/ Crash

Spec == Init /\ [][Next]_vars

-----------------------------------------------------------------------------
\* today_utc gives the date of the calendar on every day.
RightDate == Civil(day) = date

\* An event is recorded, and a digest sent, in the tally of the day on which it
\* arrived or of a later one, never in an older tally, though midnight may pass
\* between load_tally, is_new_day and reset.
TallyOfTheDay ==
    pc = "current" => \E n \in arrival .. day : tally.date = Civil(n)

\* The tally t says of today what arrived today: an event is missing only by a
\* fault, one too many is one that arrived before midnight.
Accounted(t) ==
    /\ arrived["summon"] <= t.summons + faults
    /\ t.summons <= arrived["summon"] + late
    /\ arrived["silence"] > faults => t.silence
    /\ t.silence => arrived["silence"] + late > 0

\* A tally of today, in the file between two events and in a digest that is
\* about to be sent, misses an event only by a fault ("a daemon restart mid-day
\* does not lose the running count", digest.rs:16-17).
TodayIsAccounted ==
    /\ pc = "idle" /\ Disk!Loads(file) /\ file.value.date = date => Accounted(file.value)
    /\ pc = "current" /\ work = "digest" /\ tally.date = date => Accounted(tally)
=============================================================================
