-------------------------- MODULE DigestTallyProofs --------------------------
(***************************************************************************)
(* Theorems about DigestTally, for every number of days, nights, events and   *)
(* faults: its type invariant and the three safety properties of its run.     *)
(***************************************************************************)
EXTENDS DigestTally, CivilDateProofs

-----------------------------------------------------------------------------
(* The inductive invariant *)

\* The date is the right one and the event at hand did not arrive in the future.
Clock == TypeOK /\ RightDate /\ arrival <= day

\* Grows from each day of the calendar to the next.
Ordinal(t) == 372 * t.y + 31 * t.m + t.d

\* No tally is of a later day than today, and a stale one is of an earlier one.
Dated ==
    /\ Ordinal(file.value.date) <= Ordinal(date)
    /\ Ordinal(tally.date) <= Ordinal(date)
    /\ pc = "stale" => tally.date # date

\* What the tally t says of today.
Today(t) == IF t.date = date THEN t ELSE Empty(date)

\* An event of kind w is being handled; it arrived today.
Busy(w) == IF pc \notin {"off", "idle"} /\ work = w THEN 1 ELSE 0
Pending(w) == IF arrival = day THEN Busy(w) ELSE 0

\* The tally t accounts for today, but for the event at hand.
Open(t) ==
    /\ arrived["summon"] <= Today(t).summons + faults + Pending("summon")
    /\ Today(t).summons + Busy("summon") <= arrived["summon"] + late
    /\ arrived["silence"] > faults + Pending("silence") => Today(t).silence
    /\ Today(t).silence => arrived["silence"] + late > 0

Accounts ==
    /\ Disk!Loads(file) => Open(file.value)
    /\ pc \in {"loaded", "stale", "current"} => Open(tally)
    /\ pc \in {"opening", "writing"} => Accounted(Today(tally))
    /\ Busy("silence") = 1 => arrived["silence"] + late > 0

Inductive == Clock /\ TallyOfTheDay /\ Dated /\ Accounts

-----------------------------------------------------------------------------
(* The calendar as the tally uses it *)

LEMMA OrdinalGrows ==
    ASSUME NEW t \in Date
    PROVE  Tomorrow(t) \in Date /\ Ordinal(t) < Ordinal(Tomorrow(t))
<1>1. /\ t.y \in Nat /\ t.m \in 1 .. 12 /\ t.d \in 1 .. 31
      /\ t = [y |-> t.y, m |-> t.m, d |-> t.d]
  BY DEF Date
<1>2. DaysIn(t.y, t.m) \in 28 .. 31
  BY DEF DaysIn
<1>3. CASE t.d < DaysIn(t.y, t.m)
  <2>1. Tomorrow(t) = [y |-> t.y, m |-> t.m, d |-> t.d + 1]
    BY <1>1, <1>3 DEF Tomorrow
  <2> QED BY <1>1, <1>2, <1>3, <2>1 DEF Date, Ordinal
<1>4. CASE ~(t.d < DaysIn(t.y, t.m))
  BY <1>1, <1>4 DEF Tomorrow, Date, Ordinal
<1> QED BY <1>3, <1>4

LEMMA FirstDay == Civil(0) = [y |-> 1970, m |-> 1, d |-> 1]
BY SMT DEF Civil, CivilOf, Era, DayOfEra, YearOfEra, YearStart, MonthFromMarch,
           MonthStart, Month

-----------------------------------------------------------------------------
(* Types and dates *)

LEMMA InitClock == Init => Clock
<1> SUFFICES ASSUME Init PROVE Clock
  OBVIOUS
<1>1. TypeOK
  BY DEF Init, TypeOK, Date, Dates, NoDate, Tally, Empty, Works, Nothing,
         Disk!File, Disk!Absent
<1>2. RightDate
  BY FirstDay DEF Init, RightDate
<1> QED BY <1>1, <1>2 DEF Init, Clock

LEMMA ClockStep == Clock /\ [Next]_vars => Clock'
<1> SUFFICES ASSUME Clock, [Next]_vars PROVE Clock'
  OBVIOUS
<1> USE DEF clock, history
<1>1. TypeOK /\ RightDate /\ arrival <= day
  BY DEF Clock
<1>2. Civil(day) \in Date /\ Empty(Civil(day)) \in Tally
  BY <1>1 DEF TypeOK, RightDate, Tally, Empty, Dates
<1>3. CASE Install
  BY <1>1, <1>3 DEF Install, Clock, TypeOK, RightDate
<1>4. CASE Midnight
  <2>1. day' = day + 1 /\ date' = Tomorrow(date) /\ arrival' = arrival
    BY <1>4 DEF Midnight
  <2>2. Civil(day + 1) = Tomorrow(date) /\ Tomorrow(date) \in Date
    BY <1>1, DateAdvances, OrdinalGrows DEF TypeOK, RightDate
  <2>3. RightDate' /\ (arrival <= day)'
    BY <1>1, <2>1, <2>2 DEF RightDate, TypeOK
  <2>4. TypeOK'
    BY <1>1, <1>4, <2>1, <2>2 DEF Midnight, TypeOK, Nothing
  <2> QED BY <2>3, <2>4 DEF Clock
<1>5. ASSUME NEW w \in Works, Load(w) PROVE Clock'
  BY <1>1, <1>5 DEF Load, Clock, TypeOK, RightDate, Disk!File
<1>6. CASE Check
  BY <1>1, <1>6 DEF Check, Clock, TypeOK, RightDate
<1>7. CASE Reset
  BY <1>1, <1>2, <1>7 DEF Reset, Clock, TypeOK, RightDate
<1>8. CASE Record
  <2>1. tally \in Tally /\ tally.summons + 1 \in Nat
    BY <1>1 DEF TypeOK, Tally
  <2>2. tally' \in Tally
    BY <1>8, <2>1, Zenon DEF Record, Tally
  <2> QED BY <1>1, <1>8, <2>2 DEF Record, Clock, TypeOK, RightDate
<1>9. CASE DeliverDigest
  BY <1>1, <1>9 DEF DeliverDigest, Clock, TypeOK, RightDate
<1>10. CASE Truncate
  BY <1>1, <1>10 DEF Truncate, Clock, TypeOK, RightDate, Disk!File, Disk!Torn,
                     Tally, Empty, Dates, NoDate
<1>11. CASE Write
  BY <1>1, <1>11 DEF Write, Clock, TypeOK, RightDate, Disk!File, Disk!Whole
<1>12. CASE SaveFails
  BY <1>1, <1>12 DEF SaveFails, Fault, Clock, TypeOK, RightDate
<1>13. CASE Crash
  BY <1>1, <1>13 DEF Crash, Fault, Clock, TypeOK, RightDate
<1>14. CASE UNCHANGED vars
  BY <1>1, <1>14 DEF vars, Clock, TypeOK, RightDate
<1> QED
  BY <1>3, <1>4, <1>5, <1>6, <1>7, <1>8, <1>9, <1>10, <1>11, <1>12, <1>13, <1>14
     DEF Next

-----------------------------------------------------------------------------
(* The tally of the day *)

LEMMA TallyOfTheDayStep == Clock /\ TallyOfTheDay /\ [Next]_vars => TallyOfTheDay'
<1> SUFFICES ASSUME Clock, TallyOfTheDay, [Next]_vars PROVE TallyOfTheDay'
  OBVIOUS
<1> USE DEF clock, history
<1>1. day \in Nat /\ arrival \in Nat /\ arrival <= day
  BY DEF Clock, TypeOK
<1>2. CASE Check
  BY <1>1, <1>2 DEF Check, IsNewDay, TallyOfTheDay
<1>3. CASE Reset
  BY <1>1, <1>3 DEF Reset, Empty, TallyOfTheDay
<1>4. CASE Midnight
  <2>1. arrival .. day \subseteq arrival .. day'
    BY <1>1, <1>4 DEF Midnight
  <2> QED BY <1>4, <2>1 DEF Midnight, TallyOfTheDay
<1>5. CASE Install \/ (\E w \in Works : Load(w)) \/ Record \/ DeliverDigest
           \/ Truncate \/ Write \/ SaveFails \/ Crash
  BY <1>5 DEF Install, Load, Record, DeliverDigest, Truncate, Write, SaveFails, Crash,
              TallyOfTheDay
<1>6. CASE UNCHANGED vars
  BY <1>6 DEF vars, TallyOfTheDay
<1> QED BY <1>2, <1>3, <1>4, <1>5, <1>6 DEF Next

-----------------------------------------------------------------------------
(* Today's tally *)

LEMMA OrdinalsAreNat ==
    ASSUME Clock
    PROVE  /\ Ordinal(file.value.date) \in Nat /\ Ordinal(tally.date) \in Nat
           /\ Ordinal(date) \in Nat /\ Ordinal(date) > 0
           /\ file.value \in Tally /\ tally \in Tally
<1>1. file.value \in Tally /\ tally \in Tally /\ date \in Date
  BY DEF Clock, TypeOK, Disk!File
<1>2. file.value.date \in Dates /\ tally.date \in Dates
  BY <1>1 DEF Tally
<1>3. \A t \in Dates : Ordinal(t) \in Nat
  BY DEF Dates, Date, NoDate, Ordinal
<1>4. Ordinal(date) > 0
  BY <1>1 DEF Date, Ordinal
<1> QED BY <1>1, <1>2, <1>3, <1>4 DEF Dates

LEMMA DatedStep == Clock /\ Dated /\ [Next]_vars => Dated'
<1> SUFFICES ASSUME Clock, Dated, [Next]_vars PROVE Dated'
  OBVIOUS
<1> USE DEF clock, history
<1>1. /\ Ordinal(file.value.date) \in Nat /\ Ordinal(tally.date) \in Nat
      /\ Ordinal(date) \in Nat /\ Ordinal(date) > 0
  BY OrdinalsAreNat
<1>2. Ordinal(NoDate) = 0 /\ Disk!Torn.value.date = NoDate
  BY DEF Ordinal, NoDate, Disk!Torn, Empty
<1>3. Civil(day) = date
  BY DEF Clock, RightDate
<1>4. CASE Midnight
  <2>1. date' = Tomorrow(date) /\ file' = file /\ tally' = tally
    BY <1>4 DEF Midnight
  <2>2. Ordinal(date) < Ordinal(Tomorrow(date)) /\ Tomorrow(date) \in Date
    BY OrdinalGrows DEF Clock, TypeOK
  <2>3. Ordinal(Tomorrow(date)) \in Nat
    BY <2>2 DEF Ordinal, Date
  <2>4. Ordinal(file.value.date) < Ordinal(Tomorrow(date))
    BY <1>1, <2>2, <2>3 DEF Dated
  <2>5. Ordinal(tally.date) < Ordinal(Tomorrow(date))
    BY <1>1, <2>2, <2>3 DEF Dated
  <2>6. tally.date # Tomorrow(date)
    BY <1>1, <2>3, <2>5
  <2> QED BY <1>1, <2>1, <2>3, <2>4, <2>5, <2>6 DEF Dated
<1>5. ASSUME NEW w \in Works, Load(w) PROVE Dated'
  BY <1>5 DEF Load, Dated
<1>6. CASE Check
  BY <1>1, <1>2, <1>3, <1>6 DEF Check, IsNewDay, Dated
<1>7. CASE Reset
  BY <1>1, <1>3, <1>7 DEF Reset, Empty, Dated
<1>8. CASE Record
  <2>1. tally'.date = tally.date /\ pc' = "opening" /\ UNCHANGED <<file, date>>
    BY <1>8, OrdinalsAreNat DEF Record, Tally
  <2> QED BY <2>1 DEF Dated
<1>9. CASE Truncate
  BY <1>1, <1>2, <1>9 DEF Truncate, Dated
<1>10. CASE Write
  BY <1>1, <1>10 DEF Write, Disk!Whole, Dated
<1>11. CASE Install \/ DeliverDigest \/ SaveFails \/ Crash
  BY <1>11 DEF Install, DeliverDigest, SaveFails, Crash, Dated
<1>12. CASE UNCHANGED vars
  BY <1>12 DEF vars, Dated
<1> QED
  BY <1>4, <1>5, <1>6, <1>7, <1>8, <1>9, <1>10, <1>11, <1>12 DEF Next

-----------------------------------------------------------------------------
(* The accounts of today *)

LEMMA Counts ==
    ASSUME Clock
    PROVE  /\ arrived["summon"] \in Nat /\ arrived["silence"] \in Nat
           /\ late \in Nat /\ faults \in Nat /\ day \in Nat
           /\ Busy("summon") \in {0, 1} /\ Busy("silence") \in {0, 1}
           /\ Pending("summon") \in {0, Busy("summon")}
           /\ Pending("silence") \in {0, Busy("silence")}
           /\ file.value \in Tally /\ tally \in Tally
           /\ Today(file.value).summons \in Nat /\ Today(tally).summons \in Nat
           /\ Today(file.value).silence \in BOOLEAN /\ Today(tally).silence \in BOOLEAN
<1>1. file.value \in Tally /\ tally \in Tally
  BY OrdinalsAreNat
<1>2. \A t \in Tally : Today(t).summons \in Nat /\ Today(t).silence \in BOOLEAN
  BY DEF Tally, Today, Empty
<1>3. /\ Busy("summon") \in {0, 1} /\ Busy("silence") \in {0, 1}
      /\ Pending("summon") \in {0, Busy("summon")}
      /\ Pending("silence") \in {0, Busy("silence")}
  BY DEF Busy, Pending
<1> QED BY <1>1, <1>2, <1>3 DEF Clock, TypeOK, Works

\* At midnight nothing has arrived yet and no tally is of the new day.
LEMMA MidnightKeepsAccounts == Clock /\ Dated /\ Clock' /\ Midnight => Accounts'
<1> SUFFICES ASSUME Clock, Dated, Clock', Midnight PROVE Accounts'
  OBVIOUS
<1>1. /\ date' = Tomorrow(date) /\ file' = file /\ tally' = tally
      /\ pc' = pc /\ work' = work /\ faults' = faults
  BY DEF Midnight
<1>2. arrived'["summon"] = 0 /\ arrived'["silence"] = 0
  BY DEF Midnight, Nothing, Works
<1>3. Ordinal(date) < Ordinal(Tomorrow(date)) /\ Ordinal(Tomorrow(date)) \in Nat
  <2>1. Tomorrow(date) \in Date /\ Ordinal(date) < Ordinal(Tomorrow(date))
    BY OrdinalGrows DEF Clock, TypeOK
  <2> QED BY <2>1 DEF Ordinal, Date
<1>4. Ordinal(file.value.date) < Ordinal(Tomorrow(date))
  BY <1>3, OrdinalsAreNat DEF Dated
<1>5. Ordinal(tally.date) < Ordinal(Tomorrow(date))
  BY <1>3, OrdinalsAreNat DEF Dated
<1>6. file.value.date # Tomorrow(date) /\ tally.date # Tomorrow(date)
  BY <1>3, <1>4, <1>5, OrdinalsAreNat
<1>7. /\ (Today(file.value).summons = 0)' /\ (Today(file.value).silence = FALSE)'
      /\ (Today(tally).summons = 0)' /\ (Today(tally).silence = FALSE)'
  BY <1>1, <1>6 DEF Today, Empty
<1> DEFINE l == IF pc \in {"off", "idle"} \/ work = "digest" THEN 0 ELSE 1
<1>8. /\ l \in {0, 1} /\ Busy("summon") <= l /\ Busy("silence") <= l
      /\ Busy("summon") \in {0, 1} /\ Busy("silence") \in {0, 1} /\ faults \in Nat
  BY Counts DEF Busy
<1>9. /\ late' = l
      /\ Busy("summon")' = Busy("summon") /\ Busy("silence")' = Busy("silence")
      /\ Pending("summon")' = 0 /\ Pending("silence")' = 0
  BY <1>1 DEF Midnight, Busy, Pending, Clock, TypeOK
<1> HIDE DEF l
<1>10. Open(file.value)' /\ Open(tally)'
  BY <1>1, <1>2, <1>7, <1>8, <1>9 DEF Open
<1>11. Accounted(Today(tally))'
  BY <1>1, <1>2, <1>7, <1>8, <1>9 DEF Accounted
<1>12. (Busy("silence") = 1 => arrived["silence"] + late > 0)'
  BY <1>2, <1>8, <1>9
<1> QED BY <1>10, <1>11, <1>12 DEF Accounts

\* An event that arrives today is at hand from here on.
LEMMA LoadKeepsAccounts ==
    ASSUME NEW w \in Works, Clock, Accounts, Load(w)
    PROVE  Accounts'
<1> USE DEF clock, history
<1>1. /\ Busy("summon") = 0 /\ Pending("summon") = 0
      /\ Busy("silence") = 0 /\ Pending("silence") = 0
  BY DEF Load, Busy, Pending
<1>2. /\ Busy("summon")' = (IF w = "summon" THEN 1 ELSE 0)
      /\ Busy("silence")' = (IF w = "silence" THEN 1 ELSE 0)
      /\ Pending("summon")' = (IF w = "summon" THEN 1 ELSE 0)
      /\ Pending("silence")' = (IF w = "silence" THEN 1 ELSE 0)
  BY DEF Load, Busy, Pending
<1>3. /\ arrived'["summon"] = arrived["summon"] + (IF w = "summon" THEN 1 ELSE 0)
      /\ arrived'["silence"] = arrived["silence"] + (IF w = "silence" THEN 1 ELSE 0)
  BY Counts DEF Load, Clock, TypeOK, Works
<1>4. Open(file.value) /\ tally' = file.value /\ UNCHANGED <<file, date, late, faults>>
  BY DEF Accounts, Load
<1>5. Today(file.value)' = Today(file.value) /\ Today(tally)' = Today(file.value)
  BY <1>4 DEF Today
<1>6. Open(file.value)' /\ Open(tally)'
  BY <1>1, <1>2, <1>3, <1>4, <1>5, Counts DEF Open
<1>7. (Busy("silence") = 1 => arrived["silence"] + late > 0)'
  BY <1>2, <1>3, <1>4, Counts
<1> QED BY <1>6, <1>7 DEF Accounts, Load

\* The step from one look at the tally to the next changes no count.
LEMMA QuietKeepsAccounts == Accounts /\ (Install \/ Check \/ UNCHANGED vars) => Accounts'
<1> USE DEF clock, history
<1>1. CASE Install
  BY <1>1 DEF Install, Accounts, Open, Accounted, Today, Busy, Pending
<1>2. CASE Check
  BY <1>2 DEF Check, Accounts, Open, Accounted, Today, Busy, Pending
<1>3. CASE UNCHANGED vars
  BY <1>3 DEF vars, Accounts, Open, Accounted, Today, Busy, Pending
<1> QED BY <1>1, <1>2, <1>3

\* A stale tally says nothing of today, and neither does the new one.
LEMMA ResetKeepsAccounts == Clock /\ Dated /\ Accounts /\ Reset => Accounts'
<1> SUFFICES ASSUME Clock, Dated, Accounts, Reset PROVE Accounts'
  OBVIOUS
<1> USE DEF clock, history
<1>1. /\ pc = "stale" /\ pc' = "current" /\ tally' = Empty(date)
      /\ UNCHANGED <<file, work, day, date, faults, arrived, late, arrival>>
  BY DEF Reset, Clock, RightDate
<1>2. Today(tally)' = Today(tally) /\ Today(file.value)' = Today(file.value)
  BY <1>1 DEF Today, Dated, Empty
<1>3. /\ Busy("summon")' = Busy("summon") /\ Busy("silence")' = Busy("silence")
      /\ Pending("summon")' = Pending("summon") /\ Pending("silence")' = Pending("silence")
  BY <1>1 DEF Busy, Pending
<1> QED BY <1>1, <1>2, <1>3 DEF Accounts, Open

\* A tally of today takes the event at hand; an older one is that of its day.
LEMMA RecordKeepsAccounts == Clock /\ TallyOfTheDay /\ Accounts /\ Record => Accounts'
<1> SUFFICES ASSUME Clock, TallyOfTheDay, Accounts, Record PROVE Accounts'
  OBVIOUS
<1> USE DEF clock, history
<1>1. /\ pc = "current" /\ pc' = "opening"
      /\ UNCHANGED <<file, work, day, date, faults, arrived, late, arrival>>
  BY DEF Record
<1>2. /\ Busy("summon")' = Busy("summon") /\ Busy("silence")' = Busy("silence")
      /\ Pending("summon")' = Pending("summon") /\ Pending("silence")' = Pending("silence")
      /\ Today(file.value)' = Today(file.value)
  BY <1>1 DEF Busy, Pending, Today
<1>3. Open(tally)
  BY <1>1 DEF Accounts
<1>4. tally.date = date \/ (Pending("summon") = 0 /\ Pending("silence") = 0)
  <2>1. ASSUME arrival = day PROVE tally.date = date
    BY <1>1, <2>1 DEF TallyOfTheDay, Clock, RightDate, TypeOK
  <2> QED BY <2>1 DEF Pending
<1>5. Accounted(Today(tally))'
  <2>1. CASE work = "summon"
    <3>1. /\ tally'.date = tally.date /\ tally'.summons = tally.summons + 1
          /\ tally'.silence = tally.silence
      BY <2>1, Counts DEF Record, Tally
    <3>2. Busy("summon") = 1 /\ Pending("silence") = 0
      BY <1>1, <2>1 DEF Busy, Pending
    <3>3. CASE tally.date = date
      <4>1. /\ (Today(tally)').summons = Today(tally).summons + 1
            /\ (Today(tally)').silence = Today(tally).silence
        BY <1>1, <3>1, <3>3 DEF Today
      <4> QED BY <1>1, <1>3, <3>2, <4>1, Counts DEF Open, Accounted
    <3>4. CASE tally.date # date
      <4>1. Today(tally)' = Today(tally)
        BY <1>1, <3>1, <3>4 DEF Today
      <4> QED BY <1>1, <1>3, <1>4, <3>2, <3>4, <4>1, Counts DEF Open, Accounted
    <3> QED BY <3>3, <3>4
  <2>2. CASE work = "silence"
    <3>1. /\ tally'.date = tally.date /\ tally'.summons = tally.summons
          /\ tally'.silence = TRUE
      BY <2>2, Counts DEF Record, Tally
    <3>2. Busy("summon") = 0 /\ Pending("summon") = 0 /\ Busy("silence") = 1
      BY <1>1, <2>2 DEF Busy, Pending
    <3>3. CASE tally.date = date
      <4>1. /\ (Today(tally)').summons = Today(tally).summons
            /\ (Today(tally)').silence = TRUE
        BY <1>1, <3>1, <3>3 DEF Today
      <4>2. arrived["silence"] + late > 0
        BY <3>2 DEF Accounts
      <4> QED BY <1>1, <1>3, <3>2, <4>1, <4>2, Counts DEF Open, Accounted
    <3>4. CASE tally.date # date
      <4>1. Today(tally)' = Today(tally)
        BY <1>1, <3>1, <3>4 DEF Today
      <4> QED BY <1>1, <1>3, <1>4, <3>2, <3>4, <4>1, Counts DEF Open, Accounted
    <3> QED BY <3>3, <3>4
  <2> QED BY <2>1, <2>2 DEF Record
<1> QED BY <1>1, <1>2, <1>5 DEF Accounts, Open

LEMMA TruncateKeepsAccounts == Accounts /\ Truncate => Accounts'
<1> SUFFICES ASSUME Accounts, Truncate PROVE Accounts'
  OBVIOUS
<1> USE DEF clock, history
<1>1. /\ pc = "opening" /\ pc' = "writing" /\ ~Disk!Loads(file')
      /\ UNCHANGED <<work, tally, date, faults, arrived, late>>
  BY DEF Truncate, Disk!Torn, Disk!Loads
<1> QED BY <1>1 DEF Accounts, Accounted, Today, Busy

\* The tally that was saved accounts for the event, and no event is at hand.
LEMMA WriteKeepsAccounts == Clock /\ Accounts /\ Write => Accounts'
<1> SUFFICES ASSUME Clock, Accounts, Write PROVE Accounts'
  OBVIOUS
<1> USE DEF clock, history
<1>1. /\ pc = "writing" /\ pc' = "idle" /\ file'.value = tally
      /\ UNCHANGED <<work, tally, date, faults, arrived, late>>
  BY DEF Write, Disk!Whole
<1>2. /\ Busy("summon")' = 0 /\ Busy("silence")' = 0
      /\ Pending("summon")' = 0 /\ Pending("silence")' = 0
  BY <1>1 DEF Busy, Pending
<1>3. Accounted(Today(tally)) /\ Today(file.value)' = Today(tally)
  BY <1>1 DEF Accounts, Today
<1>4. Open(file.value)'
  BY <1>1, <1>2, <1>3, Counts DEF Accounted, Open
<1> QED BY <1>1, <1>2, <1>4 DEF Accounts

\* An event that was not recorded costs a fault; a digest is not recorded.
LEMMA EndKeepsAccounts ==
    Clock /\ Accounts /\ (DeliverDigest \/ SaveFails \/ Crash) => Accounts'
<1> SUFFICES ASSUME Clock, Accounts, DeliverDigest \/ SaveFails \/ Crash PROVE Accounts'
  OBVIOUS
<1> USE DEF clock, history
<1>1. /\ pc' = "idle" /\ UNCHANGED <<file, date, arrived, late>>
      /\ \/ faults' = faults /\ work = "digest"
         \/ faults' = faults + 1
  BY DEF DeliverDigest, SaveFails, Crash, Fault
<1>2. /\ Busy("summon")' = 0 /\ Busy("silence")' = 0
      /\ Pending("summon")' = 0 /\ Pending("silence")' = 0
      /\ Today(file.value)' = Today(file.value)
  BY <1>1 DEF Busy, Pending, Today
<1>3. work = "digest" => Pending("summon") = 0 /\ Pending("silence") = 0
  BY DEF Pending, Busy
<1>4. Open(file.value) => Open(file.value)'
  BY <1>1, <1>2, <1>3, Counts DEF Open
<1> QED BY <1>1, <1>2, <1>4 DEF Accounts

LEMMA AccountsStep ==
    Clock /\ Clock' /\ TallyOfTheDay /\ Dated /\ Accounts /\ [Next]_vars => Accounts'
BY MidnightKeepsAccounts, LoadKeepsAccounts, QuietKeepsAccounts, ResetKeepsAccounts,
   RecordKeepsAccounts, TruncateKeepsAccounts, WriteKeepsAccounts, EndKeepsAccounts
   DEF Next

LEMMA AccountsSuffice == Clock /\ Accounts => TodayIsAccounted
<1> SUFFICES ASSUME Clock, Accounts PROVE TodayIsAccounted
  OBVIOUS
<1>1. ASSUME pc = "idle", Disk!Loads(file), file.value.date = date
      PROVE  Accounted(file.value)
  <2>1. Open(file.value) /\ Today(file.value) = file.value
    BY <1>1 DEF Accounts, Today
  <2>2. /\ Busy("summon") = 0 /\ Busy("silence") = 0
        /\ Pending("summon") = 0 /\ Pending("silence") = 0
    BY <1>1 DEF Busy, Pending
  <2> QED BY <2>1, <2>2, Counts DEF Open, Accounted
<1>2. ASSUME pc = "current", work = "digest", tally.date = date
      PROVE  Accounted(tally)
  <2>1. Open(tally) /\ Today(tally) = tally
    BY <1>2 DEF Accounts, Today
  <2>2. /\ Busy("summon") = 0 /\ Busy("silence") = 0
        /\ Pending("summon") = 0 /\ Pending("silence") = 0
    BY <1>2 DEF Busy, Pending
  <2> QED BY <2>1, <2>2, Counts DEF Open, Accounted
<1> QED BY <1>1, <1>2 DEF TodayIsAccounted

-----------------------------------------------------------------------------
(* The theorems *)

LEMMA InitInductive == Init => Inductive
<1> SUFFICES ASSUME Init PROVE Inductive
  OBVIOUS
<1>1. Clock
  BY InitClock
<1>2. file.value.date = NoDate /\ tally.date = NoDate /\ pc = "off"
  BY DEF Init, Disk!Absent, Empty
<1>3. Dated
  BY <1>1, <1>2, OrdinalsAreNat DEF Dated, Ordinal, NoDate
<1>4. /\ Busy("summon") = 0 /\ Busy("silence") = 0
      /\ Pending("summon") = 0 /\ Pending("silence") = 0
      /\ arrived["summon"] = 0 /\ arrived["silence"] = 0 /\ late = 0 /\ faults = 0
  BY <1>2 DEF Busy, Pending, Init, Nothing, Works
<1>5. Today(file.value).summons = 0 /\ Today(file.value).silence = FALSE
  BY DEF Init, Disk!Absent, Empty, Today
<1>6. Open(file.value)
  BY <1>4, <1>5 DEF Open
<1>7. Accounts
  BY <1>2, <1>4, <1>6 DEF Accounts
<1> QED BY <1>1, <1>2, <1>3, <1>7 DEF Inductive, TallyOfTheDay

\* The four parts of the inductive invariant hold in every reachable state.
THEOREM TallyInvariant == Spec => []Inductive
<1>1. Inductive /\ [Next]_vars => Inductive'
  BY ClockStep, TallyOfTheDayStep, DatedStep, AccountsStep DEF Inductive
<1> QED BY InitInductive, <1>1, PTL DEF Spec

\* Every variable of the tally keeps its type, the date in particular, however
\* long the program runs.
THEOREM TypeCorrect == Spec => []TypeOK
<1>1. Inductive => TypeOK
  BY DEF Inductive, Clock
<1> QED BY TallyInvariant, <1>1, PTL

\* today_utc is the date of the calendar on every day since 1970.
THEOREM DateIsRight == Spec => []RightDate
<1>1. Inductive => RightDate
  BY DEF Inductive, Clock
<1> QED BY TallyInvariant, <1>1, PTL

\* Midnight between load_tally, is_new_day and reset never puts an event into
\* the tally of a day before it arrived.
THEOREM RecordedInItsDay == Spec => []TallyOfTheDay
<1>1. Inductive => TallyOfTheDay
  BY DEF Inductive
<1> QED BY TallyInvariant, <1>1, PTL

\* What the tally of today misses is covered by faults, what it has too much by
\* the event that was at hand at midnight.
THEOREM TodayAccounted == Spec => []TodayIsAccounted
<1>1. Inductive => TodayIsAccounted
  BY AccountsSuffice DEF Inductive
<1> QED BY TallyInvariant, <1>1, PTL
=============================================================================
