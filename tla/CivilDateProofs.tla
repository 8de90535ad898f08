--------------------------- MODULE CivilDateProofs ---------------------------
(***************************************************************************)
(* today_utc is the Gregorian calendar: from one day to the next the date it   *)
(* computes advances as the calendar does, for every day number.  A day is     *)
(* placed by its era, the year of the era and the day of that year, which      *)
(* begins in March; the lemmas say how the three move from a day to the next.  *)
(***************************************************************************)
EXTENDS CivilDate, TLAPS

-----------------------------------------------------------------------------
(* Years *)

\* The day on which a year of the era is over, and the days it has: 366 when the
\* February in which it ends is that of a leap year.
YearEnd(yoe) == IF yoe < 399 THEN YearStart(yoe + 1) ELSE 146097
YearLen(era, yoe) == IF Leap(yoe + 1 + era * 400) THEN 366 ELSE 365

\* The year of the era is the one in which the day lies ...
LEMMA YearIsRight ==
    ASSUME NEW doe \in Int, 0 <= doe, doe <= 146096
    PROVE  /\ YearOfEra(doe) \in Int
           /\ 0 <= YearOfEra(doe) /\ YearOfEra(doe) <= 399
           /\ YearStart(YearOfEra(doe)) <= doe
           /\ doe < YearEnd(YearOfEra(doe))
BY SMTT(60) DEF YearOfEra, YearStart, YearEnd

\* ... and no other year is.
LEMMA YearIsUnique ==
    ASSUME NEW doe \in Int, NEW j \in Int, NEW k \in Int,
           0 <= j, j <= 399, 0 <= k, k <= 399,
           doe <= 146096,
           YearStart(j) <= doe, doe < YearEnd(j),
           YearStart(k) <= doe, doe < YearEnd(k)
    PROVE  j = k
BY SMTT(30) DEF YearStart, YearEnd

\* The days between its beginning and its end are the days of the calendar.
LEMMA YearLength ==
    ASSUME NEW era \in Int, NEW yoe \in Int, 0 <= yoe, yoe <= 399
    PROVE  /\ YearStart(yoe) \in Int /\ YearEnd(yoe) \in Int
           /\ YearEnd(yoe) - YearStart(yoe) = YearLen(era, yoe)
BY SMTT(60) DEF YearStart, YearEnd, YearLen, Leap, Divides

-----------------------------------------------------------------------------
(* Months *)

\* The month is the one in which the day of the year lies.
LEMMA MonthIsRight ==
    ASSUME NEW doy \in Int, 0 <= doy, doy <= 365
    PROVE  /\ MonthFromMarch(doy) \in Int
           /\ 0 <= MonthFromMarch(doy) /\ MonthFromMarch(doy) <= 11
           /\ MonthStart(MonthFromMarch(doy)) <= doy
           /\ doy < MonthStart(MonthFromMarch(doy) + 1)
BY SMTT(30) DEF MonthFromMarch, MonthStart

\* From a day of a year to the next the month stays or the next one begins.
LEMMA NextMonth ==
    ASSUME NEW doy \in Int, 0 <= doy, doy < 365
    PROVE  \/ /\ MonthFromMarch(doy + 1) = MonthFromMarch(doy)
              /\ doy + 1 < MonthStart(MonthFromMarch(doy) + 1)
           \/ /\ MonthFromMarch(doy + 1) = MonthFromMarch(doy) + 1
              /\ doy + 1 = MonthStart(MonthFromMarch(doy) + 1)
BY SMTT(30) DEF MonthFromMarch, MonthStart

\* Every month but the last of the year, February, has its days.
LEMMA MonthLength ==
    ASSUME NEW y \in Int, NEW mp \in 0 .. 10
    PROVE  /\ MonthStart(mp + 1) - MonthStart(mp) = DaysIn(y, Month(mp))
           /\ Month(mp) # 2
BY SMTT(30) DEF MonthStart, Month, DaysIn

-----------------------------------------------------------------------------
(* Days *)

\* The three places of a day.
E(days) == Era(days + 719468)
Y(days) == YearOfEra(DayOfEra(days + 719468))
D(days) == DayOfEra(days + 719468) - YearStart(Y(days))

LEMMA EraIsRight ==
    ASSUME NEW z \in Nat
    PROVE  /\ Era(z) \in Nat /\ DayOfEra(z) \in Int
           /\ 0 <= DayOfEra(z) /\ DayOfEra(z) <= 146096
           /\ \/ Era(z + 1) = Era(z) /\ DayOfEra(z + 1) = DayOfEra(z) + 1
              \/ /\ Era(z + 1) = Era(z) + 1
                 /\ DayOfEra(z) = 146096 /\ DayOfEra(z + 1) = 0
BY SMTT(30) DEF Era, DayOfEra

\* A day lies inside its year.
LEMMA Places ==
    ASSUME NEW days \in Nat
    PROVE  /\ E(days) \in Nat /\ Y(days) \in Int /\ D(days) \in Int
           /\ 0 <= Y(days) /\ Y(days) <= 399
           /\ 0 <= D(days) /\ D(days) < YearLen(E(days), Y(days))
<1> DEFINE z == days + 719468
           doe == DayOfEra(z)
           yoe == YearOfEra(doe)
<1>1. z \in Nat
  BY SMT
<1>2. /\ Era(z) \in Nat /\ doe \in Int /\ 0 <= doe /\ doe <= 146096
  BY SMT, <1>1, EraIsRight
<1>3. /\ yoe \in Int /\ 0 <= yoe /\ yoe <= 399
      /\ YearStart(yoe) <= doe /\ doe < YearEnd(yoe)
  BY SMT, <1>2, YearIsRight
<1> HIDE DEF doe, yoe
<1>4. /\ YearStart(yoe) \in Int /\ YearEnd(yoe) \in Int
      /\ YearEnd(yoe) - YearStart(yoe) = YearLen(Era(z), yoe)
  BY SMT, <1>2, <1>3, YearLength
<1> QED
  BY SMT, <1>2, <1>3, <1>4 DEF E, Y, D, doe, yoe

\* The next day is the next one of the year, or the first of the next year.
LEMMA NextPlace ==
    ASSUME NEW days \in Nat
    PROVE  \/ /\ E(days + 1) = E(days) /\ Y(days + 1) = Y(days)
              /\ D(days + 1) = D(days) + 1
              /\ D(days) + 1 < YearLen(E(days), Y(days))
           \/ /\ D(days) + 1 = YearLen(E(days), Y(days))
              /\ D(days + 1) = 0
              /\ Y(days + 1) + E(days + 1) * 400 = Y(days) + 1 + E(days) * 400
<1> DEFINE z == days + 719468
           doe == DayOfEra(z)
           yoe == YearOfEra(doe)
           doe1 == DayOfEra(z + 1)
           yoe1 == YearOfEra(doe1)
<1>1. z \in Nat /\ z + 1 \in Nat /\ (days + 1) + 719468 = z + 1
  BY SMT
<1>2. /\ E(days) = Era(z) /\ Y(days) = yoe /\ D(days) = doe - YearStart(yoe)
      /\ E(days + 1) = Era(z + 1) /\ Y(days + 1) = yoe1
      /\ D(days + 1) = doe1 - YearStart(yoe1)
  BY SMT, <1>1 DEF E, Y, D
<1> HIDE DEF z
<1>3. /\ Era(z) \in Nat /\ doe \in Int /\ 0 <= doe /\ doe <= 146096
      /\ Era(z + 1) \in Nat /\ doe1 \in Int /\ 0 <= doe1 /\ doe1 <= 146096
      /\ \/ Era(z + 1) = Era(z) /\ doe1 = doe + 1
         \/ Era(z + 1) = Era(z) + 1 /\ doe = 146096 /\ doe1 = 0
  BY SMT, <1>1, EraIsRight
<1>4. /\ yoe \in Int /\ 0 <= yoe /\ yoe <= 399
      /\ YearStart(yoe) <= doe /\ doe < YearEnd(yoe)
      /\ yoe1 \in Int /\ 0 <= yoe1 /\ yoe1 <= 399
      /\ YearStart(yoe1) <= doe1 /\ doe1 < YearEnd(yoe1)
  BY SMT, <1>3, YearIsRight
<1> HIDE DEF doe, yoe, doe1, yoe1
<1>5. /\ YearStart(yoe) \in Int /\ YearEnd(yoe) \in Int
      /\ YearEnd(yoe) - YearStart(yoe) = YearLen(Era(z), yoe)
      /\ YearStart(yoe1) \in Int /\ YearEnd(yoe1) \in Int
  BY SMT, <1>3, <1>4, YearLength
<1>6. CASE doe + 1 < YearEnd(yoe) /\ doe1 = doe + 1 /\ Era(z + 1) = Era(z)
  <2>1. yoe1 = yoe
    BY SMT, <1>3, <1>4, <1>5, <1>6, YearIsUnique
  <2> QED
    BY SMT, <1>2, <1>3, <1>5, <1>6, <2>1
<1>7. CASE doe + 1 = YearEnd(yoe) /\ doe1 = doe + 1 /\ Era(z + 1) = Era(z)
  <2>1. yoe < 399
    BY SMT, <1>3, <1>4, <1>7 DEF YearEnd
  <2>2. YearStart(yoe + 1) = doe1 /\ doe1 < YearEnd(yoe + 1)
    BY SMT, <1>3, <1>4, <1>7, <2>1 DEF YearEnd, YearStart
  <2>3. yoe1 = yoe + 1
    BY SMT, <1>3, <1>4, <2>1, <2>2, YearIsUnique
  <2> QED
    BY SMT, <1>2, <1>3, <1>4, <1>5, <1>7, <2>2, <2>3
<1>8. CASE Era(z + 1) = Era(z) + 1 /\ doe = 146096 /\ doe1 = 0
  <2>1. yoe = 399 /\ YearEnd(399) = 146097 /\ YearStart(0) = 0 /\ yoe1 = 0
    <3>1. /\ YearStart(399) <= 146096 /\ YearEnd(399) = 146097
          /\ YearStart(0) = 0 /\ 0 < YearEnd(0)
      BY SMT DEF YearStart, YearEnd
    <3>2. yoe = 399
      BY SMT, <1>3, <1>4, <1>8, <3>1, YearIsUnique
    <3>3. yoe1 = 0
      BY SMT, <1>3, <1>4, <1>8, <3>1, YearIsUnique
    <3> QED
      BY SMT, <3>1, <3>2, <3>3
  <2>2. D(days) + 1 = YearLen(E(days), Y(days)) /\ D(days + 1) = 0
    BY SMT, <1>2, <1>3, <1>5, <1>8, <2>1
  <2>3. Y(days + 1) + E(days + 1) * 400 = Y(days) + 1 + E(days) * 400
    BY SMT, <1>2, <1>3, <1>8, <2>1
  <2> QED
    BY <2>2, <2>3
<1> QED
  BY SMT, <1>3, <1>4, <1>5, <1>6, <1>7, <1>8

-----------------------------------------------------------------------------
(* Dates *)

\* The three ways in which the calendar goes on.
LEMMA TomorrowIs ==
    ASSUME NEW y \in Int, NEW m \in Int, NEW d \in Int
    PROVE  LET t == [y |-> y, m |-> m, d |-> d]
           IN  /\ d < DaysIn(y, m) => Tomorrow(t) = [y |-> y, m |-> m, d |-> d + 1]
               /\ d = DaysIn(y, m) /\ m < 12 =>
                     Tomorrow(t) = [y |-> y, m |-> m + 1, d |-> 1]
               /\ d = DaysIn(y, m) /\ ~(m < 12) =>
                     Tomorrow(t) = [y |-> y + 1, m |-> 1, d |-> 1]
<1> DEFINE t == [y |-> y, m |-> m, d |-> d]
<1>1. t.y = y /\ t.m = m /\ t.d = d
  BY SMT
<1>2. [t EXCEPT !.d = @ + 1] = [y |-> y, m |-> m, d |-> d + 1]
  BY SMT
<1>3. d = DaysIn(y, m) => ~(d < DaysIn(y, m))
  BY SMT
<1> QED
  BY <1>1, <1>2, <1>3, Zenon DEF Tomorrow

\* Inside a year that begins in March the date advances as in the calendar.
LEMMA SameYear ==
    ASSUME NEW era \in Nat, NEW yoe \in Int, 0 <= yoe,
           NEW doy \in Int, 0 <= doy, doy + 1 < YearLen(era, yoe)
    PROVE  CivilOf(era, yoe, doy + 1) = Tomorrow(CivilOf(era, yoe, doy))
<1> DEFINE mp == MonthFromMarch(doy)
           mp1 == MonthFromMarch(doy + 1)
           yr(k) == IF Month(k) <= 2 THEN yoe + era * 400 + 1 ELSE yoe + era * 400
<1>1. doy < 365 /\ doy + 1 <= 365 /\ (doy = 364 => Leap(yoe + 1 + era * 400))
  BY SMT DEF YearLen
<1>2. /\ mp \in Int /\ 0 <= mp /\ mp <= 11
      /\ MonthStart(mp) <= doy /\ doy < MonthStart(mp + 1)
      /\ mp1 \in Int /\ 0 <= mp1 /\ mp1 <= 11
  BY SMT, <1>1, MonthIsRight
<1>3. \/ mp1 = mp /\ doy + 1 < MonthStart(mp + 1)
      \/ mp1 = mp + 1 /\ doy + 1 = MonthStart(mp + 1)
  BY SMT, <1>1, NextMonth
<1>4. /\ CivilOf(era, yoe, doy) =
            [y |-> yr(mp), m |-> Month(mp), d |-> doy - MonthStart(mp) + 1]
      /\ CivilOf(era, yoe, doy + 1) =
            [y |-> yr(mp1), m |-> Month(mp1), d |-> (doy + 1) - MonthStart(mp1) + 1]
  BY SMT DEF CivilOf
<1> HIDE DEF mp, mp1
<1>5. \A k \in Int : MonthStart(k) \in Int
  BY SMT DEF MonthStart
<1>6. yr(mp) \in Int
  BY SMT
<1>7. CASE mp = 11
  <2>1. MonthStart(11) = 337 /\ Month(11) = 2 /\ mp1 = 11
    BY SMT, <1>2, <1>3, <1>7 DEF MonthStart, Month
  <2>2. yr(11) = yoe + 1 + era * 400
    BY SMT, <2>1
  <2>3. doy - 337 + 1 < DaysIn(yr(11), 2)
    BY SMT, <1>1, <2>2 DEF DaysIn
  <2> HIDE DEF yr
  <2> QED
    BY SMT, <1>4, <1>6, <1>7, <2>1, <2>3 DEF Tomorrow
<1>8. CASE mp <= 10
  <2>1. mp \in 0 .. 10
    BY SMT, <1>2, <1>8
  <2>2. MonthStart(mp + 1) - MonthStart(mp) = DaysIn(yr(mp), Month(mp))
    BY SMT, <1>6, <2>1, MonthLength
  <2>3. CASE mp1 = mp /\ doy + 1 < MonthStart(mp + 1)
    <3>1. doy - MonthStart(mp) + 1 < DaysIn(yr(mp), Month(mp))
      BY SMT, <1>2, <1>5, <2>2, <2>3
    <3> HIDE DEF yr
    <3> QED
      BY SMT, <1>2, <1>4, <1>5, <1>6, <2>3, <3>1 DEF Tomorrow
  <2>4. CASE mp1 = mp + 1 /\ doy + 1 = MonthStart(mp + 1)
    <3>1. doy - MonthStart(mp) + 1 = DaysIn(yr(mp), Month(mp))
      BY SMT, <1>2, <1>5, <2>2, <2>4
    <3>2. (doy + 1) - MonthStart(mp1) + 1 = 1
      BY SMT, <1>5, <1>2, <2>4
    <3>3. Month(mp) \in Int
      BY SMT, <1>2 DEF Month
    <3>4. IF Month(mp) < 12 THEN yr(mp1) = yr(mp) /\ Month(mp1) = Month(mp) + 1
          ELSE yr(mp1) = yr(mp) + 1 /\ Month(mp1) = 1
      BY SMT, <2>1, <2>4 DEF Month
    <3> HIDE DEF yr
    <3>5. doy - MonthStart(mp) + 1 \in Int
      BY SMT, <1>2, <1>5
    <3> DEFINE y == yr(mp)
               m == Month(mp)
               d == doy - MonthStart(mp) + 1
    <3>6. /\ y \in Int /\ m \in Int /\ d \in Int /\ d = DaysIn(y, m)
          /\ CivilOf(era, yoe, doy) = [y |-> y, m |-> m, d |-> d]
      BY <1>4, <1>6, <3>1, <3>3, <3>5
    <3> HIDE DEF y, m, d
    <3>7. /\ m < 12 => Tomorrow(CivilOf(era, yoe, doy)) =
                         [y |-> y, m |-> m + 1, d |-> 1]
          /\ ~(m < 12) => Tomorrow(CivilOf(era, yoe, doy)) =
                         [y |-> y + 1, m |-> 1, d |-> 1]
      <4> DEFINE t == [y |-> y, m |-> m, d |-> d]
      <4>1. /\ m < 12 => Tomorrow(t) = [y |-> y, m |-> m + 1, d |-> 1]
            /\ ~(m < 12) => Tomorrow(t) = [y |-> y + 1, m |-> 1, d |-> 1]
        BY Zenon, <3>6, TomorrowIs
      <4> QED
        BY Zenon, <3>6, <4>1
    <3>8. CASE Month(mp) < 12
      <4>1. CivilOf(era, yoe, doy + 1) = [y |-> yr(mp), m |-> Month(mp) + 1, d |-> 1]
        BY Zenon, <1>4, <3>2, <3>4, <3>8
      <4>2. Tomorrow(CivilOf(era, yoe, doy)) =
              [y |-> yr(mp), m |-> Month(mp) + 1, d |-> 1]
        BY Zenon, <3>7, <3>8 DEF y, m
      <4> QED
        BY <4>1, <4>2
    <3>9. CASE ~(Month(mp) < 12)
      <4>1. CivilOf(era, yoe, doy + 1) = [y |-> yr(mp) + 1, m |-> 1, d |-> 1]
        BY Zenon, <1>4, <3>2, <3>4, <3>9
      <4>2. Tomorrow(CivilOf(era, yoe, doy)) = [y |-> yr(mp) + 1, m |-> 1, d |-> 1]
        BY Zenon, <3>7, <3>9 DEF y, m
      <4> QED
        BY <4>1, <4>2
    <3> QED
      BY <3>8, <3>9
  <2> QED
    BY SMT, <1>3, <2>3, <2>4
<1> QED
  BY SMT, <1>2, <1>7, <1>8

\* The last day of the year is the last one of a February, and the first of
\* March follows.
LEMMA NewYear ==
    ASSUME NEW era \in Nat, NEW yoe \in Int, NEW era1 \in Nat, NEW yoe1 \in Int,
           yoe1 + era1 * 400 = yoe + 1 + era * 400,
           NEW doy \in Int, doy + 1 = YearLen(era, yoe)
    PROVE  CivilOf(era1, yoe1, 0) = Tomorrow(CivilOf(era, yoe, doy))
<1> DEFINE y == yoe + era * 400 + 1
<1>1. y \in Int /\ doy = IF Leap(y) THEN 365 ELSE 364
  BY SMT DEF YearLen
<1>2. MonthFromMarch(doy) = 11 /\ MonthStart(11) = 337 /\ Month(11) = 2
  BY SMT, <1>1 DEF MonthFromMarch, MonthStart, Month
<1>3. CivilOf(era, yoe, doy) = [y |-> y, m |-> 2, d |-> doy - 337 + 1]
  BY SMT, <1>2 DEF CivilOf
<1>4. CivilOf(era1, yoe1, 0) = [y |-> y, m |-> 3, d |-> 1]
  BY SMT DEF CivilOf, MonthFromMarch, MonthStart, Month
<1>5. doy - 337 + 1 = DaysIn(y, 2)
  BY SMT, <1>1 DEF DaysIn
<1> HIDE DEF y
<1> QED
  BY SMT, <1>1, <1>3, <1>4, <1>5 DEF Tomorrow

\* The date today_utc gives for a day is the calendar's successor of the date
\* it gives for the day before (digest.rs:197-220).
THEOREM DateAdvances ==
    ASSUME NEW days \in Nat
    PROVE  Civil(days + 1) = Tomorrow(Civil(days))
<1>1. /\ E(days) \in Nat /\ Y(days) \in Int /\ D(days) \in Int
      /\ 0 <= Y(days) /\ 0 <= D(days) /\ D(days) < YearLen(E(days), Y(days))
      /\ E(days + 1) \in Nat /\ Y(days + 1) \in Int
  <2>1. days + 1 \in Nat
    BY SMT
  <2> QED
    BY SMT, <2>1, Places
<1>2. /\ Civil(days) = CivilOf(E(days), Y(days), D(days))
      /\ Civil(days + 1) = CivilOf(E(days + 1), Y(days + 1), D(days + 1))
  BY SMT DEF Civil, E, Y, D
<1>3. CASE /\ E(days + 1) = E(days) /\ Y(days + 1) = Y(days)
           /\ D(days + 1) = D(days) + 1 /\ D(days) + 1 < YearLen(E(days), Y(days))
  BY SMT, <1>1, <1>2, <1>3, SameYear
<1>4. CASE /\ D(days) + 1 = YearLen(E(days), Y(days)) /\ D(days + 1) = 0
           /\ Y(days + 1) + E(days + 1) * 400 = Y(days) + 1 + E(days) * 400
  <2> DEFINE e == E(days)
             y == Y(days)
             d == D(days)
             e1 == E(days + 1)
             y1 == Y(days + 1)
  <2>1. /\ e \in Nat /\ y \in Int /\ d \in Int /\ e1 \in Nat /\ y1 \in Int
        /\ d + 1 = YearLen(e, y) /\ y1 + e1 * 400 = y + 1 + e * 400
    BY <1>1, <1>4
  <2> HIDE DEF e, y, d, e1, y1
  <2>2. CivilOf(e1, y1, 0) = Tomorrow(CivilOf(e, y, d))
    BY SMT, <2>1, NewYear
  <2>3. CivilOf(E(days + 1), Y(days + 1), 0) = Tomorrow(CivilOf(E(days), Y(days), D(days)))
    BY <2>2 DEF e, y, d, e1, y1
  <2> QED
    BY <1>2, <1>4, <2>3
<1> QED
  BY SMT, <1>1, <1>3, <1>4, NextPlace

\* The place of a day gives the day back.
LEMMA PlaceIsDay ==
    ASSUME NEW days \in Nat
    PROVE  days = E(days) * 146097 + YearStart(Y(days)) + D(days) - 719468
<1> DEFINE z == days + 719468
           doe == DayOfEra(z)
           start == YearStart(YearOfEra(doe))
<1>1. z \in Nat /\ Era(z) \in Nat /\ doe \in Int
  <2>1. z \in Nat
    BY SMT
  <2> QED
    BY SMT, <2>1, EraIsRight
<1>2. doe = z - Era(z) * 146097
  BY DEF DayOfEra
<1>3. start \in Int
  BY SMT, <1>1 DEF YearStart, YearOfEra
<1>4. D(days) = doe - start /\ E(days) = Era(z) /\ YearStart(Y(days)) = start
  BY DEF D, E, Y
<1> HIDE DEF doe, start
<1> QED
  BY SMT, <1>1, <1>2, <1>3, <1>4

\* No two days have the same date, in all the years there are: is_new_day
\* takes a tally for today's on any other day at no time (digest.rs:222-228).
THEOREM DatesDiffer ==
    ASSUME NEW i \in Nat, NEW j \in Nat, Civil(i) = Civil(j)
    PROVE  i = j
<1> DEFINE mp(n) == MonthFromMarch(D(n))
           y(n) == Y(n) + E(n) * 400
           yr(n) == IF Month(mp(n)) <= 2 THEN y(n) + 1 ELSE y(n)
<1>1. ASSUME NEW n \in Nat
      PROVE  /\ E(n) \in Nat /\ Y(n) \in Int /\ 0 <= Y(n) /\ Y(n) <= 399
             /\ D(n) \in Int /\ 0 <= D(n) /\ D(n) <= 365
  BY SMT, Places DEF YearLen
<1>2. ASSUME NEW n \in Nat PROVE mp(n) \in Int /\ 0 <= mp(n) /\ mp(n) <= 11
  BY SMT, <1>1, MonthIsRight
<1>3. ASSUME NEW n
      PROVE  Civil(n) = [y |-> yr(n), m |-> Month(mp(n)), d |-> D(n) - MonthStart(mp(n)) + 1]
  BY SMT DEF Civil, CivilOf, E, Y, D
<1> HIDE DEF mp, y
<1>4. /\ yr(i) = yr(j) /\ Month(mp(i)) = Month(mp(j))
      /\ D(i) - MonthStart(mp(i)) + 1 = D(j) - MonthStart(mp(j)) + 1
  BY SMT, <1>3
<1>5. mp(i) = mp(j)
  BY SMT, <1>2, <1>4 DEF Month
<1>6. D(i) = D(j)
  <2>1. MonthStart(mp(i)) \in Int
    BY SMT, <1>2 DEF MonthStart
  <2>2. D(i) \in Int /\ D(j) \in Int
    BY <1>1
  <2>3. D(i) - MonthStart(mp(i)) + 1 = D(j) - MonthStart(mp(i)) + 1
    BY <1>4, <1>5
  <2> QED
    BY SMT, <2>1, <2>2, <2>3
<1>7. y(i) = y(j)
  <2>1. y(i) \in Int /\ y(j) \in Int
    <3>1. /\ Y(i) \in Int /\ E(i) \in Nat
          /\ Y(j) \in Int /\ E(j) \in Nat
      BY <1>1
    <3> QED
      BY SMT, <3>1 DEF y
  <2>2. yr(i) - y(i) = yr(j) - y(j)
    BY SMT, <1>5, <2>1
  <2>3. yr(i) = yr(j) /\ yr(i) \in Int
    BY SMT, <1>4, <2>1
  <2> HIDE DEF yr
  <2> QED
    BY SMT, <2>1, <2>2, <2>3
<1>8. Y(i) = Y(j) /\ E(i) = E(j)
  <2>1. /\ Y(i) \in Int /\ 0 <= Y(i) /\ Y(i) <= 399 /\ E(i) \in Nat
        /\ Y(j) \in Int /\ 0 <= Y(j) /\ Y(j) <= 399 /\ E(j) \in Nat
    BY <1>1
  <2>2. Y(i) + E(i) * 400 = Y(j) + E(j) * 400
    BY <1>7 DEF y
  <2> QED
    BY SMT, <2>1, <2>2
<1> QED
  BY <1>6, <1>8, PlaceIsDay

=============================================================================
