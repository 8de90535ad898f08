------------------------------ MODULE CivilDate ------------------------------
(***************************************************************************)
(* The calendar of digest.rs: today_utc computes the date of a day number     *)
(* with integer divisions, in years that begin in March and eras of 400       *)
(* years.  Below it is the calendar as everybody knows it, day by day.        *)
(***************************************************************************)
EXTENDS Integers

Date == [y : Nat, m : 1 .. 12, d : 1 .. 31]

-----------------------------------------------------------------------------
(* today_utc, for the days since 1970-01-01 *)

Era(z) == z \div 146097
DayOfEra(z) == z - Era(z) * 146097

\* Faulty variant: every fourth year is a leap year.
YearOfEraJulian(doe) == (doe - doe \div 1460) \div 365

YearOfEra(doe) ==
    (doe - doe \div 1460 + doe \div 36524 - doe \div 146096) \div 365

\* The day of the era on which year k of the era begins.
YearStart(k) == 365 * k + k \div 4 - k \div 100

MonthFromMarch(doy) == (5 * doy + 2) \div 153
MonthStart(mp) == (153 * mp + 2) \div 5

\* Faulty variant: January and February come after December.
MonthUnshifted(mp) == mp + 3

Month(mp) == IF mp < 10 THEN mp + 3 ELSE mp - 9

CivilOf(era, yoe, doy) ==
    LET mp == MonthFromMarch(doy)
        m  == Month(mp)
        y  == yoe + era * 400
    IN  [y |-> IF m <= 2 THEN y + 1 ELSE y,
         m |-> m,
         d |-> doy - MonthStart(mp) + 1]

Civil(days) ==
    LET z   == days + 719468
        yoe == YearOfEra(DayOfEra(z))
    IN  CivilOf(Era(z), yoe, DayOfEra(z) - YearStart(yoe))

-----------------------------------------------------------------------------
(* The Gregorian calendar, day by day *)

Divides(k, n) == k * (n \div k) = n

Leap(y) == Divides(4, y) /\ (Divides(100, y) => Divides(400, y))

DaysIn(y, m) ==
    IF m = 2 THEN IF Leap(y) THEN 29 ELSE 28
    ELSE IF m \in {4, 6, 9, 11} THEN 30 ELSE 31

Tomorrow(t) ==
    IF t.d < DaysIn(t.y, t.m) THEN [t EXCEPT !.d = @ + 1]
    ELSE IF t.m < 12 THEN [y |-> t.y, m |-> t.m + 1, d |-> 1]
    ELSE [y |-> t.y + 1, m |-> 1, d |-> 1]
=============================================================================
