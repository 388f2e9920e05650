------------------------------ MODULE Calendar ------------------------------
(***************************************************************************)
(* parse_timestamp_ns: days_from_civil, which counts the days since        *)
(* 1970-01-01 by a closed formula, the checks around it, and the time of   *)
(* day, put together in nanoseconds of 64 unsigned bits.  The behaviour    *)
(* walks the calendar one day at a time, which is the reference.           *)
(*                                                                         *)
(* A timestamp is a day of the walk and a time: three numbers and the      *)
(* digits behind the point.  A text of another form is left out.  Hours,   *)
(* Minutes and Seconds stand for 24, 60 and 60, TimePlaces for 9, and      *)
(* TimeLimit for 2^64 - 1.                                                 *)
(***************************************************************************)
EXTENDS Integers, Sequences

CONSTANTS
  FirstYear, LastYear,   \* the walk starts and ends with these
  Hours, Minutes, Seconds, TimePlaces, TimeLimit,
  TimeDigit              \* digits behind the point of the times tried

ASSUME CalendarAssumption ==
  /\ FirstYear \in Nat /\ LastYear \in Nat
  /\ 1970 <= FirstYear /\ FirstYear <= LastYear
  /\ {Hours, Minutes, Seconds} \subseteq Nat \ {0}
  /\ TimePlaces \in Nat /\ TimeLimit \in Nat /\ TimeDigit \subseteq 0 .. 9

(* What the proofs need to know of ^.                                      *)
ASSUME CalendarPowers ==
  \A n \in 0 .. TimePlaces - 1 : 10 ^ (n + 1) = 10 * 10 ^ n

VARIABLES
  year, month, day,
  days    \* history: days walked since the first one

calendarVars == << year, month, day, days >>

is_leap_year(y) == y % 4 = 0 /\ (y % 100 # 0 \/ y % 400 = 0)

days_in_month(y, m) ==
  IF m = 2 /\ is_leap_year(y) THEN 29
  ELSE << 31, 28, 31, 30, 31, 30, 31, 31, 30, 31, 30, 31 >>[m]

(* Mutant of year_from_march: the year starts in January.                  *)
year_of_march(y, m) == y

(* The year starts in March, so that a leap day is its last day.           *)
year_from_march(y, m) == IF m <= 2 THEN y - 1 ELSE y

days_from_civil(y, m, d) ==
  LET march       == year_from_march(y, m)
      era         == (IF march >= 0 THEN march ELSE march - 399) \div 400
      year_of_era == march - era * 400
      day_of_year == (153 * (IF m > 2 THEN m - 3 ELSE m + 9) + 2) \div 5
                       + d - 1
      day_of_era  == year_of_era * 365 + year_of_era \div 4
                       - year_of_era \div 100 + day_of_year
  IN era * 146097 + day_of_era - 719468

(* The check of the date's three numbers.                                  *)
DateAccepted(y, m, d) ==
  /\ y >= 1970 /\ m \in 1 .. 12
  /\ d >= 1 /\ d <= days_in_month(y, m)

(* The digits behind the point as a number of nanoseconds.                 *)
nanoseconds(fraction) ==
  LET number[n \in 0 .. TimePlaces] ==
        IF n = 0 THEN 0
        ELSE 10 * number[n - 1]
               + (IF n <= Len(fraction) THEN fraction[n] ELSE 0)
  IN number[TimePlaces]

seconds_of(date_days, t) ==
  date_days * (Hours * Minutes * Seconds) + t.hour * (Minutes * Seconds)
    + t.minute * Seconds + t.second

(* Mutant of Fits: the fraction may still take the sum over the limit.     *)
FitsWithoutFraction(seconds, fraction) ==
  seconds <= TimeLimit \div 10 ^ TimePlaces

(* The fraction is taken off before the division, so that neither the      *)
(* product nor the sum can wrap.                                           *)
Fits(seconds, fraction) ==
  seconds <= (TimeLimit - fraction) \div 10 ^ TimePlaces

TimeAccepted(t, fraction) ==
  /\ t.hour <= Hours - 1 /\ t.minute <= Minutes - 1 /\ t.second <= Seconds - 1
  /\ Len(fraction) <= TimePlaces

parse_timestamp_ns(seconds, fraction) ==
  (seconds * 10 ^ TimePlaces + fraction) % (TimeLimit + 1)

-----------------------------------------------------------------------------
InitCalendar == year = FirstYear /\ month = 1 /\ day = 1 /\ days = 0

(* The reference: months have their days, and one follows the other.       *)
LongMonths == {1, 3, 5, 7, 8, 10, 12}
LeapYear == \/ year % 400 = 0
            \/ year % 4 = 0 /\ year % 100 \in 1 .. 99
LastDay == IF month \in LongMonths THEN 31
           ELSE IF month # 2 THEN 30
           ELSE IF LeapYear THEN 29 ELSE 28

NextDay ==
  /\ day < LastDay
  /\ day' = day + 1
  /\ days' = days + 1
  /\ UNCHANGED << year, month >>

NextMonth ==
  /\ day = LastDay /\ month < 12
  /\ month' = month + 1 /\ day' = 1
  /\ days' = days + 1
  /\ UNCHANGED year

NextYear ==
  /\ day = LastDay /\ month = 12 /\ year < LastYear
  /\ year' = year + 1 /\ month' = 1 /\ day' = 1
  /\ days' = days + 1

Over == year = LastYear /\ month = 12 /\ day = 31 /\ UNCHANGED calendarVars

NextCalendar == NextDay \/ NextMonth \/ NextYear \/ Over

-----------------------------------------------------------------------------
(* The formula counts the days: every day of the walk is one more than the *)
(* day before, over leap years and centuries, from 0 in 1970.              *)
FormulaCountsDays ==
  /\ days_from_civil(year, month, day)
       = days_from_civil(FirstYear, 1, 1) + days
  /\ days_from_civil(1970, 1, 1) = 0

(* A time of the day, or one just past a component's range, and digits     *)
(* behind the point, or one too many.                                      *)
Times == [hour : 0 .. Hours, minute : 0 .. Minutes, second : 0 .. Seconds]
Fractions == {[k \in 1 .. n |-> d] : n \in 0 .. TimePlaces + 1,
                                     d \in TimeDigit}

(* Of the day the walk has reached, with every time and fraction.          *)
WalkedDayIsExact ==
  LET date_days == days_from_civil(year, month, day)
      walked == days_from_civil(FirstYear, 1, 1) + days
  IN \A fraction \in Fractions :
     LET ns == nanoseconds(fraction) IN
     \A t \in Times :
       LET seconds == seconds_of(date_days, t)
           exact == (((walked * Hours + t.hour) * Minutes + t.minute) * Seconds
                       + t.second) * 10 ^ TimePlaces + ns
       IN IF /\ DateAccepted(year, month, day)
             /\ TimeAccepted(t, fraction) /\ Fits(seconds, ns)
          THEN parse_timestamp_ns(seconds, ns) = exact /\ exact <= TimeLimit
          ELSE \/ t.hour = Hours \/ t.minute = Minutes \/ t.second = Seconds
               \/ Len(fraction) > TimePlaces
               \/ exact > TimeLimit

(* A timestamp is accepted exactly if it names a moment that the unsigned  *)
(* type can hold, up to the last nanosecond of it, and then as the number  *)
(* of nanoseconds since 1970 that the walked days amount to.  No day       *)
(* between the last of a month and the first of the next is accepted.      *)
TimestampIsExact ==
  /\ day = LastDay => ~DateAccepted(year, month, day + 1)
  /\ WalkedDayIsExact
=============================================================================
