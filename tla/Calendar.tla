------------------------------ MODULE Calendar ------------------------------
(***************************************************************************)
(* The civil calendar of the DividendX program                             *)
(* (programs/dividendx/src/calendar.rs): a series' year is turned into two *)
(* instants, an event's ex-date, a number YYYYMMDD, into a date.           *)
(*                                                                         *)
(* The state is a walk through the calendar, one day at a time, by the     *)
(* rules of the Gregorian calendar: what the operators must agree with.    *)
(***************************************************************************)
EXTENDS Integers

CONSTANTS
  DaySeconds,      \* seconds in a day: 86400 in the program
  Last             \* last year of the walk

\* What the instances of this module satisfy.
CalendarAssumption ==
  /\ DaySeconds \in Nat \ {0}
  /\ Last \in Nat

VARIABLES date, days     \* the day of the walk and its number since 1970-01-01

vars == <<date, days>>

-----------------------------------------------------------------------------

\* is_leap
IsLeap(year) == year % 4 = 0 /\ (year % 100 # 0 \/ year % 400 = 0)

MaxDay(year, month) ==
  CASE month \in {1, 3, 5, 7, 8, 10, 12} -> 31
    [] month \in {4, 6, 9, 11} -> 30
    [] month = 2 -> IF IsLeap(year) THEN 29 ELSE 28

\* The condition under which parse_civil_date returns a date.  Its second
\* conversion, of the year to sixteen bits, cannot fail after the first check.
ParsesCivilDate(value) ==
  LET year == value \div 10000
      month == (value \div 100) % 100
      day == value % 100
  IN  /\ year \in 2020..2101
      /\ month \in 1..12
      /\ day \in 1..MaxDay(year, month)

\* is_in_year
IsInYear(ex_date, year) == ex_date \div 10000 = year

\* unix_days, whose years start in March so that the leap day comes last.
UnixDays(year, month, day) ==
  LET y == year - (IF month <= 2 THEN 1 ELSE 0)
      era == y \div 400
      year_of_era == y - era * 400
      shifted_month == month + (IF month > 2 THEN -3 ELSE 9)
      day_of_year == (153 * shifted_month + 2) \div 5 + day - 1
      day_of_era == year_of_era * 365 + year_of_era \div 4 - year_of_era \div 100 + day_of_year
  IN  era * 146097 + day_of_era - 719468

\* year_bounds of a year in 2020..2100, in multiples of DaySeconds.
YearBounds(year) ==
  [start    |-> UnixDays(year, 1, 1) * DaySeconds,
   maturity |-> UnixDays(year + 1, 1, 1) * DaySeconds]

-----------------------------------------------------------------------------
(* The walk.                                                               *)

Encoded(d) == d.year * 10000 + d.month * 100 + d.day

\* What a calendar on the wall says of the day after d.
LongMonths == {1, 3, 5, 7, 8, 10, 12}
LastOfMonth(d) ==
  d.day = IF d.month \in LongMonths THEN 31
          ELSE IF d.month # 2 THEN 30
          ELSE IF d.year % 4 # 0 \/ (d.year % 100 = 0 /\ d.year % 400 # 0) THEN 28 ELSE 29
Tomorrow(d) ==
  IF ~LastOfMonth(d) THEN [d EXCEPT !.day = d.day + 1]
  ELSE IF d.month < 12 THEN [d EXCEPT !.day = 1, !.month = d.month + 1]
  ELSE [year |-> d.year + 1, month |-> 1, day |-> 1]

Init ==
  /\ date = [year |-> 1970, month |-> 1, day |-> 1]
  /\ days = 0

Next ==
  /\ Encoded(Tomorrow(date)) \div 10000 <= Last
  /\ date' = Tomorrow(date)
  /\ days' = days + 1

Spec == Init /\ [][Next]_vars

-----------------------------------------------------------------------------

\* Every date is given the number of days that separate it from 1970-01-01
\* (calendar.rs, unix_days): eras, leap days and the shifted months agree
\* with the calendar on each of the days a program's year can meet.
DaysExact == UnixDays(date.year, date.month, date.day) = days

\* Of the numbers from one real date to the next, parse_civil_date takes the
\* date and no other, as far as its years reach.
ParsesExactlyTheDates ==
  LET today == Encoded(date)
      between == (today + 1)..(Encoded(Tomorrow(date)) - 1)
  IN  /\ ParsesCivilDate(today) <=> date.year \in 2020..2101
      /\ \A value \in between : ~ParsesCivilDate(value)

\* A date lies in its series' year exactly when its midnight lies between
\* the series' start and its maturity: the journal, which goes by civil
\* dates, and the clock guards, which go by seconds, divide the years alike.
YearsAgree ==
  \A year \in (date.year - 1)..(date.year + 1) :
    IsInYear(Encoded(date), year) <=>
      /\ YearBounds(year).start <= days * DaySeconds
      /\ days * DaySeconds < YearBounds(year).maturity

=============================================================================
