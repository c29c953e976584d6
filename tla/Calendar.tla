------------------------------ MODULE Calendar ------------------------------
(***************************************************************************)
(* The calendar of moment.js, the date library the marketplace backend     *)
(* ships to its pages: lengths of months and years, and the numbering of   *)
(* weeks.  Months count from 0, as everywhere in the library.              *)
(*                                                                         *)
(* The Date object of JavaScript is external.  It is a number here: the    *)
(* days since 1 January 1970, of the proleptic Gregorian calendar.         *)
(***************************************************************************)
EXTENDS Integers, Sequences

\* Which week is the first of a year: weeks start on weekday dow, and the one
\* with 7 + dow - doy January is the first.
WeekRule == {rule \in [dow : 0 .. 6, doy : Nat] : 7 + rule.dow - rule.doy \in 1 .. 7}
ISOWeek  == [dow |-> 1, doy |-> 4]

-----------------------------------------------------------------------------
(***************************************************************************)
(* External: what Date answers.                                            *)
(***************************************************************************)
DaysBeforeYear(year) ==
  365 * year + (year - 1) \div 4 - (year - 1) \div 100 + (year - 1) \div 400 - 719527

DaysBeforeMonth(year, month) ==
  <<0, 31, 59, 90, 120, 151, 181, 212, 243, 273, 304, 334>>[month + 1]
    + (IF month > 1 THEN DaysBeforeYear(year + 1) - DaysBeforeYear(year) - 365 ELSE 0)

\* Months and dates past either end are carried over.
DayNumber(year, month, date) ==
  LET y == year + month \div 12 IN
    DaysBeforeYear(y) + DaysBeforeMonth(y, month % 12) + date - 1

\* The calendar repeats after 146097 days, which are 400 years.
YearNear(day, y) ==
  IF day < DaysBeforeYear(y) THEN y - 1
  ELSE IF day < DaysBeforeYear(y + 1) THEN y
  ELSE y + 1

YearOf(day) == YearNear(day, 1970 + (400 * day) \div 146097)

MonthInYear(day, y) ==
  LET month == (day - DaysBeforeYear(y)) \div 32 IN
    IF month < 11 /\ DayNumber(y, month + 1, 1) <= day THEN month + 1 ELSE month

DateInYear(day, y) ==
  day - DaysBeforeYear(y) - DaysBeforeMonth(y, MonthInYear(day, y)) + 1

MonthOf(day) == MonthInYear(day, YearOf(day))
DateOf(day)  == DateInYear(day, YearOf(day))

WeekdayOf(day) == (day + 4) % 7

\* The constructor takes a year from 0 to 99 for one of the last century.
NewDate(year, month, date) ==
  DayNumber(IF year \in 0 .. 99 THEN 1900 + year ELSE year, month, date)

-----------------------------------------------------------------------------
(***************************************************************************)
(* Helpers of the library.  Quotients are rounded towards zero or away     *)
(* from it, and the remainder of a negative number is positive.            *)
(***************************************************************************)
absFloor(n, x) == IF n < 0 THEN -((-n) \div x) ELSE n \div x
absCeil(n, x)  == IF n < 0 THEN n \div x ELSE -((-n) \div x)
mod(n, x)      == n % x
Lesser(a, b)   == IF a < b THEN a ELSE b

-----------------------------------------------------------------------------
(***************************************************************************)
(* Months and years.                                                       *)
(***************************************************************************)
isLeapYear(year) == (year % 4 = 0 /\ year % 100 # 0) \/ year % 400 = 0

daysInYear(year) == IF isLeapYear(year) THEN 366 ELSE 365

daysInMonth(year, month) ==
  LET modMonth == mod(month, 12)
      y        == year + (month - modMonth) \div 12
  IN  IF modMonth = 1 THEN (IF isLeapYear(y) THEN 29 ELSE 28)
                      ELSE 31 - ((modMonth % 7) % 2)

\* Years 0 to 99 are made in a later cycle of 400 years and put back.
setUTCFullYear(day, year) == DayNumber(year, MonthOf(day), DateOf(day))

createUTCDate(year, month, date) ==
  IF year \in 0 .. 99
  THEN setUTCFullYear(NewDate(year + 400, month, date), year)
  ELSE NewDate(year, month, date)

-----------------------------------------------------------------------------
(***************************************************************************)
(* Weeks.                                                                  *)
(***************************************************************************)
\* Mutant: days of the year are counted from 0.
FirstWeekOffsetFromZero(year, rule) ==
  LET fwd   == 7 + rule.dow - rule.doy
      fwdlw == (7 + WeekdayOf(createUTCDate(year, 0, fwd)) - rule.dow) % 7
  IN  -fwdlw + fwd

\* The start of the first week, from the start of the year.
firstWeekOffset(year, rule) ==
  LET fwd   == 7 + rule.dow - rule.doy
      fwdlw == (7 + WeekdayOf(createUTCDate(year, 0, fwd)) - rule.dow) % 7
  IN  -fwdlw + fwd - 1

DaysToWeekday(year, week, weekday, rule) ==
  1 + 7 * (week - 1) + ((7 + weekday - rule.dow) % 7) + firstWeekOffset(year, rule)

\* A day before or after the year is one of the year before or after.
DayAsCounted(year, dayOfYear) ==
  IF dayOfYear <= 0
  THEN [year |-> year - 1, dayOfYear |-> daysInYear(year - 1) + dayOfYear]
  ELSE IF dayOfYear > daysInYear(year)
  THEN [year |-> year + 1, dayOfYear |-> dayOfYear - daysInYear(year)]
  ELSE [year |-> year, dayOfYear |-> dayOfYear]

\* Mutant: a date before the year gets the length of the wrong year.
DayOfYearFromWeeksOfThisYear(year, week, weekday, rule) ==
  LET dayOfYear == DaysToWeekday(year, week, weekday, rule)
  IN  IF dayOfYear <= 0
      THEN [year |-> year - 1, dayOfYear |-> daysInYear(year) + dayOfYear]
      ELSE DayAsCounted(year, dayOfYear)

dayOfYearFromWeeks(year, week, weekday, rule) ==
  DayAsCounted(year, DaysToWeekday(year, week, weekday, rule))

weeksInYear(year, rule) ==
  (daysInYear(year) - firstWeekOffset(year, rule) + firstWeekOffset(year + 1, rule)) \div 7

WeekAsCounted(year, week, rule) ==
  IF week < 1
  THEN [year |-> year - 1, week |-> week + weeksInYear(year - 1, rule)]
  ELSE IF week > weeksInYear(year, rule)
  THEN [year |-> year + 1, week |-> week - weeksInYear(year, rule)]
  ELSE [year |-> year, week |-> week]

weekOfYear(year, dayOfYear, rule) ==
  WeekAsCounted(year, (dayOfYear - firstWeekOffset(year, rule) - 1) \div 7 + 1, rule)
=============================================================================
