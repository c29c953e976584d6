------------------------------ MODULE Moments -------------------------------
(***************************************************************************)
(* The moments of moment.js: what every operation of a moment makes of it. *)
(*                                                                         *)
(* A moment holds a Date, d, and shows it in the local zone, or in UTC, or *)
(* at a fixed offset from UTC; in the last two d is the clock of the       *)
(* moment, shifted by its offset.  Time is counted in minutes since        *)
(* 1 January 1970, the unit every smaller one is rounded to.               *)
(***************************************************************************)
EXTENDS Durations

CONSTANTS
  StandardOffset,   \* the local zone: minutes ahead of UTC,
  SummerTimes,      \* and the times it is one hour more, as pairs from, to
  Now               \* the time a page is shown

ASSUME ZoneAssumption ==
  /\ StandardOffset \in Int /\ Now \in Int
  /\ SummerTimes \subseteq (Int \X Int)
  /\ \A s \in SummerTimes : s[1] + 60 < s[2]

\* Every summer has a winter: on each of its days, January or June of that
\* year has no summer time.
ASSUME WinterAssumption ==
  \A s \in SummerTimes :
    \A n \in (s[1] + StandardOffset + 60) \div MinutesPerDay
             .. (s[2] - 1 + StandardOffset + 60) \div MinutesPerDay :
      \E mon \in {0, 5} :
        \A t \in SummerTimes :
          \/ t[2] <= DayNumber(YearOf(n), mon, 1) * MinutesPerDay - StandardOffset - 60
          \/ DayNumber(YearOf(n), mon + 1, 1) * MinutesPerDay - StandardOffset <= t[1]

\* The locale of a moment is the rule for its weeks.
Moment == [valid : BOOLEAN, d : Int, isUTC : BOOLEAN, offset : Int, week : WeekRule]

-----------------------------------------------------------------------------
(***************************************************************************)
(* External: the local clock of Date, which is changed at the ends of      *)
(* SummerTimes.  A clock time that is skipped is read with the offset      *)
(* before the change, one that comes twice is the first.                   *)
(***************************************************************************)
LocalOffset(time) ==
  StandardOffset + (IF \E s \in SummerTimes : s[1] <= time /\ time < s[2] THEN 60 ELSE 0)

Local(time) == time + LocalOffset(time)

FromLocal(clock) ==
  IF Local(clock - StandardOffset - 60) = clock
  THEN clock - StandardOffset - 60
  ELSE clock - StandardOffset

-----------------------------------------------------------------------------
(***************************************************************************)
(* Getters, and the setters of Date.                                       *)
(***************************************************************************)
Clock(m)     == IF m.isUTC THEN m.d ELSE Local(m.d)
DayOf(m)     == Clock(m) \div MinutesPerDay
year(m)      == YearOf(DayOf(m))
month(m)     == MonthOf(DayOf(m))
date(m)      == DateOf(DayOf(m))
day(m)       == WeekdayOf(DayOf(m))
hour(m)      == (Clock(m) % MinutesPerDay) \div 60
minute(m)    == Clock(m) % 60
valueOf(m)   == m.d - m.offset
utcOffset(m) == IF m.isUTC THEN m.offset ELSE LocalOffset(m.d)

DateAt(m, clock) == [m EXCEPT !.d = IF m.isUTC THEN clock ELSE FromLocal(clock)]
SetDate(m, y, mon, dt) ==
  DateAt(m, DayNumber(y, mon, dt) * MinutesPerDay + (Clock(m) % MinutesPerDay))

-----------------------------------------------------------------------------
(***************************************************************************)
(* Months, days and minutes are added in this order.                       *)
(***************************************************************************)
\* set$1
set(m, unit, value) ==
  CASE unit = "year" ->
         SetDate(m, value, month(m),
                 IF isLeapYear(year(m)) /\ month(m) = 1 /\ date(m) = 29
                 THEN daysInMonth(value, 1) ELSE date(m))
    [] unit = "date" -> SetDate(m, year(m), month(m), value)
    [] unit = "hour" -> DateAt(m, DayOf(m) * MinutesPerDay + value * 60 + minute(m))

setMonth(m, value) ==
  SetDate(m, year(m), value, Lesser(date(m), daysInMonth(year(m), value)))

AddMonths(m, n) == IF n # 0 THEN setMonth(m, month(m) + n) ELSE m
AddDays(m, n)   == IF n # 0 THEN set(m, "date", date(m) + n) ELSE m

addSubtract(m, duration, isAdding) ==
  IF ~m.valid THEN m
  ELSE [AddDays(AddMonths(m, duration.months * isAdding), duration.days * isAdding)
          EXCEPT !.d = @ + duration.minutes * isAdding]

add(m, n, unit) == addSubtract(m, Kept([u \in {unit} |-> n]), 1)

-----------------------------------------------------------------------------
(***************************************************************************)
(* Days of the week and of the year, weeks and quarters: what a moment     *)
(* answers, and what it becomes when one of them is set.                   *)
(***************************************************************************)
weekday(m)    == (day(m) + 7 - m.week.dow) % 7
isoWeekday(m) == IF day(m) = 0 THEN 7 ELSE day(m)
setDay(m, input)        == add(m, input - day(m), "day")
setWeekday(m, input)    == add(m, input - weekday(m), "day")
\* Mutant: Sunday is the first day of an ISO week.
SetISOWeekdayAsDay(m, input) == setDay(m, input)

setISOWeekday(m, input) == setDay(m, IF day(m) % 7 # 0 THEN input ELSE input - 7)

-----------------------------------------------------------------------------
(***************************************************************************)
(* The start and the end of a unit.                                        *)
(***************************************************************************)
\* Mutant: years 0 to 99 are not.
StartOfNewDate(m, y, mon, dt) == DateAt(m, NewDate(y, mon, dt) * MinutesPerDay)

\* Years 0 to 99 are made in a later cycle of 400 years.
StartOfDate(m, y, mon, dt) ==
  DateAt(m, (IF y \in 0 .. 99 THEN NewDate(y + 400, mon, dt) - 146097 ELSE NewDate(y, mon, dt))
              * MinutesPerDay)

\* How far the clock is in its hour.
InHour(m) == (m.d + (IF m.isUTC THEN 0 ELSE utcOffset(m))) % 60

FirstMonth(unit, mon) ==
  CASE unit = "year" -> 0 [] unit = "quarter" -> mon - (mon % 3) [] OTHER -> mon

FirstDate(m, unit) ==
  CASE unit = "day"     -> date(m)
    [] unit = "week"    -> date(m) - weekday(m)
    [] unit = "isoWeek" -> date(m) - (isoWeekday(m) - 1)
    [] OTHER            -> 1

startOf(m, unit) ==
  IF ~m.valid THEN m
  ELSE IF unit = "hour" THEN [m EXCEPT !.d = @ - InHour(m)]
  ELSE StartOfDate(m, year(m), FirstMonth(unit, month(m)), FirstDate(m, unit))

Earlier(m) == [m EXCEPT !.d = @ - 1]

\* How many years, months and days the next one starts later.
Span(unit) ==
  CASE unit = "year"    -> <<1, 0, 0>>
    [] unit = "quarter" -> <<0, 3, 0>>
    [] unit = "month"   -> <<0, 1, 0>>
    [] unit = "day"     -> <<0, 0, 1>>
    [] OTHER            -> <<0, 0, 7>>

endOf(m, unit) ==
  IF ~m.valid THEN m
  ELSE IF unit = "hour" THEN [m EXCEPT !.d = @ + 60 - InHour(m) - 1]
  ELSE Earlier(StartOfDate(m, year(m) + Span(unit)[1],
                           FirstMonth(unit, month(m)) + Span(unit)[2],
                           FirstDate(m, unit) + Span(unit)[3]))

\* The days of the year are counted between starts of days, rounded.
dayOfYear(m) ==
  Rounded(valueOf(startOf(m, "day")) - valueOf(startOf(m, "year")), MinutesPerDay) + 1
setDayOfYear(m, input) == add(m, input - dayOfYear(m), "day")

weekOf(m, rule)         == weekOfYear(year(m), dayOfYear(m), rule)
setWeek(m, input, rule) == add(m, (input - weekOf(m, rule).week) * 7, "day")

\* The year, the month and the date of a day, set one after the other.
SetDateOf(m, day1) ==
  set(setMonth(set(m, "year", YearOf(day1)), MonthOf(day1)), "date", DateOf(day1))

setWeekAll(m, weekYear, week, wday, rule) ==
  LET data == dayOfYearFromWeeks(weekYear, week, wday, rule) IN
    SetDateOf(m, createUTCDate(data.year, 0, data.dayOfYear))

\* A week the year does not have becomes its last.
setWeekYearHelper(m, input, week, wday, rule) ==
  setWeekAll(m, input, Lesser(week, weeksInYear(input, rule)), wday, rule)

setWeekYear(m, input)    == setWeekYearHelper(m, input, weekOf(m, m.week).week, weekday(m), m.week)
setISOWeekYear(m, input) == setWeekYearHelper(m, input, weekOf(m, ISOWeek).week, isoWeekday(m), ISOWeek)

quarter(m)           == -((-(month(m) + 1)) \div 3)
setQuarter(m, input) == setMonth(m, (input - 1) * 3 + (month(m) % 3))

-----------------------------------------------------------------------------
(***************************************************************************)
(* Offsets.  keepLocalTime keeps the clock, otherwise the time is kept.    *)
(***************************************************************************)
setOffset(m, input, keepLocalTime) ==
  LET minutes == IF mathAbs(input) < 16 THEN input * 60 ELSE input
      adjust  == IF ~m.isUTC /\ keepLocalTime THEN LocalOffset(m.d) ELSE 0
      change  == IF keepLocalTime THEN 0 ELSE minutes - m.offset
  IN  IF m.valid THEN [m EXCEPT !.offset = minutes, !.isUTC = TRUE, !.d = @ + adjust + change]
                 ELSE m

utc(m, keepLocalTime) == setOffset(m, 0, keepLocalTime)

\* Mutant: the offset is not taken back.
LocalAsIs(m, keepLocalTime) == [m EXCEPT !.isUTC = FALSE]

local(m, keepLocalTime) ==
  LET u == [setOffset(m, 0, keepLocalTime) EXCEPT !.isUTC = FALSE] IN
    IF ~m.isUTC THEN m
    ELSE IF keepLocalTime THEN [u EXCEPT !.d = @ - LocalOffset(@)]
    ELSE u

\* The same time, shown as the model is.
cloneWithOffset(input, model) ==
  IF model.isUTC
  THEN [model EXCEPT !.d = @ + (valueOf(input) - valueOf(model))]
  ELSE local(input, FALSE)

isDaylightSavingTime(m) ==
  utcOffset(m) > utcOffset(setMonth(m, 0)) \/ utcOffset(m) > utcOffset(setMonth(m, 5))

-----------------------------------------------------------------------------
(***************************************************************************)
(* Comparisons.                                                            *)
(***************************************************************************)
isAfter(m, input, unit) ==
  m.valid /\ input.valid /\ valueOf(input) < valueOf(startOf(m, unit))
isBefore(m, input, unit) ==
  m.valid /\ input.valid /\ valueOf(endOf(m, unit)) < valueOf(input)
isSame(m, input, unit) ==
  /\ m.valid /\ input.valid
  /\ valueOf(startOf(m, unit)) <= valueOf(input) /\ valueOf(input) <= valueOf(endOf(m, unit))

-----------------------------------------------------------------------------
(***************************************************************************)
(* Differences.  Those in months are linear between the same day of the    *)
(* month before and after, so they are fractions.                          *)
(***************************************************************************)
Since(a, b) == valueOf(a) - valueOf(b)

\* Of b from a, where the date of a is not before that of b.
MonthsPast(a, b, whole, anchor) ==
  LET behind == Since(b, anchor) < 0
      next   == add(a, IF behind THEN whole - 1 ELSE whole + 1, "month")
      length == IF behind THEN Since(anchor, next) ELSE Since(next, anchor)
  IN  <<-(whole * length + Since(b, anchor)), length>>

MonthsTo(a, b) ==
  LET whole == (year(b) - year(a)) * 12 + (month(b) - month(a)) IN
    MonthsPast(a, b, whole, add(a, whole, "month"))

\* Mutant: the dates are not compared.
MonthDiffOneWay(a, b) == MonthsTo(a, b)

Negated(q) == <<-q[1], q[2]>>

monthDiff(a, b) ==
  IF date(a) < date(b) THEN Negated(MonthsTo(b, a)) ELSE MonthsTo(a, b)

MonthsIn         == [year |-> 12, quarter |-> 3, month |-> 1]
InUnitsOf(q, n)  == <<q[1], n * q[2]>>

\* Changes of the offset between the two do not count for days and weeks.
exactDiff(m, input, unit) ==
  LET that      == cloneWithOffset(input, m)
      zoneDelta == utcOffset(that) - utcOffset(m)
  IN  CASE unit \in DOMAIN MonthsIn -> InUnitsOf(monthDiff(m, that), MonthsIn[unit])
        [] unit = "week" -> <<Since(m, that) - zoneDelta, 7 * MinutesPerDay>>
        [] unit = "day"  -> <<Since(m, that) - zoneDelta, MinutesPerDay>>
        [] unit = "hour" -> <<Since(m, that), 60>>

WholeUnits(q)        == absFloor(q[1], q[2])
diff(m, input, unit) == WholeUnits(exactDiff(m, input, unit))

AfterMonths(base, other, months) ==
  [months |-> months, milliseconds |-> Since(other, add(base, months, "month"))]

positiveMomentsDifference(base, other) ==
  LET most == month(other) - month(base) + (year(other) - year(base)) * 12 IN
    AfterMonths(base, other, IF Since(add(base, most, "month"), other) > 0 THEN most - 1 ELSE most)

Backwards(difference) ==
  [months |-> -difference.months, milliseconds |-> -difference.milliseconds]

momentsDifference(base, input) ==
  LET other == cloneWithOffset(input, base)
  IN  IF ~(base.valid /\ input.valid) THEN [months |-> 0, milliseconds |-> 0]
      ELSE IF Since(base, other) < 0  THEN positiveMomentsDifference(base, other)
      ELSE Backwards(positiveMomentsDifference(other, base))

\* createDuration of an object with from and to.
DurationOf(difference) ==
  createDuration([month |-> difference.months, minute |-> difference.milliseconds])

durationBetween(from, to) == DurationOf(momentsDifference(from, to))

\* How a calendar names the day of a moment, as seen from another.
getCalendarFormat(days) ==
  IF days < -6 * MinutesPerDay      THEN "sameElse"
  ELSE IF days < -MinutesPerDay     THEN "lastWeek"
  ELSE IF days < 0                  THEN "lastDay"
  ELSE IF days < MinutesPerDay      THEN "sameDay"
  ELSE IF days < 2 * MinutesPerDay  THEN "nextDay"
  ELSE IF days < 7 * MinutesPerDay  THEN "nextWeek"
  ELSE "sameElse"

calendarFormat(m, now) ==
  getCalendarFormat(exactDiff(m, startOf(cloneWithOffset(now, m), "day"), "day")[1])
=============================================================================
