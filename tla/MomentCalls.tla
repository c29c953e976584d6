---------------------------- MODULE MomentCalls -----------------------------

(***************************************************************************)
(* A page that uses moment.js: it makes two moments of what was given,     *)
(* and then calls the operations that change a moment or a duration, in    *)
(* any order.  Moments are mutable, so that every call starts from what    *)
(* the calls before it left.                                               *)
(***************************************************************************)
EXTENDS MomentInput

CONSTANTS
  Inputs,      \* what the first moment is made of
  OtherInputs, \* what the second moment is made of
  WeekRules,   \* locales, by their rule for weeks
  Durations,   \* durations a page makes, by their units
  Offsets,     \* offsets from UTC, in minutes or hours
  MaxCalls,    \* bound: calls
  MaxYears     \* bound: years between moments a duration is made of

ASSUME CallsAssumption ==
  /\ \A input \in Inputs \cup OtherInputs :
       DOMAIN input \subseteq Fields /\ \A f \in DOMAIN input : input[f] \in Int
  /\ \A given \in Durations :
       DOMAIN given \subseteq Units /\ \A u \in DOMAIN given : given[u] \in Int
  /\ WeekRules \subseteq WeekRule
  /\ Offsets \subseteq Int
  /\ MaxCalls \in Nat /\ MaxYears \in Nat

VARIABLES
  input,   \* what m was made of
  m,       \* the moment that is changed
  other,   \* the one it is compared with
  dur,     \* a duration
  stale,   \* what dur shows may not be what it keeps, as abs was called
  calls    \* calls so far

vars == <<input, m, other, dur, stale, calls>>

UnitsOfTime == {"year", "quarter", "month", "week", "isoWeek", "day", "hour"}

Init ==
  /\ input \in Inputs
  /\ \E rule \in WeekRules, isUTC \in BOOLEAN : m = createLocalOrUTC(input, rule, isUTC)
  /\ \E given \in OtherInputs : other = createLocalOrUTC(given, m.week, FALSE)
  /\ dur = IF mathAbs(year(m) - year(other)) <= MaxYears
           THEN durationBetween(m, other) ELSE createDuration([day |-> 0])
  /\ stale = FALSE
  /\ calls = 0

Call == calls < MaxCalls /\ calls' = calls + 1

\* A call that changes the moment.
Becomes(result) == Call /\ m' = result /\ UNCHANGED <<input, other, dur, stale>>

Add(given, direction) == Becomes(addSubtract(m, createDuration(given), direction))
StartOf(unit)  == Becomes(startOf(m, unit))
EndOf(unit)    == Becomes(endOf(m, unit))
Month(value)   == m.valid /\ Becomes(setMonth(m, value))
Year(value)    == m.valid /\ Becomes(set(m, "year", value))
Hour(value)    == m.valid /\ Becomes(set(m, "hour", value))
UtcOffset(offset, keepLocalTime) == Becomes(setOffset(m, offset, keepLocalTime))
ToLocal(keepLocalTime)           == Becomes(local(m, keepLocalTime))
ToUTC(keepLocalTime)             == Becomes(utc(m, keepLocalTime))

\* A call that changes the duration.
Lasts(result) == Call /\ dur' = result /\ UNCHANGED <<input, m, other>>

Between ==
  /\ mathAbs(year(m) - year(other)) <= MaxYears
  /\ Lasts(durationBetween(m, other)) /\ stale' = FALSE
Lengthen(given, dir) == Lasts(addSubtractDuration(dur, createDuration(given), dir)) /\ stale' = FALSE
Abs                  == Lasts(abs(dur)) /\ stale' = TRUE

Next ==
  \/ \E unit \in UnitsOfTime : StartOf(unit) \/ EndOf(unit)
  \/ \E value \in {1, 11} : Month(value)
  \/ Year(2021)
  \/ Hour(2)
  \/ \E keepLocalTime \in BOOLEAN :
       (\E offset \in Offsets : UtcOffset(offset, keepLocalTime))
       \/ ToLocal(keepLocalTime) \/ ToUTC(keepLocalTime)
  \/ Between
  \/ \E given \in Durations, dir \in {-1, 1} : Add(given, dir) \/ Lengthen(given, dir)
  \/ Abs

Spec == Init /\ [][Next]_vars

-----------------------------------------------------------------------------

(***************************************************************************)
(* Of a zone: no change of its clock touches midnight.  What is skipped    *)
(* starts after midnight and ends an hour before the next one, and what    *)
(* comes twice lies within a day.  The library has no words for a day that *)
(* starts at another time, so some properties hold in such zones only.     *)
(***************************************************************************)
ClockChangesWithinDays ==
  \A s \in SummerTimes :
    /\ (s[1] + StandardOffset) % MinutesPerDay \in 1 .. 22 * 60
    /\ (s[2] + StandardOffset) % MinutesPerDay \in 0 .. 23 * 60

(***************************************************************************)
(* A new moment shows the parts it was made of, or what is right after     *)
(* them: of the parts of a date and time, only a time the local zone skips *)
(* is changed, and 24:00, which is the next midnight.                      *)
(***************************************************************************)
\* A moment shows the parts that are given.
Shows(x, given) == With(toArray(x), given) = toArray(x)

PartsReadBack ==
  (calls = 0 /\ m.valid /\ DOMAIN input \subseteq DateParts) =>
    \/ Shows(m, input)
    \/ /\ isDaylightSavingTimeShifted(m, input)
       /\ Has(input, "hour")
       /\ \/ /\ input.hour = 24 /\ hour(m) = 0
             /\ Shows(add(m, -1, "day"), With(input, [hour |-> 0]))
          \/ ~m.isUTC /\ Shows(m, With(input, [hour |-> input.hour + 1]))

(***************************************************************************)
(* A date given by week and weekday has that week and weekday, in the ISO  *)
(* numbering and in that of the locale, also when it lies in the year      *)
(* before or after.                                                        *)
(***************************************************************************)
WeekDatesReadBack ==
  (calls = 0 /\ m.valid) =>
    /\ DOMAIN input = ISOFields =>
         /\ weekOf(m, ISOWeek) = [year |-> input.GG, week |-> input.W]
         /\ isoWeekday(m) = input.E
    /\ DOMAIN input = {"gg", "w", "e"} =>
         /\ weekOf(m, m.week) = [year |-> input.gg, week |-> input.w]
         /\ weekday(m) = input.e

(***************************************************************************)
(* Both: a new moment shows what it was made of.                           *)
(***************************************************************************)
InputReadsBack == PartsReadBack /\ WeekDatesReadBack

(***************************************************************************)
(* Weeks are numbered as their rule says: the first week of a year is the  *)
(* one with the rule's day of January, and a date set by its week year,    *)
(* week and weekday is that date again.                                    *)
(***************************************************************************)
StartOfWeek(d, rule) == d - ((WeekdayOf(d) - rule.dow) % 7)

IsWeekOf(d, found, rule) ==
  LET first == StartOfWeek(DayNumber(found.year, 0, 7 + rule.dow - rule.doy), rule)
      next  == StartOfWeek(DayNumber(found.year + 1, 0, 7 + rule.dow - rule.doy), rule)
  IN  /\ first <= d /\ d < next
      /\ found.week = (d - first) \div 7 + 1
      /\ weeksInYear(found.year, rule) = (next - first) \div 7

LeadsBack(found, rule) ==
  DayOf(setWeekAll(m, found.year, found.week, day(m), rule)) = DayOf(m)

WeeksAreNumbered ==
  m.valid =>
    \A rule \in {m.week, ISOWeek} :
      IsWeekOf(DayOf(m), weekOf(m, rule), rule) /\ LeadsBack(weekOf(m, rule), rule)

IsInWeek(x, week, rule) == weekOf(x, rule) = week /\ day(x) = day(m)

WeeksReadBack(now, rule) ==
  \A n \in {1, weeksInYear(now.year, rule)} :
    IsInWeek(setWeek(m, n, rule), [now EXCEPT !.week = n], rule)

WeekdaysReadBack(now, rule) ==
  \A n \in {0, 6} :
    LET x == IF rule = ISOWeek THEN setISOWeekday(m, n + 1) ELSE setWeekday(m, n) IN
      (day(x) - rule.dow) % 7 = n /\ weekOf(x, rule) = now

IsDayOfYear(x, n) == dayOfYear(x) = n /\ year(x) = year(m)

NextWeekYearReadsBack(now) ==
  IsInWeek(setISOWeekYear(m, now.year + 1),
           [year |-> now.year + 1, week |-> Lesser(now.week, weeksInYear(now.year + 1, ISOWeek))],
           ISOWeek)

(***************************************************************************)
(* What is set is read back, and nothing larger changes: a week keeps the  *)
(* weekday and the week year, a weekday the week (Sunday ends ISO weeks),  *)
(* a day of the year the year, a quarter the month's place in it, and an   *)
(* ISO week year the week, if it has that, and the weekday.                *)
(***************************************************************************)
SettersReadBack ==
  m.valid =>
    /\ \A rule \in {m.week, ISOWeek} :
         WeeksReadBack(weekOf(m, rule), rule) /\ WeekdaysReadBack(weekOf(m, rule), rule)
    /\ \A n \in {1, 365} : IsDayOfYear(setDayOfYear(m, n), n)
    /\ \A n \in 1 .. 4 :
         LET x == setQuarter(m, n) IN
           quarter(x) = n /\ month(x) % 3 = month(m) % 3 /\ year(x) = year(m)
    /\ NextWeekYearReadsBack(weekOf(m, ISOWeek))
    /\ m.week.dow = 0 =>
         weekday(setWeekYear(m, year(m) + 1)) = weekday(m)

(***************************************************************************)
(* Every unit divides time: a moment lies between the start and the end of *)
(* its unit, one minute after the end the next one starts, and the start   *)
(* and the end of both have the same start.                                *)
(***************************************************************************)
Later(x) == [x EXCEPT !.d = @ + 1]

UnitsDivideTime ==
  m.valid =>
    \A unit \in UnitsOfTime :
      LET start == startOf(m, unit)
          end   == endOf(m, unit)
      IN  /\ start.d <= m.d /\ m.d <= end.d
          /\ startOf(end, unit) = start /\ endOf(start, unit) = end
          /\ startOf(Later(end), unit) = Later(end)

(***************************************************************************)
(* A moment is before, in or after the unit of another one, and exactly    *)
(* one of these; between moments shown alike the relations are inverse.    *)
(***************************************************************************)
ComparisonsAgree ==
  (m.valid /\ other.valid) =>
    LET shown == cloneWithOffset(other, m) IN
      \A unit \in UnitsOfTime :
        LET before == isBefore(m, other, unit)
            same   == isSame(m, other, unit)
            after  == isAfter(m, other, unit)
        IN  /\ \E f \in 1 .. 3 : <<before, same, after>> = [i \in 1 .. 3 |-> i = f]
            /\ before <=> isAfter(shown, m, unit)
            /\ same <=> isSame(shown, m, unit)

(***************************************************************************)
(* Both: units cut time into pieces, and moments are compared by them.     *)
(***************************************************************************)
UnitsOrderTime == UnitsDivideTime /\ ComparisonsAgree

(***************************************************************************)
(* A difference is exact: adding its whole units does not pass the other   *)
(* moment and adding one more does, if the day of the month exists in      *)
(* every month; and the difference the other way is the opposite.  Hours   *)
(* count time; longer units count what the clock shows, so that two times  *)
(* compare as their clocks only if neither is skipped on the day it is     *)
(* compared on, nor the later of two that are shown alike.                 *)
(***************************************************************************)
IsFirst(x) == DateAt(x, Clock(x)) = x

ClockIsKept(from, to) ==
  LET months == (year(to) - year(from)) * 12 + (month(to) - month(from)) IN
    hour(add(from, months, "month")) = hour(from)

ClocksCompare(a, b) == ClockIsKept(a, b) /\ ClockIsKept(b, a) /\ IsFirst(a) /\ IsFirst(b)

AddsBack(from, n, unit, to) ==
  LET sign       == IF Since(to, from) < 0 THEN -1 ELSE 1
      full       == add(from, n, unit)
      more       == add(from, n + sign, unit)
      skipped(x) == unit = "day" /\ (hour(x) # hour(from) \/ ~IsFirst(to))
  IN  /\ sign * Since(full, to) <= 0 \/ skipped(full)
      /\ sign * Since(more, to) > 0 \/ skipped(more)

DifferencesAddBack ==
  (m.valid /\ other.valid) =>
    LET that    == cloneWithOffset(m, other)
        inMonth == date(that) <= 28 /\ date(other) <= 28
    IN  \A unit \in {"year", "month", "day", "hour"} :
          (unit \in {"day", "hour"} \/ ClocksCompare(that, other)) =>
            /\ diff(that, other, unit) = -diff(other, that, unit)
            /\ (unit \in {"day", "hour"} \/ inMonth) =>
                 AddsBack(that, diff(other, that, unit), unit, other)

(***************************************************************************)
(* The duration between two moments leads from the one to the other, with  *)
(* both of its parts in the same direction and less than a month of rest.  *)
(***************************************************************************)
LeadsThere(from, d, to) ==
  /\ SameSign({d.months, d.minutes})
  /\ mathAbs(d.minutes) <= 31 * MinutesPerDay + 60
  /\ IF Since(from, to) < 0
     THEN Since(addSubtract(from, d, 1), to) = 0
     ELSE Since(addSubtract(cloneWithOffset(to, from), d, -1), from) = 0

DurationsLeadThere ==
  (m.valid /\ other.valid) => LeadsThere(m, durationBetween(m, other), other)

(***************************************************************************)
(* Without keepLocalTime a change of the offset keeps the time, with it    *)
(* the clock.                                                              *)
(***************************************************************************)
OffsetsKeepTime ==
  m.valid =>
    \A offset \in Offsets :
      /\ valueOf(setOffset(m, offset, FALSE)) = valueOf(m)
      /\ Clock(setOffset(m, offset, TRUE)) = Clock(m)
      /\ local(setOffset(m, offset, FALSE), FALSE) = local(m, FALSE)

(***************************************************************************)
(* A moment is shown in summer time when its zone has it.                  *)
(***************************************************************************)
SummerTimeIsSeen ==
  m.valid => (isDaylightSavingTime(m) <=> ~m.isUTC /\ LocalOffset(m.d) # StandardOffset)

(***************************************************************************)
(* Both: the clock a moment shows is that of its zone.                     *)
(***************************************************************************)
ClockIsOfItsZone == OffsetsKeepTime /\ SummerTimeIsSeen

(***************************************************************************)
(* The name a calendar gives to a day is that of its distance in days, if  *)
(* the day it is seen from starts at midnight.                             *)
(***************************************************************************)
CalendarNamesTheDay ==
  (m.valid /\ other.valid) =>
    LET shown    == cloneWithOffset(other, m)
        distance == DayOf(m) - DayOf(shown)
    IN  hour(startOf(shown, "day")) = 0 => calendarFormat(m, other) =
        CASE distance \in -6 .. -2 -> "lastWeek"
          [] distance = -1         -> "lastDay"
          [] distance = 0          -> "sameDay"
          [] distance = 1          -> "nextDay"
          [] distance \in 2 .. 6   -> "nextWeek"
          [] OTHER                 -> "sameElse"

(***************************************************************************)
(* Differences in units, as durations and as names of days are all true.   *)
(***************************************************************************)
DifferencesAreTrue == DifferencesAddBack /\ DurationsLeadThere /\ CalendarNamesTheDay

(***************************************************************************)
(* What a duration shows is all of one sign and in range.  If what it      *)
(* keeps is of one sign, the two have the same minutes of the day and, at  *)
(* the average length of a month rounded up, the same days; and a text of  *)
(* it can be read back, unless its length is zero.                         *)
(***************************************************************************)
DurationsShowWhatTheyKeep ==
  LET data   == dur.data
      months == 12 * data.years + data.months
      iso    == ReadISOString(toISOString(dur))
  IN  /\ ~stale =>
           /\ SameSign({data[f] : f \in DOMAIN data})
           /\ mathAbs(data.months) < 12 /\ mathAbs(data.days) <= 30
           /\ mathAbs(data.hours) < 24 /\ mathAbs(data.minutes) < 60
           /\ SameSign({dur.months, dur.days, dur.minutes}) =>
                60 * (24 * (data.days + DaysOfMonthsCeil(months - dur.months)) + data.hours)
                  + data.minutes = dur.days * MinutesPerDay + dur.minutes
      /\ as(dur, "minute")[1] # 0 =>
           [iso EXCEPT !.data = data] = dur

(***************************************************************************)
(* A longer duration is never said to be shorter, and what is said differs *)
(* from what is meant by less than half of it.                             *)
(***************************************************************************)
MinutesIn == [second |-> 0, minute |-> 1, hour |-> 60, day |-> MinutesPerDay,
              month |-> 30 * MinutesPerDay, year |-> 365 * MinutesPerDay]
Meant(said) == said.number * MinutesIn[said.unit]
Said(d)     == Meant(relativeTime(d))

HumanizedInOrder ==
  \A given \in Durations :
    LET longer == addSubtractDuration(abs(dur), abs(createDuration(given)), 1)
        length == as(abs(dur), "minute")[1]
    IN  /\ Said(dur) <= Said(longer)
        /\ mathAbs(Said(dur) - length) <= length \div 2 + 1

(***************************************************************************)
(* Both: a duration is shown, written and said as it is.                   *)
(***************************************************************************)
DurationsAreSaidTruly == DurationsShowWhatTheyKeep /\ HumanizedInOrder

=============================================================================
