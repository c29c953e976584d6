---------------------------- MODULE MomentInput -----------------------------
(***************************************************************************)
(* How moment.js makes a moment of what was read from an array, an object  *)
(* or a text: the fields given, of which any may be missing, are completed *)
(* from the current date, checked and put together.  What the regular      *)
(* expressions read from a text is left out.                               *)
(***************************************************************************)
EXTENDS Moments

DateParts  == {"year", "month", "date", "hour", "minute"}
ISOFields  == {"GG", "W", "E"}        \* year, week and weekday of ISO weeks
WeekFields == ISOFields \cup {"gg", "w", "e", "d"}   \* and of the locale's weeks
\* "pm" is 1 for the afternoon and 0 for the morning, "tzm" an offset read.
Fields     == DateParts \cup WeekFields \cup {"dayOfYear", "pm", "tzm"}

Has(given, field)           == field \in DOMAIN given
defaults(given, field, alt) == IF Has(given, field) THEN given[field] ELSE alt
With(given, more)           == [f \in DOMAIN given \cup DOMAIN more |->
                                  IF f \in DOMAIN more THEN more[f] ELSE given[f]]

currentDate(useUTC) == (IF useUTC THEN Now ELSE Local(Now)) \div MinutesPerDay

-----------------------------------------------------------------------------
(***************************************************************************)
(* A date given by its week.                                               *)
(***************************************************************************)
CurrentWeek(rule) ==
  LET today == currentDate(FALSE) IN
    weekOfYear(YearOf(today), today - DaysBeforeYear(YearOf(today)) + 1, rule)

WeekInfo(given, rule, iso, now) ==
  LET weekYear == defaults(given, IF iso THEN "GG" ELSE "gg", defaults(given, "year", now.year))
      week     == IF iso THEN defaults(given, "W", 1) ELSE defaults(given, "w", now.week)
      wday     == IF iso THEN defaults(given, "E", 1)
                 ELSE IF Has(given, "d") THEN given.d
                 ELSE defaults(given, "e", 0) + rule.dow
      wdayIsValid == IF iso THEN wday \in 1 .. 7
                     ELSE IF Has(given, "d") THEN given.d \in 0 .. 6
                     ELSE defaults(given, "e", 0) \in 0 .. 6
  IN  [overflow |-> IF week \notin 1 .. weeksInYear(weekYear, rule) THEN "week"
                    ELSE IF ~wdayIsValid THEN "weekday" ELSE "none",
       at |-> dayOfYearFromWeeks(weekYear, week, wday, rule)]

dayOfYearFromWeekInfo(given, rule) ==
  IF DOMAIN given \cap ISOFields # {}
  THEN WeekInfo(given, ISOWeek, TRUE, CurrentWeek(ISOWeek))
  ELSE WeekInfo(given, rule, FALSE, CurrentWeek(rule))

-----------------------------------------------------------------------------
(***************************************************************************)
(* The parts of a date, completed and checked.                             *)
(***************************************************************************)
\* The hour of a text with AM or PM.
meridiemFixWrap(given) ==
  CASE Has(given, "hour") /\ Has(given, "pm") /\ given.pm = 1 /\ given.hour < 12 ->
         With(given, [hour |-> given.hour + 12])
    [] Has(given, "hour") /\ Has(given, "pm") /\ given.pm = 0 /\ given.hour = 12 ->
         With(given, [hour |-> 0])
    [] OTHER -> given

\* Up to the first part given, parts are those of the current date; the
\* others are the lowest.
Completed(given, today) ==
  [year   |-> defaults(given, "year", YearOf(today)),
   month  |-> defaults(given, "month", IF Has(given, "year") THEN 0 ELSE MonthOf(today)),
   date   |-> defaults(given, "date",
                       IF Has(given, "year") \/ Has(given, "month") THEN 1 ELSE DateOf(today)),
   hour   |-> defaults(given, "hour", 0),
   minute |-> defaults(given, "minute", 0)]

\* 24:00 is the only time of the 24th hour.
checkOverflow(a) ==
  IF a.month \notin 0 .. 11 THEN "month"
  ELSE IF a.date \notin 1 .. daysInMonth(a.year, a.month) THEN "date"
  ELSE IF a.hour \notin 0 .. 24 \/ (a.hour = 24 /\ a.minute # 0) THEN "hour"
  ELSE IF a.minute \notin 0 .. 59 THEN "minute"
  ELSE "none"

\* A week date is made a day of the year, and that a month and a date.
ByWeek(given) ==
  DOMAIN given \cap WeekFields # {} /\ ~Has(given, "date") /\ ~Has(given, "month")

WithDayOfYear(given, info) ==
  IF ByWeek(given) /\ info.overflow = "none"
  THEN With(given, [year |-> info.at.year, dayOfYear |-> info.at.dayOfYear])
  ELSE given

WithMonthAndDate(given, yearToUse) ==
  LET found == createUTCDate(yearToUse, 0, given.dayOfYear) IN
    IF Has(given, "dayOfYear")
    THEN With(given, [month |-> MonthOf(found), date |-> DateOf(found)])
    ELSE given

NoSuchDay(given, yearToUse) ==
  Has(given, "dayOfYear") /\ (given.dayOfYear > daysInYear(yearToUse) \/ given.dayOfYear = 0)

\* Which of the parts is wrong, the first of all that are.
getOverflow(overflow, noSuchDay, inWeeks) ==
  IF noSuchDay /\ overflow \notin {"month", "date"} THEN "date"
  ELSE IF overflow = "none" THEN inWeeks
  ELSE overflow

PartsAndOverflow(given, info, today) ==
  LET dated     == WithDayOfYear(given, info)
      yearToUse == defaults(dated, "year", YearOf(today))
      a         == Completed(WithMonthAndDate(dated, yearToUse), today)
  IN  [a        |-> a,
       overflow |-> getOverflow(checkOverflow(a), NoSuchDay(dated, yearToUse),
                                IF ByWeek(given) THEN info.overflow ELSE "none")]

configFromArray(given, rule, useUTC) ==
  PartsAndOverflow(given, dayOfYearFromWeekInfo(given, rule), currentDate(useUTC))

-----------------------------------------------------------------------------
(***************************************************************************)
(* createLocal and createUTC.                                              *)
(***************************************************************************)
\* The clock of the parts, the midnight before if it is 24:00.
ClockOf(a) ==
  createUTCDate(a.year, a.month, a.date) * MinutesPerDay
    + (IF a.hour = 24 /\ a.minute = 0 THEN 0 ELSE a.hour * 60 + a.minute)

UsesUTC(given, isUTC) == isUTC \/ Has(given, "tzm")

createFromConfig(given, config, rule, isUTC) ==
  LET clock    == ClockOf(config.a)
      mismatch == Has(given, "d") /\ given.d # WeekdayOf(clock \div MinutesPerDay)
      isValid  == /\ config.overflow = "none" /\ ~mismatch
                  /\ Has(given, "pm") => DOMAIN given \cap DateParts # {}
      time     == (IF UsesUTC(given, isUTC) THEN clock ELSE FromLocal(clock)) - defaults(given, "tzm", 0)
      res      == [valid |-> isValid, d |-> IF isValid THEN time ELSE 0,
                   isUTC |-> isUTC, offset |-> 0, week |-> rule]
  IN  IF config.a.hour = 24 THEN add(res, 1, "day") ELSE res

createLocalOrUTC(input, rule, isUTC) ==
  LET given == meridiemFixWrap(input) IN
    createFromConfig(given, configFromArray(given, rule, UsesUTC(given, isUTC)), rule, isUTC)

\* The parts a moment shows.
toArray(m) ==
  [year |-> year(m), month |-> month(m), date |-> date(m), hour |-> hour(m), minute |-> minute(m)]

\* What was given is not what it shows: a clock time the local zone skips.
IsShownOtherwise(a, rule, isUTC) == toArray(createLocalOrUTC(a, rule, isUTC)) # a

isDaylightSavingTimeShifted(m, input) ==
  /\ m.valid
  /\ IsShownOtherwise(configFromArray(meridiemFixWrap(input), m.week, m.isUTC).a, m.week, m.isUTC)
=============================================================================
