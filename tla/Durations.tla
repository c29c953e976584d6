----------------------------- MODULE Durations ------------------------------
(***************************************************************************)
(* The durations of moment.js.  A duration keeps months, days and          *)
(* milliseconds apart, because months and days differ in length, and       *)
(* beside them the same length as a reader says it, bubbled up to years,   *)
(* months, days, hours and so on.                                          *)
(*                                                                         *)
(* Time is counted in minutes, so that milliseconds are minutes here and   *)
(* seconds only appear as multiples of 60.  A month is 146097 / 4800 days, *)
(* which is 48699 / 1600.                                                  *)
(***************************************************************************)
EXTENDS Calendar

MinutesPerDay == 1440

\* What a caller may give; any unit may be missing.
Units == {"year", "quarter", "month", "week", "day", "hour", "minute"}
Amount(given, unit) == IF unit \in DOMAIN given THEN given[unit] ELSE 0

Data     == [years : Int, months : Int, days : Int, hours : Int, minutes : Int]
Duration == [months : Int, days : Int, minutes : Int, data : Data]

-----------------------------------------------------------------------------
MonthsOfDays(days)         == absFloor(days * 1600, 48699)
DaysOfMonthsCeil(months)   == absCeil(months * 48699, 1600)
Rounded(num, den)          == num \div den + (IF 2 * (num % den) >= den THEN 1 ELSE 0)   \* Math.round

\* Mutant: the days of the months are rounded down.
BubbleUpRoughly(months, days, minutes) ==
  LET hours      == absFloor(minutes, 60)
      allDays    == days + absFloor(hours, 24)
      fromDays   == MonthsOfDays(allDays)
      allMonths  == months + fromDays
      years      == absFloor(allMonths, 12)
  IN  [years |-> years, months |-> allMonths - 12 * years,
       days |-> allDays - absFloor(fromDays * 48699, 1600),
       hours |-> hours - 24 * absFloor(hours, 24), minutes |-> minutes - 60 * hours]

BubbleUp(months, days, minutes) ==
  LET hours      == absFloor(minutes, 60)
      allDays    == days + absFloor(hours, 24)
      fromDays   == MonthsOfDays(allDays)
      allMonths  == months + fromDays
      years      == absFloor(allMonths, 12)
  IN  [years |-> years, months |-> allMonths - 12 * years,
       days |-> allDays - DaysOfMonthsCeil(fromDays),
       hours |-> hours - 24 * absFloor(hours, 24), minutes |-> minutes - 60 * hours]

SameSign(S) == (\A n \in S : n >= 0) \/ (\A n \in S : n <= 0)

\* Amounts of both signs are first bubbled down to minutes.
Bubble(months, days, minutes) ==
  IF SameSign({months, days, minutes})
  THEN BubbleUp(months, days, minutes)
  ELSE BubbleUp(0, 0, minutes + absCeil(months * 48699 + days * 1600, 1600) * MinutesPerDay)

Bubbled(months, days, minutes) ==
  [months |-> months, days |-> days, minutes |-> minutes,
   data |-> Bubble(months, days, minutes)]

\* What is kept of the amounts given.
Kept(given) ==
  [months  |-> Amount(given, "month") + Amount(given, "quarter") * 3 + Amount(given, "year") * 12,
   days    |-> Amount(given, "day") + Amount(given, "week") * 7,
   minutes |-> Amount(given, "minute") + Amount(given, "hour") * 60]

createDuration(given) ==
  LET kept == Kept(given) IN Bubbled(kept.months, kept.days, kept.minutes)

addSubtractDuration(duration, other, direction) ==
  Bubbled(duration.months + direction * other.months,
          duration.days + direction * other.days,
          duration.minutes + direction * other.minutes)

mathAbs(n) == IF n < 0 THEN -n ELSE n

\* The days a reader sees keep their sign.
abs(duration) ==
  [months |-> mathAbs(duration.months), days |-> mathAbs(duration.days),
   minutes |-> mathAbs(duration.minutes),
   data |-> [f \in DOMAIN duration.data |->
               IF f = "days" THEN duration.data.days ELSE mathAbs(duration.data[f])]]

-----------------------------------------------------------------------------
(***************************************************************************)
(* How long a duration is, in a unit, as a fraction.                       *)
(***************************************************************************)
MonthsAs(duration, denominator) ==
  \* 4800 / (146097 * 1440) is 10 / 438291
  <<duration.months * 438291 + 10 * (duration.days * MinutesPerDay + duration.minutes),
    438291 * denominator>>

DaysAs(duration, denominator) ==
  <<(duration.days + Rounded(duration.months * 48699, 1600)) * MinutesPerDay + duration.minutes,
    denominator>>

as(duration, unit) ==
  CASE unit = "month"   -> MonthsAs(duration, 1)
    [] unit = "quarter" -> MonthsAs(duration, 3)
    [] unit = "year"    -> MonthsAs(duration, 12)
    [] unit = "week"    -> DaysAs(duration, 7 * MinutesPerDay)
    [] unit = "day"     -> DaysAs(duration, MinutesPerDay)
    [] unit = "hour"    -> DaysAs(duration, 60)
    [] unit = "minute"  -> DaysAs(duration, 1)

\* Math.round of what as returns.
Round(duration, unit) == Rounded(as(duration, unit)[1], as(duration, unit)[2])

-----------------------------------------------------------------------------
(***************************************************************************)
(* How a duration is said.                                                 *)
(***************************************************************************)
\* Of a unit, the amount from which the next one is used.  The page sets no
\* threshold for weeks, so that these are not used.
Thresholds == [m |-> 45, h |-> 22, d |-> 26, M |-> 11]

\* The first unit whose threshold is not reached; "an hour" is one, however
\* little it is less.
LargestFitting(n) ==
  LET unit == IF n.minute = 0 THEN "second"
              ELSE IF n.minute < Thresholds.m THEN "minute"
              ELSE IF n.hour < Thresholds.h   THEN "hour"
              ELSE IF n.day < Thresholds.d    THEN "day"
              ELSE IF n.month < Thresholds.M  THEN "month"
              ELSE "year"
  IN  [unit |-> unit, number |-> IF unit = "second" THEN 0 ELSE IF n[unit] < 1 THEN 1 ELSE n[unit]]

RoundedTo(duration) ==
  [unit \in {"minute", "hour", "day", "month", "year"} |-> Round(duration, unit)]

relativeTime(posNegDuration) == LargestFitting(RoundedTo(abs(posNegDuration)))

-----------------------------------------------------------------------------
(***************************************************************************)
(* The ISO 8601 form.  Minutes are bubbled up to hours and months to       *)
(* years, days are left alone.  A part of another sign than the whole has  *)
(* a minus of its own.                                                     *)
(***************************************************************************)
SignOf(n) == IF n > 0 THEN 1 ELSE IF n < 0 THEN -1 ELSE 0

toISOString(duration) ==
  LET total   == as(duration, "minute")[1]
      months  == mathAbs(duration.months)
      minutes == mathAbs(duration.minutes)
      own(n)  == IF SignOf(n) # SignOf(total) THEN -1 ELSE 1
  IN  IF total = 0
      THEN [sign |-> 1, parts |-> [day |-> 0]]
      ELSE [sign  |-> SignOf(total),
            parts |-> [year   |-> own(duration.months) * (months \div 12),
                       month  |-> own(duration.months) * (months % 12),
                       day    |-> own(duration.days) * mathAbs(duration.days),
                       hour   |-> own(duration.minutes) * (minutes \div 60),
                       minute |-> own(duration.minutes) * (minutes % 60)]]

\* parseIso applies the sign of the whole to every part.
ReadISOString(iso) ==
  createDuration([unit \in DOMAIN iso.parts |-> iso.parts[unit] * iso.sign])
=============================================================================
