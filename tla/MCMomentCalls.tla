--------------------------- MODULE MCMomentCalls ----------------------------
(***************************************************************************)
(* A page in central Europe: months of all lengths, the ends of a leap     *)
(* year and of one before the year 100, and both changes of the clock.     *)
(***************************************************************************)
EXTENDS MomentCalls

MCStandardOffset == 60

\* Summer time from one hour to another, both in UTC, of the given days.
Summer(from, to) == <<from * MinutesPerDay + 60, to * MinutesPerDay + 60>>

MCSummerTimes ==
  { Summer(DayNumber(2019, 2, 31), DayNumber(2019, 9, 27)),
    Summer(DayNumber(2020, 2, 29), DayNumber(2020, 9, 25)),
    Summer(DayNumber(2021, 2, 28), DayNumber(2021, 9, 31)) }

\* The theorems about units and setters suppose this of a zone.
ASSUME MCClockChanges == ClockChangesWithinDays

MCNow == DayNumber(2020, 11, 31) * MinutesPerDay + 23 * 60 + 30

At(y, mon, dt, h, min) == [year |-> y, month |-> mon, date |-> dt, hour |-> h, minute |-> min]

MCOtherInputs == { At(2020, 2, 29, 3, 30), At(2021, 0, 1, 0, 0) }

MCInputs ==
  MCOtherInputs \cup
  { At(2020, 1, 29, 12, 0), At(2020, 9, 25, 2, 0), At(2019, 11, 31, 23, 59),
    At(2021, 1, 29, 0, 0), At(2020, 2, 29, 2, 30),
    At(2020, 9, 25, 24, 0), At(2020, 12, 1, 0, 0), At(2020, 5, 30, 24, 1), At(2020, 5, 31, 0, 60),
    At(99, 11, 31, 12, 0), At(0, 1, 29, 0, 0) } \cup
  { [month |-> 1], [date |-> 31], [hour |-> 12, pm |-> 0], [pm |-> 1],
    [year |-> 2020, dayOfYear |-> 366], [year |-> 2021, dayOfYear |-> 366],
    [year |-> 2021, month |-> 0, date |-> 1, d |-> 5], [year |-> 2021, month |-> 0, date |-> 1, d |-> 4],
    [year |-> 2020, month |-> 0, hour |-> 1, tzm |-> 120],
    [GG |-> 2020, W |-> 53, E |-> 7], [GG |-> 2021, W |-> 53, E |-> 1], [GG |-> 2020, W |-> 1, E |-> 1],
    [GG |-> 2021, W |-> 1, E |-> 8],
    [gg |-> 2020, w |-> 53, e |-> 6], [gg |-> 2021, w |-> 2, d |-> 0] }

MCWeekRules == { [dow |-> 0, doy |-> 6], [dow |-> 6, doy |-> 12] }

MCDurations ==
  { [month |-> 1, day |-> -1], [day |-> 1, hour |-> -24], [year |-> 1, week |-> 9, minute |-> 45] }

MCOffsets == {-2, 90}
=============================================================================
