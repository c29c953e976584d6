SPECIFICATION Spec
CONSTANTS
  StandardOffset <- MCStandardOffset
  SummerTimes    <- MCSummerTimes
  Now            <- MCNow
  Inputs         <- MCInputs
  OtherInputs    <- MCOtherInputs
  WeekRules      <- MCWeekRules
  Durations      <- MCDurations
  Offsets        <- MCOffsets
  MaxCalls       = 1
  MaxYears       = 5
CHECK_DEADLOCK FALSE
INVARIANTS
  InputReadsBack
  WeeksAreNumbered
  SettersReadBack
  UnitsOrderTime
  DifferencesAreTrue
  ClockIsOfItsZone
  DurationsAreSaidTruly
