SPECIFICATION ScheduleSpec
CONSTANTS
  Years <- SmallYears
  Runs <- SmallRuns
INVARIANTS
  SessionFlags
  CountsTradingTime
  HolidayRules
CHECK_DEADLOCK FALSE
