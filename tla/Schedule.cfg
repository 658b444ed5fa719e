SPECIFICATION ScheduleSpec
CONSTANTS
  Rules <- SomeRules
  Minute = 3
  Hour = 4
  Day = 3
  MaxIters = 7
  Periods = {1, 2}
  LongestMove = 4
  Steps = {2, 5, 9}
  MaxSteps = 2
  MaxLocal = 50
INVARIANTS
  FiredOnce
  WaterFollowsSchedule
