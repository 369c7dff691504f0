\* Every start day of a leap year, followed for two years and a half.
SPECIFICATION DatesSpec
CONSTANTS
  FirstYear = 2024
  LastYear = 2026
  Intervals = {0, 1, 3, 6}
  RepeatDays = {0, 1, 28, 30, 31, 45}
CHECK_DEADLOCK FALSE
INVARIANTS
  DatesTypeOK
  CommonDaysNeverDrift
PROPERTIES
  OnSchedule
