\* A sweep of one schedule, enabled again with earlier dates before it is advanced.
SPECIFICATION Spec
CONSTANTS
  Schedules = {s1}
  Jobs = {j1}
  Runs = {}
  Requests = {}
  MaxDate = 3
  Steps = {1, 2}
  PayDates = {0}
CHECK_DEADLOCK FALSE
INVARIANTS
  EnabledDatesKept
