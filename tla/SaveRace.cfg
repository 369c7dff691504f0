\* A sweep of one schedule, saved with earlier dates before it is advanced.
SPECIFICATION Spec
CONSTANTS
  Schedules = {s1}
  Jobs = {j1}
  Runs = {}
  Requests = {}
  MaxDate = 3
  Steps = {1, 2}
  MaxChanges = 2
  EndDates = {NoEnd}
  NoEnd = NoEnd
  NoSchedule = NoSchedule
CHECK_DEADLOCK FALSE
INVARIANTS
  SavedDatesKept
