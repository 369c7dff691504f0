\* A sweep, "Use Now" and a skip of the following date.
SPECIFICATION Spec
CONSTANTS
  Schedules = {s1}
  Jobs = {j1}
  Runs = {}
  Requests = {r1}
  MaxDate = 3
  Steps = {1}
  MaxChanges = 1
  EndDates = {NoEnd}
  NoEnd = NoEnd
  NoSchedule = NoSchedule
CHECK_DEADLOCK FALSE
INVARIANTS
  SkipSticks
