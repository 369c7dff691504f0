\* One approval, interrupted after its claim.
SPECIFICATION Spec
CONSTANTS
  Schedules = {s1}
  Jobs = {j1}
  Runs = {}
  Requests = {r1}
  MaxDate = 1
  Steps = {1}
  PayDates = {0}
CHECK_DEADLOCK FALSE
INVARIANTS
  NoStrandedClaim
