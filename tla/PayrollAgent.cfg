\* The job and "Run Agent Now" on one schedule; two approvals or dismissals at once.
SPECIFICATION Spec
CONSTANTS
  Schedules = {s1}
  Jobs = {j1}
  Runs = {u1}
  Requests = {r1, r2}
  MaxDate = 2
  Steps = {1, 2}
  PayDates = {0}
SYMMETRY AnySlot
CHECK_DEADLOCK FALSE
INVARIANTS
  OnePaycheckPerDraft
  NoPayDateLost
PROPERTIES
  DismissalStands
