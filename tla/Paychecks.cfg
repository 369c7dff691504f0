\* Two handlers at once on two paychecks of two employees, wages below and above the wage base.
SPECIFICATION ChecksSpec
CONSTANTS
  Paychecks = {p1, p2}
  Employees = {e1, e2}
  CheckDates = {d1, d2}
  Wages = {1, 3}
  WageCap = 2
  Handlers = {r1, r2}
  MaxEntries = 2
SYMMETRY Symmetry
CHECK_DEADLOCK FALSE
INVARIANTS
  ChecksTypeOK
  ChecksStayApart
  WageCapHolds
  LedgerFollowsChecks
