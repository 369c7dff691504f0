\* The job, "Run Recurring Billing" and one other request on one schedule; the
\* job must move a due date on whatever overlaps it.
SPECIFICATION FairSpec
CONSTANTS
  Schedules = {s1}
  Jobs = {j1}
  Runs = {u1}
  Requests = {r1}
  MaxDate = 2
  Steps = {1, 2}
  MaxChanges = 2
  EndDates = {NoEnd, 1}
  NoEnd = NoEnd
  NoSchedule = NoSchedule
CHECK_DEADLOCK FALSE
INVARIANTS
  NoDateLost
PROPERTIES
  OneInvoicePerDate
  DueMovesOn
