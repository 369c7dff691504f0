\* One handler at a time, with a deposit on the invoice.
SPECIFICATION SerialSpec
CONSTANTS
  Invoices = {i1}
  Payments = {p1, p2}
  Sessions = {s1}
  Keys = {}
  Requests = {r1}
  Crons = {}
  MaxAmount = 2
  MaxWriteOff = 0
  OpeningPaid = {0}
  Deposits = {0, 1}
  OpeningStatuses = {""}
  FormStatuses = {""}
  Origins = {"invoice"}
  NoInvoice = NoInvoice
  NoSubmission = NoSubmission
  NoSession = NoSession
CHECK_DEADLOCK FALSE
INVARIANTS
  BalanceCountsDeposit
