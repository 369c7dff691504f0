\* One handler at a time: every creation path but estimates, every status a form can send.
SPECIFICATION SerialSpec
CONSTANTS
  Invoices = {i1}
  Payments = {p1, p2}
  Sessions = {s1}
  Keys = {k1}
  Requests = {r1}
  Crons = {}
  MaxAmount = 3
  MaxWriteOff = 0
  OpeningPaid = {0, 1}
  Deposits = {0}
  OpeningStatuses = {"", "Unpaid", "Partial", "Paid"}
  FormStatuses = {"", "Unpaid", "Open", "Partial", "Paid", "Void"}
  Origins = {"invoice", "receipt"}
  NoInvoice = NoInvoice
  NoSubmission = NoSubmission
  NoSession = NoSession
CHECK_DEADLOCK FALSE
INVARIANTS
  BalanceFollowsPayments
  ReceivableTiesToInvoice
PROPERTIES
  VoidSticks
