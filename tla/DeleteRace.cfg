\* Two handlers at once: a payment is recorded on the invoice being deleted.
SPECIFICATION Spec
CONSTANTS
  Invoices = {i1}
  Payments = {p1, p2}
  Sessions = {s1}
  Keys = {}
  Requests = {r1, r2}
  Crons = {}
  MaxAmount = 2
  MaxWriteOff = 0
  OpeningPaid = {0}
  Deposits = {0}
  OpeningStatuses = {""}
  FormStatuses = {""}
  Origins = {"invoice"}
  NoInvoice = NoInvoice
  NoSubmission = NoSubmission
  NoSession = NoSession
CHECK_DEADLOCK FALSE
INVARIANTS
  NoOrphanedPayment
