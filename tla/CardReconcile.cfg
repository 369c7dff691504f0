\* The reconciliation job beside one other handler; two checkout sessions.
SPECIFICATION FairSpec
CONSTANTS
  Invoices = {i1}
  Payments = {p1, p2}
  Sessions = {s1, s2}
  Keys = {}
  Requests = {r1}
  Crons = {c1}
  MaxAmount = 2
  MaxWriteOff = 2
  OpeningPaid = {0}
  Deposits = {0}
  OpeningStatuses = {""}
  FormStatuses = {""}
  Origins = {"invoice", "receipt", "estimate"}
  NoInvoice = NoInvoice
  NoSubmission = NoSubmission
  NoSession = NoSession
CHECK_DEADLOCK FALSE
PROPERTIES
  RememberedChargeSettles
