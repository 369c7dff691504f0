\* As CardReconcile: a charge that is never recorded.
SPECIFICATION FairSerialSpec
CONSTANTS
  Invoices = {i1}
  Payments = {p1, p2}
  Sessions = {s1}
  Keys = {}
  Requests = {r1}
  Crons = {c1}
  MaxAmount = 1
  MaxWriteOff = 0
  OpeningPaid = {0}
  Deposits = {0}
  OpeningStatuses = {""}
  FormStatuses = {""}
  Origins = {"invoice"}
  NoInvoice = NoInvoice
  NoSubmission = NoSubmission
  NoSession = NoSession
CHECK_DEADLOCK FALSE
PROPERTIES
  ChargeIsRecorded
