\* Two staff or share-link handlers at once on one invoice.
SPECIFICATION Spec
CONSTANTS
  Invoices = {i1}
  Payments = {p1, p2}
  Sessions = {s1}
  Keys = {k1}
  Requests = {r1, r2}
  Crons = {}
  MaxAmount = 2
  MaxWriteOff = 0
  OpeningPaid = {0}
  Deposits = {0}
  OpeningStatuses = {""}
  FormStatuses = {"", "Unpaid"}
  Origins = {"invoice"}
  NoInvoice = NoInvoice
  NoSubmission = NoSubmission
  NoSession = NoSession
SYMMETRY Interchangeable
CHECK_DEADLOCK FALSE
INVARIANTS
  OnePaymentPerSubmission
  OneRecordPerCharge
  LedgerFollowsPayments
  CashTiesToAmountPaid
  AmountPaidIsActivePayments
