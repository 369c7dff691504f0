-------------------------- MODULE InvoiceLedgerProofs --------------------------
(***************************************************************************)
(* Proofs about InvoiceLedger for any number of invoices, payments,        *)
(* handlers and keys.                                                      *)
(***************************************************************************)
EXTENDS InvoiceLedger, SetSums, TLAPS

-----------------------------------------------------------------------------
(***************************************************************************)
(* The rows the handlers write are rows.                                   *)
(***************************************************************************)
LEMMA AtLeast0Type == \A n \in Int : AtLeast0(n) \in Nat /\ AtLeast0(n) >= n
  BY DEF AtLeast0

LEMMA StatusForType ==
  \A b, n : StatusFor(b, n) \in {"Paid", "Partial", "Unpaid"}
  BY DEF StatusFor

\* The fields of a row.
LEMMA RowFields ==
  ASSUME NEW row \in InvoiceRow
  PROVE  /\ row.status \in InvoiceStatus
         /\ row.total \in Nat /\ row.paid \in Nat /\ row.deposit \in Nat
         /\ row.balance \in Int
         /\ row.session \in Sessions \cup {NoSession}
  BY DEF InvoiceRow

LEMMA RepaidType ==
  ASSUME NEW row \in InvoiceRow, NEW total \in Nat, NEW paid \in Nat
  PROVE  Repaid(row, total, paid) \in InvoiceRow
<1> DEFINE balance == AtLeast0(total - paid)
           status == StatusFor(balance, paid)
<1>1. balance \in Int
  BY AtLeast0Type
<1>2. status \in InvoiceStatus
  BY StatusForType DEF InvoiceStatus
<1>3. Repaid(row, total, paid)
        = [row EXCEPT !.paid = paid, !.balance = balance, !.status = status]
  BY DEF Repaid
<1> HIDE DEF balance, status
<1> QED
  BY <1>1, <1>2, <1>3 DEF InvoiceRow

\* What staff enter on a form is a number, and its status one an invoice may have.
LEMMA FormTypes ==
  /\ \A total \in Amounts : total \in Nat
  /\ \A deposit \in Deposits \cup OpeningPaid : deposit \in Nat
  /\ \A form \in FormStatuses \cup OpeningStatuses :
       form # "" => form \in InvoiceStatus
<1> MaxAmount \in Nat
  BY AmountsAssumption
<1>1. \A total \in Amounts : total \in Nat
  BY DEF Amounts
<1>2. \A deposit \in Deposits \cup OpeningPaid : deposit \in Nat
  BY AmountsAssumption
<1>3. \A form \in FormStatuses \cup OpeningStatuses :
        form # "" => form \in InvoiceStatus
  BY AmountsAssumption DEF InvoiceStatus
<1> QED
  BY <1>1, <1>2, <1>3

LEMMA EditedType ==
  ASSUME NEW row \in InvoiceRow, NEW total \in Amounts, NEW deposit \in Deposits,
         NEW form \in FormStatuses
  PROVE  Edited(row, total, deposit, form) \in InvoiceRow
<1> DEFINE derived == AtLeast0(total - row.paid - deposit)
           paid == CASE form = "Paid" -> total
                     [] form \in {"Unpaid", "Open", "Void"} -> 0
                     [] OTHER -> row.paid
           balance == CASE form \in {"Paid", "Void"} -> 0
                        [] form \in {"Unpaid", "Open"} -> total
                        [] form = "Partial" -> total - row.paid
                        [] OTHER -> derived
           status == IF form = "" THEN row.status ELSE form
<1>1. total \in Nat /\ deposit \in Nat
  BY FormTypes
<1>2. row.paid \in Nat /\ row.status \in InvoiceStatus
  BY RowFields
<1>3. derived \in Int
  BY <1>1, <1>2, AtLeast0Type
<1>4. status \in InvoiceStatus
  BY <1>2, FormTypes
<1> HIDE DEF derived
<1>5. paid \in Nat
  BY <1>1, <1>2
<1>6. balance \in Int
  BY <1>1, <1>2, <1>3
<1>7. Edited(row, total, deposit, form)
        = [row EXCEPT !.total = total, !.deposit = deposit, !.paid = paid,
                      !.balance = balance, !.status = status]
  BY DEF Edited, InvoiceRow, derived
<1> HIDE DEF paid, balance, status
<1> QED
  BY <1>1, <1>4, <1>5, <1>6, <1>7 DEF InvoiceRow

LEMMA NoRowType == \A status \in InvoiceStatus : NoRow(status) \in InvoiceRow
  BY DEF NoRow, InvoiceRow

-----------------------------------------------------------------------------
LEMMA InitType == Init => TypeOK
  BY NoRowType DEF Init, TypeOK, InvoiceStatus, NoPayment, PaymentRow,
     StripeSession, History, Request

\* A request in flight has the fields its op says.
LEMMA RequestFields ==
  ASSUME NEW q \in Request
  PROVE  /\ q.op = "payment" => q \in PaymentReq
         /\ q.op = "reverse" => q \in ReverseReq
         /\ q.op = "edit" => q \in EditReq
         /\ q.op = "delete" => q \in DeleteReq
         /\ q.op = "checkout" => q \in CheckoutReq
         /\ q.op = "settle" => q \in SettleReq
  BY DEF Request, Idle, PaymentReq, ReverseReq, EditReq, DeleteReq,
     CheckoutReq, SettleReq

LEMMA PostType ==
  ASSUME TypeOK, NEW i \in Invoices, NEW delta \in Int, NEW received \in Int,
         Post(i, delta, received)
  PROVE  /\ ar' \in [Invoices -> Int]
         /\ revenue' \in [Invoices -> Int]
         /\ cash' \in [Invoices -> Int]
  BY DEF TypeOK, Post

LEMMA PostOfType ==
  ASSUME TypeOK, NEW p \in Payments, NEW received \in Int, PostOf(p, received)
  PROVE  cashOf' \in [Payments -> Int]
  BY DEF TypeOK, PostOf

LEMMA DoneType ==
  ASSUME TypeOK, NEW r \in Slots, Done(r)
  PROVE  req' \in [Slots -> Request]
  BY DEF TypeOK, Done, Request

\* Handlers that only took a slot, or answered without writing.
LEMMA SlotOnlyType ==
  ASSUME TypeOK, NEW r \in Slots, NEW q \in Request,
         req' = [req EXCEPT ![r] = q], UNCHANGED tables
  PROVE  TypeOK'
  BY DEF TypeOK, tables, ledger

LEMMA AnswerType ==
  ASSUME TypeOK, NEW r \in Slots, Done(r), UNCHANGED tables
  PROVE  TypeOK'
  BY SlotOnlyType DEF Done, Request

-----------------------------------------------------------------------------
(***************************************************************************)
(* Type correctness, handler by handler                                    *)
(***************************************************************************)
LEMMA CreateInvoiceType ==
  ASSUME TypeOK, NEW i \in Invoices, NEW total \in Amounts,
         NEW paid \in OpeningPaid, NEW deposit \in Deposits,
         NEW form \in OpeningStatuses,
         CreateInvoice(i, total, paid, deposit, form)
  PROVE  TypeOK'
<1> DEFINE balance == AtLeast0(total - paid - deposit)
           status == IF form = "" THEN StatusFor(balance, paid + deposit) ELSE form
           row == [status |-> status, total |-> total, paid |-> paid,
                   deposit |-> deposit, balance |-> balance, session |-> NoSession]
<1>1. total \in Nat /\ paid \in Nat /\ deposit \in Nat
  BY FormTypes
<1>2. balance \in Int
  BY <1>1, AtLeast0Type
<1>3. status \in InvoiceStatus
  BY StatusForType, FormTypes DEF InvoiceStatus
<1>4. /\ inv' = [inv EXCEPT ![i] = row]
      /\ Post(i, total, paid + deposit)
      /\ hist' = [hist EXCEPT ![i] = [@ EXCEPT !.paidIn = paid, !.cashIn = paid + deposit]]
      /\ UNCHANGED <<pay, idem, cashOf, stripe, req>>
  BY DEF CreateInvoice
<1> HIDE DEF balance, status
<1>5. row \in InvoiceRow
  BY <1>1, <1>2, <1>3 DEF InvoiceRow
<1>6. inv' \in [Invoices -> InvoiceRow]
  BY <1>4, <1>5 DEF TypeOK
<1>7. hist' \in [Invoices -> History]
  <2> DEFINE cashIn == paid + deposit
  <2>0. hist[i] \in History /\ cashIn \in Nat
    BY <1>1 DEF TypeOK
  <2> HIDE DEF cashIn
  <2>1. [hist[i] EXCEPT !.paidIn = paid, !.cashIn = cashIn] \in History
    BY <1>1, <2>0 DEF History
  <2> USE DEF cashIn
  <2> QED
    BY <1>4, <2>1 DEF TypeOK
<1>8. ar' \in [Invoices -> Int] /\ revenue' \in [Invoices -> Int]
        /\ cash' \in [Invoices -> Int]
  <2>1. total \in Int /\ paid + deposit \in Int
    BY <1>1
  <2> QED
    BY <1>4, <2>1, PostType
<1> QED
  BY <1>4, <1>6, <1>7, <1>8 DEF TypeOK

LEMMA SalesReceiptType ==
  ASSUME TypeOK, NEW i \in Invoices, NEW p \in Payments, NEW amount \in Amounts,
         NEW submission \in Submissions("receipt") \cup {NoSubmission},
         SalesReceipt(i, p, amount, submission)
  PROVE  TypeOK'
<1> DEFINE row == [status |-> "Paid", total |-> amount, paid |-> amount,
                   deposit |-> 0, balance |-> 0, session |-> NoSession]
           new == [status |-> "Active", inv |-> i, amount |-> amount,
                   submission |-> submission, session |-> NoSession]
<1>1. amount \in Nat
  BY FormTypes
<1>2. submission \in Submission \cup {NoSubmission}
  BY DEF Submissions, Submission
<1>3. /\ inv' = [inv EXCEPT ![i] = row]
      /\ pay' = [pay EXCEPT ![p] = new]
      /\ idem' = idem \cup ({submission} \ {NoSubmission})
      /\ Post(i, amount, amount)
      /\ PostOf(p, amount)
      /\ UNCHANGED <<stripe, req, hist>>
  BY DEF SalesReceipt
<1>4. row \in InvoiceRow
  BY <1>1 DEF InvoiceRow, InvoiceStatus
<1>5. new \in PaymentRow
  BY <1>1, <1>2 DEF PaymentRow
<1> HIDE DEF row, new
<1>6. inv' \in [Invoices -> InvoiceRow] /\ pay' \in [Payments -> PaymentRow]
  BY <1>3, <1>4, <1>5 DEF TypeOK
<1>7. idem' \subseteq Submission
  BY <1>2, <1>3 DEF TypeOK
<1>8. ar' \in [Invoices -> Int] /\ revenue' \in [Invoices -> Int]
        /\ cash' \in [Invoices -> Int] /\ cashOf' \in [Payments -> Int]
  BY <1>1, <1>3, PostType, PostOfType
<1> QED
  BY <1>3, <1>6, <1>7, <1>8 DEF TypeOK

LEMMA ConvertEstimateType ==
  ASSUME TypeOK, NEW i \in Invoices, NEW total \in Amounts,
         NEW deposit \in Deposits, ConvertEstimate(i, total, deposit)
  PROVE  TypeOK'
<1> DEFINE status == IF total - deposit > 0 THEN "Open" ELSE "Paid"
           row == [status |-> status, total |-> total, paid |-> deposit,
                   deposit |-> deposit, balance |-> total - deposit,
                   session |-> NoSession]
<1>1. total \in Nat /\ deposit \in Nat
  BY FormTypes
<1>2. status \in InvoiceStatus
  BY DEF InvoiceStatus
<1>3. /\ inv' = [inv EXCEPT ![i] = row]
      /\ hist' = [hist EXCEPT ![i].paidIn = deposit]
      /\ UNCHANGED <<pay, idem, ledger, stripe, req>>
  BY DEF ConvertEstimate
<1> HIDE DEF status
<1>4. row \in InvoiceRow
  BY <1>1, <1>2 DEF InvoiceRow
<1>5. inv' \in [Invoices -> InvoiceRow]
  BY <1>3, <1>4 DEF TypeOK
<1>6. hist' \in [Invoices -> History]
  BY <1>1, <1>3 DEF TypeOK, History
<1> QED
  BY <1>3, <1>5, <1>6 DEF TypeOK, ledger

LEMMA PaymentBeginType ==
  ASSUME TypeOK, NEW r \in Slots, NEW i \in Invoices, NEW amount \in Amounts,
         NEW submission \in Submissions("payment") \cup {NoSubmission},
         PaymentBegin(r, i, amount, submission)
  PROVE  TypeOK'
<1> DEFINE q == [op |-> "payment", inv |-> i, amount |-> amount,
                 total |-> inv[i].total, submission |-> submission]
<1>1. amount \in Nat /\ inv[i].total \in Nat
  BY FormTypes, RowFields DEF TypeOK
<1>2. submission \in Submission \cup {NoSubmission}
  BY DEF Submissions, Submission
<1>3. q \in Request
  BY <1>1, <1>2 DEF Request, PaymentReq
<1> QED
  BY <1>3, SlotOnlyType DEF PaymentBegin

LEMMA PaymentCommitType ==
  ASSUME TypeOK, NEW r \in Slots, NEW p \in Payments, PaymentCommit(r, p)
  PROVE  TypeOK'
<1> DEFINE q == req[r]
           i == q.inv
           new == [status |-> "Active", inv |-> i, amount |-> q.amount,
                   submission |-> q.submission, session |-> NoSession]
           row == Repaid(inv[i], q.total, inv[i].paid + q.amount)
<1>1. q \in PaymentReq
  BY RequestFields DEF TypeOK, PaymentCommit
<1>2. /\ i \in Invoices /\ q.amount \in Nat /\ q.total \in Nat
      /\ q.submission \in Submission \cup {NoSubmission}
  BY <1>1 DEF PaymentReq
<1>3. inv[i] \in InvoiceRow
  BY <1>2 DEF TypeOK
<1>4. inv[i].paid + q.amount \in Nat
  BY <1>2, <1>3, RowFields
<1>5. row \in InvoiceRow
  BY <1>2, <1>3, <1>4, RepaidType
<1>6. new \in PaymentRow
  BY <1>2 DEF PaymentRow
<1>7. /\ inv' = [inv EXCEPT ![i] = row]
      /\ pay' = [pay EXCEPT ![p] = new]
      /\ idem' = idem \cup ({q.submission} \ {NoSubmission})
      /\ Post(i, 0, q.amount)
      /\ PostOf(p, q.amount)
      /\ Done(r)
      /\ UNCHANGED <<stripe, hist>>
  BY DEF PaymentCommit
<1> HIDE DEF row, new
<1>8. inv' \in [Invoices -> InvoiceRow] /\ pay' \in [Payments -> PaymentRow]
  BY <1>5, <1>6, <1>7 DEF TypeOK
<1>9. idem' \subseteq Submission
  BY <1>2, <1>7 DEF TypeOK
<1>10. /\ ar' \in [Invoices -> Int] /\ revenue' \in [Invoices -> Int]
       /\ cash' \in [Invoices -> Int] /\ cashOf' \in [Payments -> Int]
  BY <1>2, <1>7, PostType, PostOfType
<1>11. req' \in [Slots -> Request]
  BY <1>7, DoneType
<1> QED
  BY <1>7, <1>8, <1>9, <1>10, <1>11 DEF TypeOK

LEMMA ReverseBeginType ==
  ASSUME TypeOK, NEW r \in Slots, NEW p \in Payments, ReverseBegin(r, p)
  PROVE  TypeOK'
<1> DEFINE i == pay[p].inv
           q == [op |-> "reverse", pay |-> p, inv |-> i, total |-> inv[i].total,
                 void |-> IsVoid(i)]
<1>1. i \in Invoices
  BY DEF ReverseBegin, TypeOK, PaymentRow
<1>2. inv[i].total \in Nat
  BY <1>1, RowFields DEF TypeOK
<1>3. IsVoid(i) \in BOOLEAN
  BY DEF IsVoid
<1>4. q \in Request
  BY <1>1, <1>2, <1>3 DEF Request, ReverseReq
<1> QED
  BY <1>4, SlotOnlyType DEF ReverseBegin

LEMMA ReverseCommitType ==
  ASSUME TypeOK, NEW r \in Slots, ReverseCommit(r)
  PROVE  TypeOK'
<1> DEFINE q == req[r]
           i == q.inv
           amount == pay[q.pay].amount
           newPaid == AtLeast0(inv[i].paid - amount)
           row == IF ~Exists(i) THEN inv[i]
                  ELSE IF q.void THEN [inv[i] EXCEPT !.paid = newPaid]
                  ELSE Repaid(inv[i], q.total, newPaid)
<1>1. q \in ReverseReq
  BY RequestFields DEF TypeOK, ReverseCommit
<1>2. i \in Invoices /\ q.pay \in Payments /\ q.total \in Nat
  BY <1>1 DEF ReverseReq
<1>3. inv[i] \in InvoiceRow /\ amount \in Nat
  BY <1>2 DEF TypeOK, PaymentRow
<1>4. newPaid \in Nat
  BY <1>3, RowFields, AtLeast0Type
<1>5. /\ inv' = [inv EXCEPT ![i] = row]
      /\ pay' = [pay EXCEPT ![q.pay].status = "Reversed"]
      /\ Post(i, 0, -amount)
      /\ PostOf(q.pay, -amount)
      /\ Done(r)
      /\ UNCHANGED <<idem, stripe, hist>>
  BY DEF ReverseCommit
<1> HIDE DEF newPaid
<1>6. Repaid(inv[i], q.total, newPaid) \in InvoiceRow
  BY <1>2, <1>3, <1>4, RepaidType
<1>7. [inv[i] EXCEPT !.paid = newPaid] \in InvoiceRow
  BY <1>3, <1>4 DEF InvoiceRow
<1>8. row \in InvoiceRow
  BY <1>3, <1>6, <1>7
<1> HIDE DEF row
<1>9. inv' \in [Invoices -> InvoiceRow]
  BY <1>5, <1>8 DEF TypeOK
<1>10. pay' \in [Payments -> PaymentRow]
  BY <1>2, <1>5 DEF TypeOK, PaymentRow
<1>11. /\ ar' \in [Invoices -> Int] /\ revenue' \in [Invoices -> Int]
       /\ cash' \in [Invoices -> Int] /\ cashOf' \in [Payments -> Int]
  <2>1. -amount \in Int
    BY <1>3
  <2> QED
    BY <1>2, <1>5, <2>1, PostType, PostOfType
<1>12. req' \in [Slots -> Request]
  BY <1>5, DoneType
<1> QED
  BY <1>5, <1>9, <1>10, <1>11, <1>12 DEF TypeOK

LEMMA VoidInvoiceType ==
  ASSUME TypeOK, NEW i \in Invoices, VoidInvoice(i)
  PROVE  TypeOK'
<1> DEFINE row == [inv[i] EXCEPT !.status = "Void", !.balance = 0]
<1>1. inv[i] \in InvoiceRow
  BY DEF TypeOK
<1>2. row \in InvoiceRow
  <2>1. ASSUME NEW old \in InvoiceRow, NEW status \in InvoiceStatus, NEW balance \in Int
        PROVE  [old EXCEPT !.status = status, !.balance = balance] \in InvoiceRow
    BY DEF InvoiceRow
  <2>2. "Void" \in InvoiceStatus /\ 0 \in Int
    BY DEF InvoiceStatus
  <2> QED
    BY <1>1, <2>1, <2>2
<1>3. inv' = [inv EXCEPT ![i] = row]
  BY Zenon DEF VoidInvoice
<1> HIDE DEF row
<1>4. inv' \in [Invoices -> InvoiceRow]
  BY <1>2, <1>3 DEF TypeOK
<1>5. -inv[i].balance \in Int
  BY <1>1, RowFields
<1>6. Post(i, -inv[i].balance, 0) /\ UNCHANGED <<pay, idem, cashOf, stripe, req, hist>>
  BY DEF VoidInvoice
<1>7. ar' \in [Invoices -> Int] /\ revenue' \in [Invoices -> Int]
        /\ cash' \in [Invoices -> Int]
  BY <1>5, <1>6, PostType
<1> QED
  BY <1>4, <1>6, <1>7 DEF TypeOK

LEMMA EditCommitType ==
  ASSUME TypeOK, NEW r \in Slots, NEW total \in Amounts, NEW deposit \in Deposits,
         NEW form \in FormStatuses, EditCommit(r, total, deposit, form)
  PROVE  TypeOK'
<1> DEFINE i == req[r].inv
           row == Edited(inv[i], total, deposit, form)
<1>1. i \in Invoices
  BY RequestFields DEF TypeOK, EditCommit, EditReq
<1>2. inv[i] \in InvoiceRow
  BY <1>1 DEF TypeOK
<1>3. row \in InvoiceRow
  BY <1>2, EditedType
<1>4. /\ inv' = [inv EXCEPT ![i] = row]
      /\ Post(i, row.total - inv[i].total, row.paid - inv[i].paid)
      /\ hist' = [hist EXCEPT ![i].formMoved = @ \/ row.paid # inv[i].paid]
      /\ Done(r)
      /\ UNCHANGED <<pay, idem, cashOf, stripe>>
  BY DEF EditCommit
<1> HIDE DEF row
<1>5. row.total - inv[i].total \in Int /\ row.paid - inv[i].paid \in Int
  BY <1>2, <1>3, RowFields
<1>6. inv' \in [Invoices -> InvoiceRow]
  BY <1>3, <1>4 DEF TypeOK
<1>7. hist' \in [Invoices -> History]
  BY <1>1, <1>4 DEF TypeOK, History
<1>8. ar' \in [Invoices -> Int] /\ revenue' \in [Invoices -> Int]
        /\ cash' \in [Invoices -> Int]
  BY <1>1, <1>4, <1>5, PostType
<1>9. req' \in [Slots -> Request]
  BY <1>4, DoneType
<1> QED
  BY <1>4, <1>6, <1>7, <1>8, <1>9 DEF TypeOK

LEMMA DeleteCommitType ==
  ASSUME TypeOK, NEW r \in Slots, DeleteCommit(r)
  PROVE  TypeOK'
<1> DEFINE i == req[r].inv
<1>1. /\ inv' = [inv EXCEPT ![i] = NoRow("Deleted")]
      /\ pay' = [p \in Payments |->
           IF pay[p].inv = i THEN [pay[p] EXCEPT !.inv = NoInvoice] ELSE pay[p]]
      /\ Done(r)
      /\ UNCHANGED <<idem, ledger, stripe, hist>>
  BY DEF DeleteCommit
<1>2. NoRow("Deleted") \in InvoiceRow
  BY NoRowType DEF InvoiceStatus
<1>3. inv' \in [Invoices -> InvoiceRow]
  BY <1>1, <1>2 DEF TypeOK
<1>4. pay' \in [Payments -> PaymentRow]
  <2>1. ASSUME NEW old \in PaymentRow
        PROVE  [old EXCEPT !.inv = NoInvoice] \in PaymentRow
    BY DEF PaymentRow
  <2>2. \A p \in Payments : pay[p] \in PaymentRow
    BY DEF TypeOK
  <2> QED
    BY <1>1, <2>1, <2>2
<1>5. req' \in [Slots -> Request]
  BY <1>1, DoneType
<1> QED
  BY <1>1, <1>3, <1>4, <1>5 DEF TypeOK, ledger

LEMMA CheckoutBeginType ==
  ASSUME TypeOK, NEW r \in Slots, NEW i \in Invoices, CheckoutBegin(r, i)
  PROVE  TypeOK'
<1> DEFINE q == [op |-> "checkout", inv |-> i, amount |-> inv[i].balance]
<1>1. inv[i].balance \in Nat
  BY RowFields DEF TypeOK, CheckoutBegin
<1>2. q \in Request
  BY <1>1 DEF Request, CheckoutReq
<1> QED
  BY <1>2, SlotOnlyType DEF CheckoutBegin

LEMMA CheckoutCommitType ==
  ASSUME TypeOK, NEW r \in Slots, NEW s \in Sessions, CheckoutCommit(r, s)
  PROVE  TypeOK'
<1> DEFINE q == req[r]
           new == [state |-> "open", inv |-> q.inv, amount |-> q.amount]
<1>1. q.inv \in Invoices /\ q.amount \in Nat
  BY RequestFields DEF TypeOK, CheckoutCommit, CheckoutReq
<1>2. new \in StripeSession
  BY <1>1 DEF StripeSession
<1>3. /\ stripe' = [stripe EXCEPT ![s] = new]
      /\ inv' = IF Exists(q.inv) THEN [inv EXCEPT ![q.inv].session = s] ELSE inv
      /\ Done(r)
      /\ UNCHANGED <<pay, idem, ledger, hist>>
  BY DEF CheckoutCommit
<1> HIDE DEF new
<1>4. stripe' \in [Sessions -> StripeSession]
  BY <1>2, <1>3 DEF TypeOK
<1>5. inv' \in [Invoices -> InvoiceRow]
  BY <1>1, <1>3 DEF TypeOK, InvoiceRow
<1>6. req' \in [Slots -> Request]
  BY <1>3, DoneType
<1> QED
  BY <1>3, <1>4, <1>5, <1>6 DEF TypeOK, ledger

LEMMA ClientPaysType ==
  ASSUME TypeOK, NEW s \in Sessions, ClientPays(s)
  PROVE  TypeOK'
<1>1. stripe' \in [Sessions -> StripeSession]
  BY DEF ClientPays, TypeOK, StripeSession
<1> QED
  BY <1>1 DEF ClientPays, TypeOK, ledger

LEMMA SettleStartType ==
  ASSUME TypeOK, NEW r \in Slots, NEW i \in Invoices, SettleStart(r, i)
  PROVE  TypeOK'
<1> DEFINE q == [op |-> "settle", inv |-> i, session |-> inv[i].session]
<1>1. inv[i].session \in Sessions
  BY RowFields DEF TypeOK, SettleStart, MaySettle
<1>2. q \in Request
  BY <1>1 DEF Request, SettleReq
<1> QED
  BY <1>2, SlotOnlyType DEF SettleStart

LEMMA SettleCommitType ==
  ASSUME TypeOK, NEW r \in Slots, NEW p \in Payments, SettleCommit(r, p)
  PROVE  TypeOK'
<1> DEFINE q == req[r]
           i == q.inv
           amount == stripe[q.session].amount
           new == [status |-> "Active", inv |-> i, amount |-> amount,
                   submission |-> NoSubmission, session |-> q.session]
           row == Repaid(inv[i], inv[i].total, inv[i].paid + amount)
<1>1. i \in Invoices /\ q.session \in Sessions
  BY RequestFields DEF TypeOK, SettleCommit, SettleReq
<1>2. inv[i] \in InvoiceRow /\ amount \in Nat
  BY <1>1 DEF TypeOK, StripeSession
<1>3. inv[i].total \in Nat /\ inv[i].paid + amount \in Nat
  BY <1>2, RowFields
<1>4. row \in InvoiceRow
  BY <1>2, <1>3, RepaidType
<1>5. new \in PaymentRow
  BY <1>1, <1>2 DEF PaymentRow
<1>6. /\ inv' = [inv EXCEPT ![i] = row]
      /\ pay' = [pay EXCEPT ![p] = new]
      /\ Done(r)
      /\ UNCHANGED <<idem, ledger, stripe, hist>>
  BY DEF SettleCommit
<1> HIDE DEF row, new
<1>7. inv' \in [Invoices -> InvoiceRow] /\ pay' \in [Payments -> PaymentRow]
  BY <1>4, <1>5, <1>6 DEF TypeOK
<1>8. req' \in [Slots -> Request]
  BY <1>6, DoneType
<1> QED
  BY <1>6, <1>7, <1>8 DEF TypeOK, ledger

\* Every slot-taking or answering step but those with a lemma above.
LEMMA BeginOnType ==
  ASSUME TypeOK, NEW r \in Slots, NEW i \in Invoices, BeginOn(r, i)
  PROVE  TypeOK'
<1>1. CASE \E amount \in Amounts,
              submission \in Submissions("payment") \cup {NoSubmission} :
             PaymentBegin(r, i, amount, submission)
  BY <1>1, PaymentBeginType
<1>2. CASE EditBegin(r, i)
  <2>1. [op |-> "edit", inv |-> i] \in Request
    BY DEF Request, EditReq
  <2> QED
    BY <1>2, <2>1, SlotOnlyType DEF EditBegin
<1>3. CASE DeleteBegin(r, i)
  <2>1. [op |-> "delete", inv |-> i] \in Request
    BY DEF Request, DeleteReq
  <2> QED
    BY <1>3, <2>1, SlotOnlyType DEF DeleteBegin
<1>4. CASE CheckoutBegin(r, i)
  BY <1>4, CheckoutBeginType
<1>5. CASE SettleBegin(r, i)
  BY <1>5, SettleStartType DEF SettleBegin
<1> QED
  BY <1>1, <1>2, <1>3, <1>4, <1>5 DEF BeginOn

LEMMA AnsweredType ==
  ASSUME TypeOK, NEW r \in Slots, Answer(r)
  PROVE  TypeOK'
<1>1. Done(r) /\ UNCHANGED tables
  BY DEF Answer, PaymentRefuse, ReverseRefuse, SettleReturn, EditRefuse
<1> QED
  BY <1>1, AnswerType

LEMMA CommitType ==
  ASSUME TypeOK, NEW r \in Slots, Commit(r)
  PROVE  TypeOK'
  BY PaymentCommitType, ReverseCommitType, EditCommitType, DeleteCommitType,
     CheckoutCommitType, SettleCommitType DEF Commit

LEMMA CreateType ==
  ASSUME TypeOK, NEW i \in Invoices, Create(i)
  PROVE  TypeOK'
  BY CreateInvoiceType, SalesReceiptType, ConvertEstimateType DEF Create

LEMMA NextType == TypeOK /\ [Next]_vars => TypeOK'
<1> SUFFICES ASSUME TypeOK, [Next]_vars
             PROVE  TypeOK'
  OBVIOUS
<1>1. CASE AtOnce
  BY <1>1, CreateType, VoidInvoiceType DEF AtOnce
<1>2. CASE InFlight
  <2>1. CASE \E r \in Requests, i \in Invoices : BeginOn(r, i)
    BY <2>1, BeginOnType DEF Slots
  <2>2. CASE \E r \in Requests, p \in Payments : ReverseBegin(r, p)
    BY <2>2, ReverseBeginType DEF Slots
  <2>3. CASE \E c \in Crons, i \in Invoices : ReconcileBegin(c, i)
    BY <2>3, SettleStartType DEF Slots, ReconcileBegin
  <2>4. CASE \E r \in Slots : Answer(r) \/ Commit(r)
    BY <2>4, AnsweredType, CommitType
  <2>5. CASE \E s \in Sessions : ClientPays(s)
    BY <2>5, ClientPaysType
  <2>6. CASE Restart
    <3>1. req' \in [Slots -> Request] /\ UNCHANGED tables
      BY <2>6 DEF Restart, Request
    <3> QED
      BY <3>1 DEF TypeOK, tables, ledger
  <2> QED
    BY <1>2, <2>1, <2>2, <2>3, <2>4, <2>5, <2>6 DEF InFlight
<1>3. CASE UNCHANGED vars
  BY <1>3 DEF TypeOK, vars
<1> QED
  BY <1>1, <1>2, <1>3 DEF Next

\* Every row, request and ledger total keeps its type through any interleaving
\* of the billing handlers, whatever staff, clients and the job do.
THEOREM TypeCorrect == Spec => []TypeOK
<1>1. Init => TypeOK
  BY InitType
<1>2. TypeOK /\ [Next]_vars => TypeOK'
  BY NextType
<1> QED
  BY <1>1, <1>2, PTL DEF Spec

-----------------------------------------------------------------------------
(***************************************************************************)
(* Payments are recorded once and carried by the ledger while they stand.  *)
(* None of the three properties is inductive: a key carried by a payment   *)
(* must be among the keys used, an id not used yet must carry no cash, and *)
(* a reversal in flight must be of a payment that was made.                *)
(***************************************************************************)
KeysKept ==
  \A p \in Payments : pay[p].submission # NoSubmission => pay[p].submission \in idem
UnusedIds == \A p \in Payments : Fresh(p) => pay[p] = NoPayment /\ cashOf[p] = 0
ReversalsOfPayments ==
  \A r \in Slots : req[r].op = "reverse" => ~Fresh(req[r].pay)

PaymentsInv ==
  /\ TypeOK
  /\ KeysKept
  /\ OnePaymentPerSubmission
  /\ OneRecordPerCharge
  /\ UnusedIds
  /\ LedgerFollowsPayments
  /\ ReversalsOfPayments

\* Slots taken or given up, by anything but a reversal.
NoNewReversal == \A r \in Slots : req'[r].op = "reverse" => req'[r] = req[r]

LEMMA DoneIsNoReversal ==
  ASSUME TypeOK, NEW r \in Slots, Done(r)
  PROVE  NoNewReversal
  BY DEF TypeOK, Done, NoNewReversal, Idle

LEMMA PaymentsUntouched ==
  ASSUME PaymentsInv, TypeOK', UNCHANGED <<pay, idem, cashOf>>, NoNewReversal
  PROVE  PaymentsInv'
<1>1. KeysKept' /\ UnusedIds'
  BY DEF PaymentsInv, KeysKept, UnusedIds, Fresh
<1>2. OnePaymentPerSubmission' /\ OneRecordPerCharge' /\ LedgerFollowsPayments'
  BY DEF PaymentsInv, OnePaymentPerSubmission, OneRecordPerCharge,
     LedgerFollowsPayments, ByCard
<1>3. ReversalsOfPayments'
  BY DEF PaymentsInv, ReversalsOfPayments, Fresh, NoNewReversal
<1> QED
  BY <1>1, <1>2, <1>3 DEF PaymentsInv

\* A payment inserted under a new id, its key and its charge not seen before.
LEMMA PaymentInserted ==
  ASSUME PaymentsInv, TypeOK', NoNewReversal,
         NEW p \in Payments, Fresh(p),
         NEW row \in PaymentRow, row.status = "Active",
         pay' = [pay EXCEPT ![p] = row],
         row.submission \notin idem,
         idem' = idem \cup ({row.submission} \ {NoSubmission}),
         row.session # NoSession => ~Recorded(row.session),
         \A x \in Payments : x # p => cashOf'[x] = cashOf[x],
         row.session = NoSession => cashOf'[p] = row.amount
  PROVE  PaymentsInv'
<1>1. pay \in [Payments -> PaymentRow]
  BY DEF PaymentsInv, TypeOK
<1>2. pay'[p] = row /\ \A x \in Payments : x # p => pay'[x] = pay[x]
  BY <1>1
<1>3. KeysKept'
  BY <1>2 DEF PaymentsInv, KeysKept
<1>4. OnePaymentPerSubmission'
  <2>1. \A x \in Payments :
          x # p /\ pay[x].submission = row.submission
            => row.submission = NoSubmission
    BY DEF PaymentsInv, KeysKept
  <2> QED
    BY <1>2, <2>1 DEF PaymentsInv, OnePaymentPerSubmission
<1>5. OneRecordPerCharge'
  <2>1. \A x \in Payments :
          x # p /\ pay[x].session = row.session => row.session = NoSession
    BY DEF Recorded
  <2> QED
    BY <1>2, <2>1 DEF PaymentsInv, OneRecordPerCharge, ByCard
<1>6. UnusedIds'
  BY <1>2 DEF PaymentsInv, UnusedIds, Fresh
<1>7. LedgerFollowsPayments'
  BY <1>2 DEF PaymentsInv, LedgerFollowsPayments, ByCard
<1>8. ReversalsOfPayments'
  <2>1. \A x \in Payments : ~Fresh(x) => pay'[x].status # "None"
    BY <1>2 DEF Fresh
  <2>2. \A r \in Slots : req[r].op = "reverse" => req[r].pay \in Payments
    BY RequestFields DEF PaymentsInv, TypeOK, ReverseReq
  <2> QED
    BY <2>1, <2>2 DEF PaymentsInv, ReversalsOfPayments, Fresh, NoNewReversal
<1> QED
  BY <1>3, <1>4, <1>5, <1>6, <1>7, <1>8 DEF PaymentsInv

LEMMA PaymentReversed ==
  ASSUME PaymentsInv, TypeOK', NEW r \in Slots, ReverseCommit(r)
  PROVE  PaymentsInv'
<1> DEFINE q == req[r]
           p == q.pay
           amount == pay[p].amount
<1>1. /\ q.op = "reverse" /\ Claimable(p)
      /\ pay' = [pay EXCEPT ![p].status = "Reversed"]
      /\ PostOf(p, -amount)
      /\ idem' = idem /\ Done(r)
  BY DEF ReverseCommit
<1>2. p \in Payments
  BY <1>1, RequestFields DEF PaymentsInv, TypeOK, ReverseReq
<1>3. pay[p].status = "Active"
  BY <1>1, <1>2 DEF PaymentsInv, ReversalsOfPayments, Claimable, Fresh, TypeOK,
     PaymentRow
<1>4. /\ pay'[p].status = "Reversed" /\ pay'[p].amount = amount
      /\ \A x \in Payments : /\ x # p => pay'[x] = pay[x]
                            /\ pay'[x].submission = pay[x].submission
                            /\ pay'[x].session = pay[x].session
  BY <1>1, <1>2 DEF PaymentsInv, TypeOK, PaymentRow
<1>5. KeysKept' /\ OnePaymentPerSubmission' /\ OneRecordPerCharge'
  BY <1>1, <1>4 DEF PaymentsInv, KeysKept, OnePaymentPerSubmission,
     OneRecordPerCharge, ByCard
<1>6. /\ cashOf'[p] = cashOf[p] - amount
      /\ \A x \in Payments : x # p => cashOf'[x] = cashOf[x]
  <2>1. cashOf \in [Payments -> Int] /\ amount \in Nat
    BY <1>2 DEF PaymentsInv, TypeOK, PaymentRow
  <2> QED
    BY <1>1, <1>2, <2>1 DEF PostOf
<1>7. UnusedIds'
  BY <1>4, <1>6 DEF PaymentsInv, UnusedIds, Fresh
<1>8. LedgerFollowsPayments'
  <2>1. ~ByCard(p) => cashOf[p] = amount
    BY <1>2, <1>3 DEF PaymentsInv, LedgerFollowsPayments
  <2>2. amount \in Nat
    BY <1>2 DEF PaymentsInv, TypeOK, PaymentRow
  <2>3. ~ByCard(p) => cashOf'[p] = 0
    BY <1>6, <2>1, <2>2
  <2> QED
    BY <1>4, <1>6, <2>3 DEF PaymentsInv, LedgerFollowsPayments, ByCard
<1>9. ReversalsOfPayments'
  <2>1. NoNewReversal
    BY <1>1, DoneIsNoReversal DEF PaymentsInv
  <2>2. \A x \in Payments : ~Fresh(x) => pay'[x].status # "None"
    BY <1>4 DEF Fresh
  <2>3. \A s \in Slots : req[s].op = "reverse" => req[s].pay \in Payments
    BY RequestFields DEF PaymentsInv, TypeOK, ReverseReq
  <2> QED
    BY <2>1, <2>2, <2>3 DEF PaymentsInv, ReversalsOfPayments, Fresh, NoNewReversal
<1> QED
  BY <1>5, <1>7, <1>8, <1>9 DEF PaymentsInv

\* What each handler that inserts a payment provides.
LEMMA ReceiptInserts ==
  ASSUME PaymentsInv, TypeOK', NEW i \in Invoices, NEW p \in Payments,
         NEW amount \in Amounts,
         NEW submission \in Submissions("receipt") \cup {NoSubmission},
         SalesReceipt(i, p, amount, submission)
  PROVE  PaymentsInv'
<1> DEFINE row == [status |-> "Active", inv |-> i, amount |-> amount,
                   submission |-> submission, session |-> NoSession]
<1>1. /\ pay' = [pay EXCEPT ![p] = row] /\ Fresh(p)
      /\ submission \notin idem
      /\ idem' = idem \cup ({submission} \ {NoSubmission})
      /\ PostOf(p, amount) /\ req' = req
  BY DEF SalesReceipt
<1>2. row \in PaymentRow
  BY FormTypes DEF PaymentRow, Submissions, Submission
<1>3. /\ row.status = "Active" /\ row.amount = amount
      /\ row.submission = submission /\ row.session = NoSession
  OBVIOUS
<1> HIDE DEF row
<1>4. amount \in Nat /\ cashOf[p] = 0
  BY <1>1, FormTypes DEF PaymentsInv, UnusedIds
<1>5. cashOf'[p] = amount /\ \A x \in Payments : x # p => cashOf'[x] = cashOf[x]
  BY <1>1, <1>4 DEF PostOf, PaymentsInv, TypeOK
<1>6. NoNewReversal
  BY <1>1 DEF NoNewReversal
<1> QED
  BY <1>1, <1>2, <1>3, <1>5, <1>6, PaymentInserted

LEMMA PaymentCommitInserts ==
  ASSUME PaymentsInv, TypeOK', NEW r \in Slots, NEW p \in Payments,
         PaymentCommit(r, p)
  PROVE  PaymentsInv'
<1> DEFINE q == req[r]
           row == [status |-> "Active", inv |-> q.inv, amount |-> q.amount,
                   submission |-> q.submission, session |-> NoSession]
<1>1. /\ pay' = [pay EXCEPT ![p] = row] /\ Fresh(p)
      /\ q.submission \notin idem
      /\ idem' = idem \cup ({q.submission} \ {NoSubmission})
      /\ PostOf(p, q.amount) /\ Done(r)
  BY DEF PaymentCommit, PaymentRefused
<1>2. q \in PaymentReq
  BY RequestFields DEF PaymentsInv, TypeOK, PaymentCommit
<1>3. row \in PaymentRow
  BY <1>2 DEF PaymentRow, PaymentReq
<1>4. /\ row.status = "Active" /\ row.amount = q.amount
      /\ row.submission = q.submission /\ row.session = NoSession
  OBVIOUS
<1> HIDE DEF row
<1>5. q.amount \in Nat /\ cashOf[p] = 0
  BY <1>1, <1>2 DEF PaymentsInv, UnusedIds, PaymentReq
<1>6. cashOf'[p] = q.amount /\ \A x \in Payments : x # p => cashOf'[x] = cashOf[x]
  BY <1>1, <1>5 DEF PostOf, PaymentsInv, TypeOK
<1>7. NoNewReversal
  BY <1>1, DoneIsNoReversal DEF PaymentsInv
<1> QED
  BY <1>1, <1>3, <1>4, <1>6, <1>7, PaymentInserted

LEMMA SettleCommitInserts ==
  ASSUME PaymentsInv, TypeOK', NEW r \in Slots, NEW p \in Payments,
         SettleCommit(r, p)
  PROVE  PaymentsInv'
<1> DEFINE q == req[r]
           amount == stripe[q.session].amount
           row == [status |-> "Active", inv |-> q.inv, amount |-> amount,
                   submission |-> NoSubmission, session |-> q.session]
<1>1. /\ pay' = [pay EXCEPT ![p] = row] /\ Fresh(p)
      /\ ~Recorded(q.session)
      /\ idem' = idem /\ cashOf' = cashOf /\ Done(r)
  BY DEF SettleCommit, NothingToRecord, ledger
<1>2. q \in SettleReq
  BY RequestFields DEF PaymentsInv, TypeOK, SettleCommit
<1>3. amount \in Nat /\ q.session \in Sessions /\ q.inv \in Invoices
  BY <1>2 DEF PaymentsInv, TypeOK, StripeSession, SettleReq
<1>4. row \in PaymentRow
  BY <1>3 DEF PaymentRow
<1>5. /\ row.status = "Active" /\ row.submission = NoSubmission
      /\ row.session = q.session
  OBVIOUS
<1> HIDE DEF row
<1>6. row.session # NoSession
  BY <1>3, <1>5, NullsAssumption
<1>7. NoSubmission \notin idem
  BY NullsAssumption DEF PaymentsInv, TypeOK, Submission
<1>8. NoNewReversal
  BY <1>1, DoneIsNoReversal DEF PaymentsInv
<1> QED
  BY <1>1, <1>4, <1>5, <1>6, <1>7, <1>8, PaymentInserted

\* Deleting an invoice takes its payments' reference to it, nothing else.
LEMMA DeleteKeepsPayments ==
  ASSUME PaymentsInv, TypeOK', NEW r \in Slots, DeleteCommit(r)
  PROVE  PaymentsInv'
<1>1. \A x \in Payments :
        /\ pay'[x].status = pay[x].status
        /\ pay'[x].amount = pay[x].amount
        /\ pay'[x].submission = pay[x].submission
        /\ pay'[x].session = pay[x].session
  BY DEF DeleteCommit, PaymentsInv, TypeOK, PaymentRow
<1>2. /\ idem' = idem /\ cashOf' = cashOf /\ Done(r)
      /\ pay' = [p \in Payments |-> IF pay[p].inv = req[r].inv
                                     THEN [pay[p] EXCEPT !.inv = NoInvoice]
                                     ELSE pay[p]]
  BY DEF DeleteCommit, ledger
<1>3. KeysKept' /\ OnePaymentPerSubmission' /\ OneRecordPerCharge'
        /\ LedgerFollowsPayments'
  BY <1>1, <1>2 DEF PaymentsInv, KeysKept, OnePaymentPerSubmission,
     OneRecordPerCharge, LedgerFollowsPayments, ByCard
<1>4. UnusedIds'
  <2>1. \A x \in Payments : Fresh(x) => pay'[x] = NoPayment
    <3> SUFFICES ASSUME NEW x \in Payments, Fresh(x)
                 PROVE  pay'[x] = NoPayment
      OBVIOUS
    <3>1. pay[x] = NoPayment
      BY DEF PaymentsInv, UnusedIds
    <3>2. req[r].inv \in Invoices
      BY RequestFields DEF PaymentsInv, TypeOK, DeleteCommit, DeleteReq
    <3>3. pay[x].inv # req[r].inv
      BY <3>1, <3>2, NullsAssumption DEF NoPayment
    <3> QED
      BY <1>2, <3>1, <3>3
  <2> QED
    BY <1>1, <1>2, <2>1 DEF PaymentsInv, UnusedIds, Fresh
<1>5. ReversalsOfPayments'
  <2>1. NoNewReversal
    BY <1>2, DoneIsNoReversal DEF PaymentsInv
  <2>2. \A s \in Slots : req[s].op = "reverse" => req[s].pay \in Payments
    BY RequestFields DEF PaymentsInv, TypeOK, ReverseReq
  <2> QED
    BY <1>1, <2>1, <2>2 DEF PaymentsInv, ReversalsOfPayments, Fresh, NoNewReversal
<1> QED
  BY <1>3, <1>4, <1>5 DEF PaymentsInv

\* A reversal starts only from an active payment.
LEMMA ReverseBeginKeeps ==
  ASSUME PaymentsInv, TypeOK', NEW r \in Slots, NEW p \in Payments,
         ReverseBegin(r, p)
  PROVE  PaymentsInv'
<1>1. UNCHANGED <<pay, idem, cashOf>>
  BY DEF ReverseBegin, tables, ledger
<1>2. KeysKept' /\ UnusedIds' /\ OnePaymentPerSubmission' /\ OneRecordPerCharge'
        /\ LedgerFollowsPayments'
  BY <1>1 DEF PaymentsInv, KeysKept, UnusedIds, Fresh, OnePaymentPerSubmission,
     OneRecordPerCharge, LedgerFollowsPayments, ByCard
<1>3. ReversalsOfPayments'
  <2>1. ~Fresh(p)
    BY DEF ReverseBegin, Fresh
  <2>2. req \in [Slots -> Request]
    BY DEF PaymentsInv, TypeOK
  <2>3. req'[r].pay = p /\ \A s \in Slots : s # r => req'[s] = req[s]
    BY <2>2 DEF ReverseBegin
  <2> QED
    BY <1>1, <2>1, <2>3 DEF PaymentsInv, ReversalsOfPayments, Fresh
<1> QED
  BY <1>2, <1>3 DEF PaymentsInv

LEMMA SlotOnlyKeeps ==
  ASSUME PaymentsInv, TypeOK', NEW r \in Slots, NEW q,
         q.op # "reverse", req' = [req EXCEPT ![r] = q], UNCHANGED tables
  PROVE  PaymentsInv'
<1>1. NoNewReversal
  BY DEF PaymentsInv, TypeOK, NoNewReversal
<1> QED
  BY <1>1, PaymentsUntouched DEF tables, ledger

LEMMA InitPayments == Init => PaymentsInv
<1> SUFFICES ASSUME Init
             PROVE  PaymentsInv
  OBVIOUS
<1>1. TypeOK
  BY InitType
<1>2. \A p \in Payments : pay[p] = NoPayment /\ cashOf[p] = 0
  BY DEF Init
<1>3. \A r \in Slots : req[r].op # "reverse"
  BY DEF Init, Idle
<1> QED
  BY <1>1, <1>2, <1>3 DEF PaymentsInv, KeysKept, OnePaymentPerSubmission,
     OneRecordPerCharge, UnusedIds, LedgerFollowsPayments, ReversalsOfPayments,
     NoPayment, ByCard, Fresh

LEMMA NextPayments == PaymentsInv /\ [Next]_vars => PaymentsInv'
<1> SUFFICES ASSUME PaymentsInv, [Next]_vars
             PROVE  PaymentsInv'
  OBVIOUS
<1>1. TypeOK'
  BY NextType DEF PaymentsInv
<1>2. CASE AtOnce
  <2> PICK i \in Invoices : Create(i) \/ VoidInvoice(i)
    BY <1>2 DEF AtOnce
  <2>1. CASE \E p \in Payments, amount \in Amounts,
               submission \in Submissions("receipt") \cup {NoSubmission} :
              SalesReceipt(i, p, amount, submission)
    BY <1>1, <2>1, ReceiptInserts
  <2>2. CASE \/ VoidInvoice(i)
             \/ \E total \in Amounts, paid \in OpeningPaid, deposit \in Deposits,
                  form \in OpeningStatuses :
                 CreateInvoice(i, total, paid, deposit, form)
             \/ \E total \in Amounts, deposit \in Deposits :
                 ConvertEstimate(i, total, deposit)
    <3>1. UNCHANGED <<pay, idem, cashOf, req>>
      BY <2>2 DEF VoidInvoice, CreateInvoice, ConvertEstimate, ledger
    <3> QED
      BY <1>1, <3>1, PaymentsUntouched DEF NoNewReversal
  <2> QED
    BY <2>1, <2>2 DEF Create
<1>3. CASE \E r \in Slots, i \in Invoices : BeginOn(r, i) \/ ReconcileBegin(r, i)
  <2> PICK r \in Slots, i \in Invoices : BeginOn(r, i) \/ ReconcileBegin(r, i)
    BY <1>3
  <2>1. UNCHANGED tables /\ \E q : q.op # "reverse" /\ req' = [req EXCEPT ![r] = q]
    <3>1. CASE \E amount \in Amounts,
                  submission \in Submissions("payment") \cup {NoSubmission} :
                 PaymentBegin(r, i, amount, submission)
      BY <3>1 DEF PaymentBegin
    <3>2. CASE EditBegin(r, i)
      BY <3>2 DEF EditBegin
    <3>3. CASE DeleteBegin(r, i)
      BY <3>3 DEF DeleteBegin
    <3>4. CASE CheckoutBegin(r, i)
      BY <3>4 DEF CheckoutBegin
    <3>5. CASE SettleStart(r, i)
      BY <3>5 DEF SettleStart
    <3> QED
      BY <3>1, <3>2, <3>3, <3>4, <3>5 DEF BeginOn, SettleBegin, ReconcileBegin
  <2> QED
    BY <1>1, <2>1, SlotOnlyKeeps
<1>4. CASE \E r \in Slots, p \in Payments : ReverseBegin(r, p)
  BY <1>1, <1>4, ReverseBeginKeeps
<1>5. CASE \E r \in Slots : Answer(r)
  <2> PICK r \in Slots : Answer(r)
    BY <1>5
  <2>1. UNCHANGED tables /\ Done(r)
    BY DEF Answer, PaymentRefuse, ReverseRefuse, SettleReturn, EditRefuse
  <2> QED
    BY <1>1, <2>1, SlotOnlyKeeps DEF Done, Idle
<1>6. CASE \E r \in Slots : Commit(r)
  <2> PICK r \in Slots : Commit(r)
    BY <1>6
  <2>1. CASE \E p \in Payments : PaymentCommit(r, p)
    BY <1>1, <2>1, PaymentCommitInserts
  <2>2. CASE ReverseCommit(r)
    BY <1>1, <2>2, PaymentReversed
  <2>3. CASE \/ \E total \in Amounts, deposit \in Deposits, form \in FormStatuses :
                 EditCommit(r, total, deposit, form)
             \/ \E s \in Sessions : CheckoutCommit(r, s)
    <3>1. UNCHANGED <<pay, idem, cashOf>> /\ Done(r)
      BY <2>3 DEF EditCommit, CheckoutCommit, ledger
    <3> QED
      BY <1>1, <3>1, DoneIsNoReversal, PaymentsUntouched DEF PaymentsInv
  <2>4. CASE DeleteCommit(r)
    BY <1>1, <2>4, DeleteKeepsPayments
  <2>5. CASE \E p \in Payments : SettleCommit(r, p)
    BY <1>1, <2>5, SettleCommitInserts
  <2> QED
    BY <2>1, <2>2, <2>3, <2>4, <2>5 DEF Commit
<1>7. CASE (\E s \in Sessions : ClientPays(s)) \/ Restart \/ UNCHANGED vars
  <2>1. UNCHANGED <<pay, idem, cashOf>> /\ NoNewReversal
    BY <1>7 DEF ClientPays, Restart, vars, tables, ledger, NoNewReversal, Idle
  <2> QED
    BY <1>1, <2>1, PaymentsUntouched
<1>8. Requests \subseteq Slots /\ Crons \subseteq Slots
  BY DEF Slots
<1> QED
  BY <1>2, <1>3, <1>4, <1>5, <1>6, <1>7, <1>8 DEF Next, InFlight

LEMMA PaymentsInvariant == Spec => []PaymentsInv
<1>1. Init => PaymentsInv
  BY InitPayments
<1>2. PaymentsInv /\ [Next]_vars => PaymentsInv'
  BY NextPayments
<1> QED
  BY <1>1, <1>2, PTL DEF Spec

\* For any number of clients retrying any submission: one payment row at most.
THEOREM SubmissionsOnce == Spec => []OnePaymentPerSubmission
<1>1. PaymentsInv => OnePaymentPerSubmission
  BY DEF PaymentsInv
<1> QED
  BY <1>1, PaymentsInvariant, PTL

\* For any number of page loads and jobs racing: a charge is recorded once.
THEOREM ChargesOnce == Spec => []OneRecordPerCharge
<1>1. PaymentsInv => OneRecordPerCharge
  BY DEF PaymentsInv
<1> QED
  BY <1>1, PaymentsInvariant, PTL

\* For any number of racing reversals: the ledger carries a hand-recorded
\* payment's cash exactly while the payment is active.
THEOREM LedgerExact == Spec => []LedgerFollowsPayments
<1>1. PaymentsInv => LedgerFollowsPayments
  BY DEF PaymentsInv
<1> QED
  BY <1>1, PaymentsInvariant, PTL

-----------------------------------------------------------------------------
(***************************************************************************)
(* amount_paid, the payments and the cash.  What ties them is not          *)
(* inductive: an invoice not created yet must have nothing booked, a       *)
(* payment's invoice must be there, and a reversal in flight must carry    *)
(* the invoice its payment is on, or one that was deleted since.           *)
(***************************************************************************)
NotCreated(i) == inv[i].status = "None"
IsDeleted(i) == inv[i].status = "Deleted"
UsedIds == {p \in Payments : ~Fresh(p)}

BlankUntilCreated ==
  \A i \in Invoices :
    NotCreated(i) => /\ cash[i] = 0 /\ ar[i] = 0
                     /\ hist[i] = [paidIn |-> 0, cashIn |-> 0, formMoved |-> FALSE]
PaymentsOnInvoices ==
  \A p \in Payments : pay[p].inv # NoInvoice => Exists(pay[p].inv)
HandlersOnInvoices == \A r \in Slots : req[r] # Idle => ~NotCreated(req[r].inv)
ReversalOnInvoice(q) ==
  \/ pay[q.pay].inv = q.inv
  \/ pay[q.pay].inv = NoInvoice /\ IsDeleted(q.inv)
ReversalsOnInvoices ==
  \A r \in Slots : req[r].op = "reverse" => ReversalOnInvoice(req[r])

LinksInv ==
  /\ BlankUntilCreated
  /\ PaymentsOnInvoices
  /\ HandlersOnInvoices
  /\ ReversalsOnInvoices
  /\ IsFiniteSet(UsedIds)

\* The parts of AmountPaidIsActivePayments and CashTiesToAmountPaid.
PaidTies(i) ==
  Exists(i) /\ ~hist[i].formMoved => inv[i].paid = hist[i].paidIn + ActiveTotal(i)
CashTies(i) ==
  Exists(i) /\ ~HasCardPayment(i) /\ ~hist[i].formMoved
    => cash[i] - hist[i].cashIn = inv[i].paid - hist[i].paidIn
MoneyInv == \A i \in Invoices : PaidTies(i) /\ CashTies(i)

\* The fields of a payment and of an invoice's history.
LEMMA PaymentFields ==
  ASSUME TypeOK, NEW p \in Payments
  PROVE  /\ pay[p].status \in {"None", "Active", "Reversed"}
         /\ pay[p].inv \in Invoices \cup {NoInvoice}
         /\ pay[p].amount \in Nat
         /\ pay[p].submission \in Submission \cup {NoSubmission}
         /\ pay[p].session \in Sessions \cup {NoSession}
  BY DEF TypeOK, PaymentRow

LEMMA HistoryFields ==
  ASSUME TypeOK, NEW i \in Invoices
  PROVE  hist[i].paidIn \in Nat /\ hist[i].cashIn \in Nat
           /\ hist[i].formMoved \in BOOLEAN
  BY DEF TypeOK, History

LEMMA InvoiceFields ==
  ASSUME TypeOK, NEW i \in Invoices
  PROVE  /\ inv[i].status \in InvoiceStatus /\ inv[i].total \in Nat
         /\ inv[i].paid \in Nat /\ inv[i].deposit \in Nat /\ inv[i].balance \in Int
         /\ inv[i].session \in Sessions \cup {NoSession}
         /\ cash[i] \in Int /\ ar[i] \in Int /\ revenue[i] \in Int
  BY RowFields DEF TypeOK

\* Handlers in flight have an invoice.
LEMMA RequestInvoice ==
  ASSUME TypeOK, NEW r \in Slots, req[r] # Idle
  PROVE  req[r].inv \in Invoices
  BY DEF TypeOK, Request, PaymentReq, ReverseReq, EditReq, DeleteReq, CheckoutReq,
     SettleReq

-----------------------------------------------------------------------------
(***************************************************************************)
(* Sums over the payments of an invoice                                    *)
(***************************************************************************)
Amounted == [p \in Payments |-> pay[p].amount]

LEMMA ActiveFinite ==
  ASSUME TypeOK, IsFiniteSet(UsedIds), NEW i
  PROVE  IsFiniteSet(ActiveOn(i)) /\ ActiveOn(i) \subseteq Payments
<1>1. ActiveOn(i) \in SUBSET UsedIds
  BY DEF ActiveOn, UsedIds, Fresh
<1>2. UsedIds \subseteq Payments
  BY DEF UsedIds
<1> QED
  BY <1>1, <1>2, FS_Subset

LEMMA ActiveTotalType ==
  ASSUME TypeOK, IsFiniteSet(UsedIds), NEW i
  PROVE  ActiveTotal(i) \in Nat
<1>1. \A p \in ActiveOn(i) : Amounted[p] \in Nat
  BY PaymentFields DEF Amounted, ActiveOn
<1> QED
  BY <1>1, ActiveFinite, SumNat DEF ActiveTotal, Amounted

\* What is left of it is as good.
LEMMA ActiveTotalAfter ==
  ASSUME TypeOK, IsFiniteSet(UsedIds), NEW i, NEW p \in ActiveOn(i),
         ActiveOn(i)' = ActiveOn(i) \ {p},
         \A x \in Payments : pay'[x].amount = pay[x].amount
  PROVE  ActiveTotal(i)' \in Nat
<1> DEFINE S == ActiveOn(i) \ {p}
           g == [x \in Payments |-> pay'[x].amount]
<1>1. IsFiniteSet(S)
  BY ActiveFinite, FS_RemoveElement
<1>2. \A x \in S : g[x] \in Nat
  <2>1. \A x \in Payments : pay[x].amount \in Nat
    BY PaymentFields
  <2> QED
    BY <2>1 DEF ActiveOn
<1>3. ActiveTotal(i)' = SumFunctionOnSet(g, S)
  BY DEF ActiveTotal
<1> HIDE DEF S, g
<1> QED
  BY <1>1, <1>2, <1>3, SumNat

LEMMA ActiveTotalKept ==
  ASSUME TypeOK, IsFiniteSet(UsedIds), NEW i,
         ActiveOn(i)' = ActiveOn(i),
         \A p \in ActiveOn(i) : pay'[p].amount = pay[p].amount
  PROVE  ActiveTotal(i)' = ActiveTotal(i)
<1> DEFINE S == ActiveOn(i)
           f == [p \in Payments |-> pay[p].amount]
           g == [p \in Payments |-> pay'[p].amount]
<1>1. IsFiniteSet(S) /\ \A p \in S : g[p] = f[p]
  BY ActiveFinite
<1>2. ActiveTotal(i) = SumFunctionOnSet(f, S) /\ ActiveTotal(i)' = SumFunctionOnSet(g, S)
  BY DEF ActiveTotal
<1> HIDE DEF S, f, g
<1>3. SumFunctionOnSet(g, S) = SumFunctionOnSet(f, S)
  BY <1>1, SumSame
<1> QED
  BY <1>2, <1>3

LEMMA ActiveTotalGains ==
  ASSUME TypeOK, TypeOK', IsFiniteSet(UsedIds), NEW i, NEW p \in Payments,
         p \notin ActiveOn(i), ActiveOn(i)' = ActiveOn(i) \cup {p},
         \A x \in ActiveOn(i) : pay'[x].amount = pay[x].amount
  PROVE  ActiveTotal(i)' = ActiveTotal(i) + pay'[p].amount
<1> DEFINE S == ActiveOn(i)
           f == [x \in Payments |-> pay[x].amount]
           g == [x \in Payments |-> pay'[x].amount]
<1>1. /\ IsFiniteSet(S) /\ p \notin S /\ \A x \in S : g[x] = f[x]
      /\ \A x \in S \cup {p} : g[x] \in Int
      /\ g[p] = pay'[p].amount
  <2>1. \A x \in Payments : pay'[x].amount \in Int
    BY DEF TypeOK, PaymentRow
  <2> QED
    BY <2>1, ActiveFinite
<1>2. ActiveTotal(i) = SumFunctionOnSet(f, S)
  BY DEF ActiveTotal
<1>3. ActiveTotal(i)' = SumFunctionOnSet(g, S \cup {p})
  BY DEF ActiveTotal
<1> HIDE DEF S, f, g
<1>4. SumFunctionOnSet(g, S) = SumFunctionOnSet(f, S)
  BY <1>1, SumSame
<1>5. SumFunctionOnSet(g, S \cup {p}) = SumFunctionOnSet(g, S) + g[p]
  BY <1>1, SumAdd
<1> QED
  BY <1>1, <1>2, <1>3, <1>4, <1>5

LEMMA ActiveTotalLoses ==
  ASSUME TypeOK, IsFiniteSet(UsedIds), NEW i, NEW p \in ActiveOn(i),
         ActiveOn(i)' = ActiveOn(i) \ {p},
         \A x \in ActiveOn(i) : pay'[x].amount = pay[x].amount
  PROVE  ActiveTotal(i) = pay[p].amount + ActiveTotal(i)'
<1> DEFINE S == ActiveOn(i)
           f == [x \in Payments |-> pay[x].amount]
           g == [x \in Payments |-> pay'[x].amount]
<1>1. /\ IsFiniteSet(S) /\ p \in S /\ \A x \in S \ {p} : g[x] = f[x]
      /\ \A x \in S : f[x] \in Int
      /\ f[p] = pay[p].amount
  <2>1. \A x \in Payments : pay[x].amount \in Int
    BY DEF TypeOK, PaymentRow
  <2> QED
    BY <2>1, ActiveFinite
<1>2. ActiveTotal(i) = SumFunctionOnSet(f, S)
  BY DEF ActiveTotal
<1>3. ActiveTotal(i)' = SumFunctionOnSet(g, S \ {p})
  BY DEF ActiveTotal
<1>4. IsFiniteSet(S \ {p})
  BY <1>1, FS_RemoveElement
<1> HIDE DEF S, f, g
<1>5. SumFunctionOnSet(f, S) = f[p] + SumFunctionOnSet(f, S \ {p})
  BY <1>1, SumRemove
<1>6. SumFunctionOnSet(g, S \ {p}) = SumFunctionOnSet(f, S \ {p})
  BY <1>1, <1>4, SumSame
<1> QED
  BY <1>1, <1>2, <1>3, <1>5, <1>6

-----------------------------------------------------------------------------
(***************************************************************************)
(* The links between rows and handlers                                     *)
(***************************************************************************)
LEMMA LinksKept ==
  ASSUME PaymentsInv, LinksInv, TypeOK',
         \A i \in Invoices :
           inv'[i].status = "None" => /\ inv[i].status = "None" /\ cash'[i] = cash[i]
                                      /\ ar'[i] = ar[i] /\ hist'[i] = hist[i],
         \A i \in Invoices : inv[i].status = "Deleted" => inv'[i].status = "Deleted",
         \A p \in Payments :
           pay'[p].inv # NoInvoice => inv'[pay'[p].inv].status \notin {"None", "Deleted"},
         \A p \in Payments :
           \/ pay'[p].inv = pay[p].inv
           \/ Fresh(p)
           \/ pay'[p].inv = NoInvoice /\ inv'[pay[p].inv].status = "Deleted",
         \E new \in {{}} \cup {{p} : p \in Payments} : UsedIds' \subseteq UsedIds \cup new,
         \A r \in Slots :
           \/ req'[r] = req[r] \/ req'[r] = Idle
           \/ /\ inv'[req'[r].inv].status # "None"
              /\ req'[r].op = "reverse" => pay'[req'[r].pay].inv = req'[r].inv
  PROVE  LinksInv'
<1>1. BlankUntilCreated'
  BY DEF LinksInv, BlankUntilCreated, NotCreated
<1>2. PaymentsOnInvoices'
  BY DEF PaymentsOnInvoices, Exists
<1>3. HandlersOnInvoices'
  <2> SUFFICES ASSUME NEW r \in Slots, req'[r] # Idle
               PROVE  inv'[req'[r].inv].status # "None"
    BY DEF HandlersOnInvoices, NotCreated
  <2>1. CASE req'[r] = req[r]
    <3>1. req[r].inv \in Invoices
      BY <2>1, RequestInvoice DEF PaymentsInv
    <3>2. inv[req[r].inv].status # "None"
      BY <2>1 DEF LinksInv, HandlersOnInvoices, NotCreated
    <3> QED
      BY <2>1, <3>1, <3>2
  <2> QED
    BY <2>1
<1>4. ReversalsOnInvoices'
  <2> SUFFICES ASSUME NEW r \in Slots, req'[r].op = "reverse"
               PROVE  \/ pay'[req'[r].pay].inv = req'[r].inv
                      \/ /\ pay'[req'[r].pay].inv = NoInvoice
                         /\ inv'[req'[r].inv].status = "Deleted"
    BY DEF ReversalsOnInvoices, ReversalOnInvoice, IsDeleted
  <2>1. req'[r] # Idle
    BY DEF Idle
  <2>2. CASE req'[r] = req[r]
    <3> DEFINE q == req[r]
    <3>1. q \in ReverseReq
      BY <2>2, RequestFields DEF PaymentsInv, TypeOK
    <3>2. q.pay \in Payments /\ q.inv \in Invoices
      BY <3>1 DEF ReverseReq
    <3>3. /\ ~Fresh(q.pay)
          /\ \/ pay[q.pay].inv = q.inv
             \/ pay[q.pay].inv = NoInvoice /\ inv[q.inv].status = "Deleted"
      BY <2>2 DEF PaymentsInv, LinksInv, ReversalsOnInvoices, ReversalsOfPayments,
         ReversalOnInvoice, IsDeleted
    <3>4. \/ pay'[q.pay].inv = pay[q.pay].inv
          \/ pay'[q.pay].inv = NoInvoice /\ inv'[pay[q.pay].inv].status = "Deleted"
      BY <3>2, <3>3
    <3>5. inv[q.inv].status = "Deleted" => inv'[q.inv].status = "Deleted"
      BY <3>2
    <3> QED
      BY <2>2, <3>3, <3>4, <3>5
  <2> QED
    BY <2>1, <2>2
<1>5. IsFiniteSet(UsedIds')
  <2> PICK new \in {{}} \cup {{p} : p \in Payments} : UsedIds' \subseteq UsedIds \cup new
    OBVIOUS
  <2>1. IsFiniteSet(UsedIds)
    BY DEF LinksInv
  <2>2. IsFiniteSet(UsedIds \cup new)
    <3>1. CASE new = {}
      BY <2>1, <3>1
    <3>2. CASE \E p \in Payments : new = {p}
      BY <2>1, <3>2, FS_AddElement
    <3> QED
      BY <3>1, <3>2
  <2> QED
    BY <2>2, FS_Subset
<1> QED
  BY <1>1, <1>2, <1>3, <1>4, <1>5 DEF LinksInv

\* Neither claim is disturbed on an invoice whose payments are left alone, whose
\* amount_paid and cash stay, or are moved by a form.
LEMMA TiesKept ==
  ASSUME PaymentsInv, LinksInv, NEW i \in Invoices, PaidTies(i), CashTies(i),
         Exists(i)' => Exists(i),
         \A p \in Payments :
           pay[p].inv = i \/ pay'[p].inv = i => pay'[p] = pay[p],
         hist'[i].paidIn = hist[i].paidIn, hist'[i].cashIn = hist[i].cashIn,
         hist[i].formMoved => hist'[i].formMoved,
         \/ hist'[i].formMoved
         \/ inv'[i].paid = inv[i].paid /\ cash'[i] = cash[i]
  PROVE  PaidTies(i)' /\ CashTies(i)'
<1>1. ActiveOn(i)' = ActiveOn(i)
  BY DEF ActiveOn
<1>2. \A p \in ActiveOn(i) : pay'[p].amount = pay[p].amount
  BY DEF ActiveOn
<1>3. ActiveTotal(i)' = ActiveTotal(i)
  BY <1>1, <1>2, ActiveTotalKept DEF PaymentsInv, LinksInv
<1>4. HasCardPayment(i)' <=> HasCardPayment(i)
  BY DEF HasCardPayment, ByCard
<1>5. PaidTies(i)'
  BY <1>3 DEF PaidTies
<1>6. CashTies(i)'
  BY <1>4 DEF CashTies
<1> QED
  BY <1>5, <1>6

LEMMA GoneTies ==
  ASSUME NEW i \in Invoices, ~Exists(i)'
  PROVE  PaidTies(i)' /\ CashTies(i)'
  BY DEF PaidTies, CashTies

BooksInv == PaymentsInv /\ LinksInv /\ MoneyInv

\* A slot is kept, given up, or taken by a handler on an invoice.
SlotsLinked ==
  \A r \in Slots :
    \/ req'[r] = req[r] \/ req'[r] = Idle
    \/ /\ inv'[req'[r].inv].status # "None"
       /\ req'[r].op = "reverse" => pay'[req'[r].pay].inv = req'[r].inv

LEMMA DoneLinked == ASSUME TypeOK, NEW r \in Slots, Done(r) PROVE SlotsLinked
  BY DEF TypeOK, Done, SlotsLinked

LEMMA PaymentsLeftAlone ==
  ASSUME BooksInv, TypeOK', pay' = pay, SlotsLinked,
         \A i \in Invoices :
           /\ inv'[i].status = "None" <=> inv[i].status = "None"
           /\ inv'[i].status = "Deleted" <=> inv[i].status = "Deleted"
           /\ inv'[i].status = "None"
                => cash'[i] = cash[i] /\ ar'[i] = ar[i] /\ hist'[i] = hist[i]
           /\ hist'[i].paidIn = hist[i].paidIn /\ hist'[i].cashIn = hist[i].cashIn
           /\ hist[i].formMoved => hist'[i].formMoved
           /\ \/ hist'[i].formMoved
              \/ inv'[i].paid = inv[i].paid /\ cash'[i] = cash[i]
  PROVE  LinksInv' /\ MoneyInv'
<1>1. LinksInv'
  <2>1. \A p \in Payments :
          pay'[p].inv # NoInvoice => inv'[pay'[p].inv].status \notin {"None", "Deleted"}
    <3>1. \A p \in Payments : pay[p].inv \in Invoices \cup {NoInvoice}
      BY PaymentFields DEF BooksInv, PaymentsInv
    <3> QED
      BY <3>1 DEF BooksInv, LinksInv, PaymentsOnInvoices, Exists
  <2>2. UsedIds' \subseteq UsedIds \cup {}
    BY DEF UsedIds, Fresh
  <2> QED
    BY <2>1, <2>2, LinksKept DEF BooksInv, SlotsLinked
<1>2. ASSUME NEW i \in Invoices
      PROVE  PaidTies(i)' /\ CashTies(i)'
  <2>1. PaidTies(i) /\ CashTies(i)
    BY DEF BooksInv, MoneyInv
  <2>2. Exists(i)' => Exists(i)
    BY DEF Exists
  <2> QED
    BY <2>1, <2>2, TiesKept DEF BooksInv
<1> QED
  BY <1>1, <1>2 DEF MoneyInv

\* Taking a slot.
LEMMA SlotTaken ==
  ASSUME BooksInv, TypeOK', NEW r \in Slots, NEW q,
         req' = [req EXCEPT ![r] = q], UNCHANGED tables,
         inv[q.inv].status # "None",
         q.op = "reverse" => pay[q.pay].inv = q.inv
  PROVE  LinksInv' /\ MoneyInv'
<1>1. UNCHANGED <<inv, pay, cash, ar, hist>>
  BY DEF tables, ledger
<1>2. SlotsLinked
  <2>1. \A x \in Slots : x # r => req'[x] = req[x]
    BY DEF BooksInv, PaymentsInv, TypeOK
  <2>2. req'[r] = q
    BY DEF BooksInv, PaymentsInv, TypeOK
  <2> QED
    BY <1>1, <2>1, <2>2 DEF SlotsLinked
<1> QED
  BY <1>1, <1>2, PaymentsLeftAlone

LEMMA BeginBooks ==
  ASSUME BooksInv, TypeOK', NEW r \in Slots, NEW i \in Invoices,
         BeginOn(r, i) \/ ReconcileBegin(r, i)
  PROVE  LinksInv' /\ MoneyInv'
<1>1. \E q : /\ q.op # "reverse" /\ q.inv = i
             /\ req' = [req EXCEPT ![r] = q] /\ Exists(i) /\ UNCHANGED tables
  <2>1. CASE \E amount \in Amounts,
                submission \in Submissions("payment") \cup {NoSubmission} :
               PaymentBegin(r, i, amount, submission)
    BY <2>1 DEF PaymentBegin
  <2>2. CASE EditBegin(r, i)
    BY <2>2 DEF EditBegin
  <2>3. CASE DeleteBegin(r, i)
    BY <2>3 DEF DeleteBegin
  <2>4. CASE CheckoutBegin(r, i)
    BY <2>4 DEF CheckoutBegin
  <2>5. CASE SettleStart(r, i)
    BY <2>5 DEF SettleStart, MaySettle
  <2> QED
    BY <2>1, <2>2, <2>3, <2>4, <2>5 DEF BeginOn, SettleBegin, ReconcileBegin
<1> QED
  BY <1>1, SlotTaken DEF Exists

LEMMA ReverseBeginBooks ==
  ASSUME BooksInv, TypeOK', NEW r \in Slots, NEW p \in Payments, ReverseBegin(r, p)
  PROVE  LinksInv' /\ MoneyInv'
<1> DEFINE q == [op |-> "reverse", pay |-> p, inv |-> pay[p].inv,
                 total |-> inv[pay[p].inv].total, void |-> IsVoid(pay[p].inv)]
<1>1. /\ req' = [req EXCEPT ![r] = q] /\ UNCHANGED tables
      /\ pay[p].inv # NoInvoice
  BY DEF ReverseBegin
<1>2. inv[pay[p].inv].status # "None"
  BY <1>1 DEF BooksInv, LinksInv, PaymentsOnInvoices, Exists
<1>3. q.pay = p /\ q.inv = pay[p].inv
  OBVIOUS
<1> HIDE DEF q
<1> QED
  BY <1>1, <1>2, <1>3, SlotTaken

LEMMA AnswerBooks ==
  ASSUME BooksInv, TypeOK', NEW r \in Slots, Answer(r)
  PROVE  LinksInv' /\ MoneyInv'
<1>1. Done(r) /\ UNCHANGED tables
  BY DEF Answer, PaymentRefuse, ReverseRefuse, SettleReturn, EditRefuse
<1>2. SlotsLinked /\ UNCHANGED <<inv, pay, cash, ar, hist>>
  BY <1>1, DoneLinked DEF BooksInv, PaymentsInv, tables, ledger
<1> QED
  BY <1>2, PaymentsLeftAlone

LEMMA VoidBooks ==
  ASSUME BooksInv, TypeOK', NEW i \in Invoices, VoidInvoice(i)
  PROVE  LinksInv' /\ MoneyInv'
<1>1. /\ inv' = [inv EXCEPT ![i] = [inv[i] EXCEPT !.status = "Void", !.balance = 0]]
      /\ Exists(i) /\ Post(i, -inv[i].balance, 0)
      /\ UNCHANGED <<pay, req, hist>>
  BY Zenon DEF VoidInvoice
<1>2. TypeOK
  BY DEF BooksInv, PaymentsInv
<1>3. \A j \in Invoices : /\ j # i => inv'[j] = inv[j] /\ ar'[j] = ar[j]
                          /\ cash'[j] = cash[j]
  BY <1>1, <1>2 DEF TypeOK, Post
<1>4. inv'[i].status = "Void" /\ inv'[i].paid = inv[i].paid
  <2>1. inv[i] \in InvoiceRow
    BY <1>2 DEF TypeOK
  <2>2. inv'[i] = [inv[i] EXCEPT !.status = "Void", !.balance = 0]
    BY <1>1, <1>2, Zenon DEF TypeOK
  <2>3. ASSUME NEW row \in InvoiceRow
        PROVE  [row EXCEPT !.status = "Void", !.balance = 0].status = "Void"
                 /\ [row EXCEPT !.status = "Void", !.balance = 0].paid = row.paid
    BY DEF InvoiceRow
  <2> QED
    BY <2>1, <2>2, <2>3
<1>5. SlotsLinked
  BY <1>1 DEF SlotsLinked
<1> QED
  BY <1>1, <1>3, <1>4, <1>5, PaymentsLeftAlone DEF Exists

-----------------------------------------------------------------------------
(***************************************************************************)
(* The rows that handlers write, field by field                            *)
(***************************************************************************)
LEMMA RepaidFields ==
  ASSUME NEW row \in InvoiceRow, NEW total \in Nat, NEW paid \in Nat
  PROVE  /\ Repaid(row, total, paid).paid = paid
         /\ Repaid(row, total, paid).total = row.total
         /\ Repaid(row, total, paid).balance = AtLeast0(total - paid)
         /\ Repaid(row, total, paid).status \in {"Paid", "Partial", "Unpaid"}
         /\ Repaid(row, total, paid).status = StatusFor(AtLeast0(total - paid), paid)
<1> DEFINE balance == AtLeast0(total - paid)
           status == StatusFor(balance, paid)
<1>1. Repaid(row, total, paid)
        = [row EXCEPT !.paid = paid, !.balance = balance, !.status = status]
  BY DEF Repaid
<1>2. status \in {"Paid", "Partial", "Unpaid"}
  BY StatusForType
<1> HIDE DEF balance, status
<1>3. /\ Repaid(row, total, paid).paid = paid
      /\ Repaid(row, total, paid).total = row.total
      /\ Repaid(row, total, paid).balance = balance
      /\ Repaid(row, total, paid).status = status
  BY <1>1 DEF InvoiceRow
<1> QED
  BY <1>2, <1>3 DEF balance, status

LEMMA RepaidPaid ==
  ASSUME NEW row \in InvoiceRow, NEW total \in Nat, NEW paid \in Nat
  PROVE  /\ Repaid(row, total, paid).paid = paid
         /\ Repaid(row, total, paid).status \notin {"None", "Void", "Deleted"}
<1>1. Repaid(row, total, paid).paid = paid
  BY RepaidFields, Zenon
<1>2. Repaid(row, total, paid).status \in {"Paid", "Partial", "Unpaid"}
  BY RepaidFields, Zenon
<1> QED
  BY <1>1, <1>2

\* An edit as one assignment of five fields.
EditedPaid(row, total, form) ==
  IF form = "Paid" THEN total
  ELSE IF form \in {"Unpaid", "Open", "Void"} THEN 0 ELSE row.paid
EditedBalance(row, total, deposit, form) ==
  IF form \in {"Paid", "Void"} THEN 0
  ELSE IF form \in {"Unpaid", "Open"} THEN total
  ELSE IF form = "Partial" THEN total - row.paid
  ELSE AtLeast0(total - row.paid - deposit)
EditedStatus(row, form) == IF form = "" THEN row.status ELSE form

LEMMA EditedFields ==
  ASSUME NEW row \in InvoiceRow, NEW total, NEW deposit, NEW form
  PROVE  /\ Edited(row, total, deposit, form).total = total
         /\ Edited(row, total, deposit, form).status = EditedStatus(row, form)
         /\ Edited(row, total, deposit, form).paid = EditedPaid(row, total, form)
         /\ Edited(row, total, deposit, form).balance
              = EditedBalance(row, total, deposit, form)
<1> DEFINE paid == CASE form = "Paid" -> total
                     [] form \in {"Unpaid", "Open", "Void"} -> 0
                     [] OTHER -> row.paid
           balance == CASE form \in {"Paid", "Void"} -> 0
                        [] form \in {"Unpaid", "Open"} -> total
                        [] form = "Partial" -> total - row.paid
                        [] OTHER -> AtLeast0(total - row.paid - deposit)
           status == IF form = "" THEN row.status ELSE form
           e == Edited(row, total, deposit, form)
<1>1. e = [row EXCEPT !.total = total, !.deposit = deposit, !.paid = paid,
                      !.balance = balance, !.status = status]
  BY DEF Edited, InvoiceRow
<1>2. paid = EditedPaid(row, total, form)
  BY DEF EditedPaid
<1>3. balance = EditedBalance(row, total, deposit, form)
  BY DEF EditedBalance
<1>4. status = EditedStatus(row, form)
  BY DEF EditedStatus
<1> HIDE DEF paid, balance, status, e
<1>5. e.total = total /\ e.status = status /\ e.paid = paid /\ e.balance = balance
  BY <1>1 DEF InvoiceRow
<1> QED
  BY <1>2, <1>3, <1>4, <1>5 DEF e

\* The statuses a form can send are neither those of a row that is not there.
LEMMA FormStatus ==
  \A form \in FormStatuses \cup OpeningStatuses : form \notin {"None", "Deleted"}
<1> FormStatuses \cup OpeningStatuses
      \subseteq {"", "Unpaid", "Open", "Partial", "Paid", "Void"}
  BY AmountsAssumption
<1> QED
  OBVIOUS

LEMMA EditBooks ==
  ASSUME BooksInv, TypeOK', NEW r \in Slots, NEW total \in Amounts,
         NEW deposit \in Deposits, NEW form \in FormStatuses,
         EditCommit(r, total, deposit, form)
  PROVE  LinksInv' /\ MoneyInv'
<1> DEFINE i == req[r].inv
           row == Edited(inv[i], total, deposit, form)
<1>1. TypeOK
  BY DEF BooksInv, PaymentsInv
<1>2. i \in Invoices
  BY <1>1, RequestFields DEF TypeOK, EditCommit, EditReq
<1>3. /\ inv' = [inv EXCEPT ![i] = row] /\ Exists(i)
      /\ Post(i, row.total - inv[i].total, row.paid - inv[i].paid)
      /\ hist' = [hist EXCEPT ![i].formMoved = @ \/ row.paid # inv[i].paid]
      /\ Done(r) /\ UNCHANGED pay
  BY DEF EditCommit
<1>4. inv[i] \in InvoiceRow
  BY <1>1, <1>2 DEF TypeOK
<1>5. row.status \notin {"None", "Deleted"} /\ row.paid \in Nat
  <2>1. row.status = IF form = "" THEN inv[i].status ELSE form
    <3>1. \A old \in InvoiceRow :
            Edited(old, total, deposit, form).status = EditedStatus(old, form)
      BY EditedFields
    <3>2. row.status = EditedStatus(inv[i], form)
      BY <1>4, <3>1
    <3> HIDE DEF row
    <3> QED
      BY <3>2 DEF EditedStatus
  <2>2. row \in InvoiceRow
    BY <1>4, EditedType
  <2> HIDE DEF row
  <2> QED
    BY <1>3, <2>1, <2>2, RowFields, FormStatus DEF Exists
<1> HIDE DEF row
<1>6. \A j \in Invoices :
        /\ j # i => inv'[j] = inv[j] /\ ar'[j] = ar[j] /\ cash'[j] = cash[j]
                      /\ hist'[j] = hist[j]
        /\ hist'[j].paidIn = hist[j].paidIn /\ hist'[j].cashIn = hist[j].cashIn
  BY <1>1, <1>2, <1>3 DEF TypeOK, Post, History
<1>7. inv'[i] = row /\ cash'[i] = cash[i] + (row.paid - inv[i].paid)
        /\ (hist'[i].formMoved <=> hist[i].formMoved \/ row.paid # inv[i].paid)
  BY <1>1, <1>2, <1>3 DEF TypeOK, Post, History
<1>8. \/ hist'[i].formMoved
      \/ inv'[i].paid = inv[i].paid /\ cash'[i] = cash[i]
  <2>1. cash[i] \in Int /\ inv[i].paid \in Nat
    BY <1>1, <1>2, InvoiceFields
  <2> QED
    BY <1>5, <1>7, <2>1
<1>9. SlotsLinked
  BY <1>1, <1>3, DoneLinked
<1> QED
  BY <1>3, <1>5, <1>6, <1>7, <1>8, <1>9, PaymentsLeftAlone DEF Exists

LEMMA CheckoutBooks ==
  ASSUME BooksInv, TypeOK', NEW r \in Slots, NEW s \in Sessions, CheckoutCommit(r, s)
  PROVE  LinksInv' /\ MoneyInv'
<1> DEFINE i == req[r].inv
<1>1. TypeOK
  BY DEF BooksInv, PaymentsInv
<1>2. /\ inv' = IF Exists(i) THEN [inv EXCEPT ![i].session = s] ELSE inv
      /\ Done(r) /\ UNCHANGED <<pay, hist, cash, ar>>
  BY DEF CheckoutCommit, ledger
<1>3. \A j \in Invoices : inv'[j].status = inv[j].status /\ inv'[j].paid = inv[j].paid
  BY <1>1, <1>2 DEF TypeOK, InvoiceRow
<1>4. SlotsLinked
  BY <1>1, <1>2, DoneLinked
<1> QED
  BY <1>2, <1>3, <1>4, PaymentsLeftAlone

LEMMA OutsideBooks ==
  ASSUME BooksInv, TypeOK',
         (\E s \in Sessions : ClientPays(s)) \/ Restart \/ UNCHANGED vars
  PROVE  LinksInv' /\ MoneyInv'
<1>1. SlotsLinked /\ UNCHANGED <<inv, pay, cash, ar, hist>>
  BY DEF ClientPays, Restart, vars, tables, ledger, SlotsLinked
<1> QED
  BY <1>1, PaymentsLeftAlone

-----------------------------------------------------------------------------
\* A payment recorded on an invoice: by hand, with its cash, or by card.
LEMMA PaymentAdded ==
  ASSUME BooksInv, TypeOK', SlotsLinked,
         NEW i \in Invoices, NEW p \in Payments, Fresh(p), Exists(i),
         NEW row \in PaymentRow, row.status = "Active", row.inv = i,
         pay' = [pay EXCEPT ![p] = row],
         inv'[i].status \notin {"None", "Deleted"},
         inv'[i].paid = inv[i].paid + row.amount,
         \A j \in Invoices : j # i => inv'[j] = inv[j] /\ cash'[j] = cash[j]
                                        /\ ar'[j] = ar[j],
         row.session = NoSession => cash'[i] = cash[i] + row.amount,
         hist' = hist
  PROVE  LinksInv' /\ MoneyInv'
<1>1. TypeOK /\ IsFiniteSet(UsedIds)
  BY DEF BooksInv, PaymentsInv, LinksInv
<1>2. pay'[p] = row /\ \A x \in Payments : x # p => pay'[x] = pay[x]
  BY <1>1 DEF TypeOK
<1>3. pay[p].inv = NoInvoice
  BY DEF BooksInv, PaymentsInv, UnusedIds, NoPayment
<1>4. LinksInv'
  <2>1. \A x \in Payments :
          pay'[x].inv # NoInvoice => inv'[pay'[x].inv].status \notin {"None", "Deleted"}
    <3>1. \A x \in Payments : pay[x].inv \in Invoices \cup {NoInvoice}
      BY <1>1, PaymentFields
    <3>2. \A x \in Payments :
            pay[x].inv # NoInvoice => inv[pay[x].inv].status \notin {"None", "Deleted"}
      BY DEF BooksInv, LinksInv, PaymentsOnInvoices, Exists
    <3>3. \A x \in Payments :
            pay[x].inv # NoInvoice => inv'[pay[x].inv].status \notin {"None", "Deleted"}
      BY <3>1, <3>2
    <3> QED
      BY <1>2, <3>3
  <2>2. UsedIds' \subseteq UsedIds \cup {p}
    BY <1>2 DEF UsedIds, Fresh
  <2>3. \A j \in Invoices :
          /\ inv'[j].status = "None" => /\ inv[j].status = "None" /\ cash'[j] = cash[j]
                                        /\ ar'[j] = ar[j] /\ hist'[j] = hist[j]
          /\ inv[j].status = "Deleted" => inv'[j].status = "Deleted"
    BY DEF Exists
  <2>4. \A x \in Payments : pay'[x].inv = pay[x].inv \/ Fresh(x)
    BY <1>2
  <2> QED
    BY <2>1, <2>2, <2>3, <2>4, LinksKept DEF BooksInv, SlotsLinked
<1>5. ASSUME NEW j \in Invoices
      PROVE  PaidTies(j)' /\ CashTies(j)'
  <2>1. PaidTies(j) /\ CashTies(j)
    BY DEF BooksInv, MoneyInv
  <2>2. CASE j # i
    <3>1. \A x \in Payments :
            pay[x].inv = j \/ pay'[x].inv = j => pay'[x] = pay[x]
      BY <1>2, <1>3, <2>2, NullsAssumption
    <3>2. Exists(j)' => Exists(j)
      BY <2>2 DEF Exists
    <3> QED
      BY <2>1, <2>2, <3>1, <3>2, TiesKept DEF BooksInv
  <2>3. CASE j = i
    <3>1. p \notin ActiveOn(i)
      BY DEF ActiveOn, Fresh
    <3>2. ActiveOn(i)' = ActiveOn(i) \cup {p}
      BY <1>2, <3>1 DEF ActiveOn
    <3>3. \A x \in ActiveOn(i) : pay'[x].amount = pay[x].amount
      BY <1>2, <3>1 DEF ActiveOn
    <3>4. ActiveTotal(i)' = ActiveTotal(i) + row.amount
      BY <1>1, <1>2, <3>1, <3>2, <3>3, ActiveTotalGains
    <3>5. row.amount \in Nat /\ ActiveTotal(i) \in Nat /\ cash[i] \in Int
            /\ inv[i].paid \in Nat /\ hist[i].paidIn \in Nat /\ hist[i].cashIn \in Nat
      BY <1>1, ActiveTotalType, InvoiceFields, HistoryFields DEF PaymentRow
    <3>6. PaidTies(i)'
      BY <2>1, <2>3, <3>4, <3>5 DEF PaidTies
    <3>7. CashTies(i)'
      <4> SUFFICES ASSUME ~HasCardPayment(i)', ~hist[i].formMoved
                   PROVE  cash'[i] - hist[i].cashIn = inv'[i].paid - hist[i].paidIn
        BY DEF CashTies
      <4>1. row.session = NoSession
        BY <1>2 DEF HasCardPayment, ByCard
      <4>2. ~HasCardPayment(i)
        BY <1>2, <1>3, NullsAssumption DEF HasCardPayment, ByCard
      <4>3. cash[i] - hist[i].cashIn = inv[i].paid - hist[i].paidIn
        BY <2>1, <2>3, <4>2 DEF CashTies
      <4> QED
        BY <3>5, <4>1, <4>3
    <3> QED
      BY <2>3, <3>6, <3>7
  <2> QED
    BY <2>2, <2>3
<1> QED
  BY <1>4, <1>5 DEF MoneyInv

LEMMA PaymentBooks ==
  ASSUME BooksInv, TypeOK', NEW r \in Slots, NEW p \in Payments, PaymentCommit(r, p)
  PROVE  LinksInv' /\ MoneyInv'
<1> DEFINE q == req[r]
           i == q.inv
           row == [status |-> "Active", inv |-> i, amount |-> q.amount,
                   submission |-> q.submission, session |-> NoSession]
           new == Repaid(inv[i], q.total, inv[i].paid + q.amount)
<1>1. TypeOK
  BY DEF BooksInv, PaymentsInv
<1>2. q \in PaymentReq
  BY <1>1, RequestFields DEF TypeOK, PaymentCommit
<1>3. /\ i \in Invoices /\ q.amount \in Nat /\ q.total \in Nat
      /\ q.submission \in Submission \cup {NoSubmission}
  BY <1>2 DEF PaymentReq
<1>4. /\ Fresh(p) /\ Exists(i)
      /\ pay' = [pay EXCEPT ![p] = row]
      /\ inv' = [inv EXCEPT ![i] = new]
      /\ Post(i, 0, q.amount) /\ Done(r) /\ hist' = hist
  BY DEF PaymentCommit, PaymentRefused
<1>5. inv[i] \in InvoiceRow /\ inv[i].paid + q.amount \in Nat
  BY <1>1, <1>3, RowFields DEF TypeOK
<1>6. new.paid = inv[i].paid + q.amount /\ new.status \notin {"None", "Deleted"}
  <2> DEFINE paid == inv[i].paid + q.amount
  <2>1. paid \in Nat
    BY <1>5
  <2> HIDE DEF paid
  <2>2. /\ Repaid(inv[i], q.total, paid).paid = paid
        /\ Repaid(inv[i], q.total, paid).status \notin {"None", "Deleted"}
    BY <1>3, <1>5, <2>1, RepaidPaid
  <2> QED
    BY <2>2 DEF paid
<1>7. /\ row \in PaymentRow /\ row.status = "Active" /\ row.inv = i
      /\ row.amount = q.amount
  BY <1>3 DEF PaymentRow
<1> HIDE DEF new, row
<1>8. /\ inv'[i] = new /\ cash'[i] = cash[i] + q.amount
      /\ \A j \in Invoices : j # i => inv'[j] = inv[j] /\ cash'[j] = cash[j]
                                        /\ ar'[j] = ar[j]
  BY <1>1, <1>3, <1>4 DEF TypeOK, Post
<1>9. SlotsLinked
  BY <1>1, <1>4, DoneLinked
<1> QED
  BY <1>3, <1>4, <1>6, <1>7, <1>8, <1>9, PaymentAdded

LEMMA SettleBooks ==
  ASSUME BooksInv, TypeOK', NEW r \in Slots, NEW p \in Payments, SettleCommit(r, p)
  PROVE  LinksInv' /\ MoneyInv'
<1> DEFINE q == req[r]
           i == q.inv
           amount == stripe[q.session].amount
           row == [status |-> "Active", inv |-> i, amount |-> amount,
                   submission |-> NoSubmission, session |-> q.session]
           new == Repaid(inv[i], inv[i].total, inv[i].paid + amount)
<1>1. TypeOK
  BY DEF BooksInv, PaymentsInv
<1>2. i \in Invoices /\ q.session \in Sessions
  BY <1>1, RequestFields DEF TypeOK, SettleCommit, SettleReq
<1>3. amount \in Nat
  BY <1>1, <1>2 DEF TypeOK, StripeSession
<1>4. /\ Fresh(p) /\ Exists(i)
      /\ pay' = [pay EXCEPT ![p] = row]
      /\ inv' = [inv EXCEPT ![i] = new]
      /\ UNCHANGED <<cash, ar, hist>> /\ Done(r)
  BY DEF SettleCommit, NothingToRecord, ledger
<1>5. inv[i] \in InvoiceRow /\ inv[i].total \in Nat /\ inv[i].paid + amount \in Nat
  BY <1>1, <1>2, <1>3, RowFields DEF TypeOK
<1>6. new.paid = inv[i].paid + amount /\ new.status \notin {"None", "Deleted"}
  BY <1>5, RepaidPaid
<1>7. /\ row \in PaymentRow /\ row.status = "Active" /\ row.inv = i
      /\ row.amount = amount /\ row.session # NoSession
  BY <1>2, <1>3, NullsAssumption DEF PaymentRow
<1> HIDE DEF new, row, amount
<1>8. inv'[i] = new /\ \A j \in Invoices : j # i => inv'[j] = inv[j]
  BY <1>1, <1>2, <1>4 DEF TypeOK
<1>9. SlotsLinked
  BY <1>1, <1>4, DoneLinked
<1> QED
  BY <1>2, <1>4, <1>6, <1>7, <1>8, <1>9, PaymentAdded

-----------------------------------------------------------------------------
\* The sum says that amount_paid covers the payment: nothing is cut off at zero.
LEMMA ReverseBooks ==
  ASSUME BooksInv, TypeOK', NEW r \in Slots, ReverseCommit(r)
  PROVE  LinksInv' /\ MoneyInv'
<1>1. TypeOK /\ IsFiniteSet(UsedIds)
  BY DEF BooksInv, PaymentsInv, LinksInv
<1>2. req[r] \in ReverseReq /\ req[r].op = "reverse"
  BY <1>1, RequestFields DEF TypeOK, ReverseCommit
<1> PICK q \in ReverseReq : q = req[r]
  BY <1>2
<1> DEFINE i == q.inv
           p == q.pay
           amount == pay[p].amount
           newPaid == AtLeast0(inv[i].paid - amount)
           row == IF ~Exists(i) THEN inv[i]
                  ELSE IF q.void THEN [inv[i] EXCEPT !.paid = newPaid]
                  ELSE Repaid(inv[i], q.total, newPaid)
<1>3. i \in Invoices /\ p \in Payments /\ q.total \in Nat
  BY DEF ReverseReq
<1>4. /\ Claimable(p) /\ pay' = [pay EXCEPT ![p].status = "Reversed"]
      /\ inv' = [inv EXCEPT ![i] = row]
      /\ Post(i, 0, -amount) /\ Done(r) /\ hist' = hist
  BY DEF ReverseCommit
<1>5. pay[p].status = "Active"
  BY <1>1, <1>2, <1>3, <1>4, PaymentFields DEF BooksInv, PaymentsInv,
     ReversalsOfPayments, Claimable, Fresh
<1>6. \/ pay[p].inv = i
      \/ pay[p].inv = NoInvoice /\ inv[i].status = "Deleted"
  BY <1>2 DEF BooksInv, LinksInv, ReversalsOnInvoices, ReversalOnInvoice, IsDeleted
<1>7. /\ inv[i] \in InvoiceRow /\ amount \in Nat
      /\ inv[i].paid \in Nat /\ cash[i] \in Int
      /\ hist[i].paidIn \in Nat /\ hist[i].cashIn \in Nat
  BY <1>1, <1>3, PaymentFields, InvoiceFields, HistoryFields DEF TypeOK
<1>8. newPaid \in Nat
  BY <1>7, AtLeast0Type
<1>9. /\ inv[i].status \in {"None", "Deleted"} => row = inv[i]
      /\ Exists(i) => row.status \notin {"None", "Deleted"} /\ row.paid = newPaid
  <2>1. ~Exists(i) => row = inv[i]
    OBVIOUS
  <2>2. Exists(i) /\ q.void => row = [inv[i] EXCEPT !.paid = newPaid]
    OBVIOUS
  <2>3. Exists(i) /\ ~q.void => row = Repaid(inv[i], q.total, newPaid)
    OBVIOUS
  <2>4. newPaid \in Nat /\ inv[i] \in InvoiceRow /\ q.total \in Nat
    BY <1>3, <1>7, <1>8
  <2> HIDE DEF row, newPaid
  <2>5. /\ Repaid(inv[i], q.total, newPaid).paid = newPaid
        /\ Repaid(inv[i], q.total, newPaid).status \notin {"None", "Deleted"}
    BY <2>4, RepaidPaid
  <2>6. /\ [inv[i] EXCEPT !.paid = newPaid].status = inv[i].status
        /\ [inv[i] EXCEPT !.paid = newPaid].paid = newPaid
    BY <2>4 DEF InvoiceRow
  <2> QED
    BY <2>1, <2>2, <2>3, <2>5, <2>6 DEF Exists
<1> HIDE DEF row
<1>10. /\ inv'[i] = row
       /\ \A j \in Invoices : j # i => /\ inv'[j] = inv[j] /\ cash'[j] = cash[j]
                                       /\ ar'[j] = ar[j]
       /\ cash'[i] = cash[i] - amount
  <2>1. inv'[i] = row /\ \A j \in Invoices : j # i => inv'[j] = inv[j]
    BY <1>1, <1>3, <1>4 DEF TypeOK
  <2>2. \A j \in Invoices : j # i => cash'[j] = cash[j] /\ ar'[j] = ar[j]
    BY <1>1, <1>3, <1>4 DEF TypeOK, Post
  <2>3. cash'[i] = cash[i] - amount
    <3> HIDE DEF amount
    <3> QED
      BY <1>1, <1>3, <1>4, <1>7 DEF TypeOK, Post
  <2> QED
    BY <2>1, <2>2, <2>3
<1>11. /\ pay'[p].status = "Reversed"
       /\ \A x \in Payments : /\ x # p => pay'[x] = pay[x]
                              /\ pay'[x].inv = pay[x].inv
                              /\ pay'[x].amount = pay[x].amount
                              /\ pay'[x].session = pay[x].session
  BY <1>1, <1>3, <1>4 DEF TypeOK, PaymentRow
<1>12. inv[i].status # "None"
  <2>1. q # Idle
    BY <1>2 DEF Idle
  <2> QED
    BY <2>1 DEF BooksInv, LinksInv, HandlersOnInvoices, NotCreated
<1>13. LinksInv'
  <2>1. \A x \in Payments :
          pay'[x].inv # NoInvoice => inv'[pay'[x].inv].status \notin {"None", "Deleted"}
    <3>1. \A x \in Payments : pay[x].inv \in Invoices \cup {NoInvoice}
      BY <1>1, PaymentFields
    <3>2. \A x \in Payments :
            pay[x].inv # NoInvoice => Exists(pay[x].inv)
      BY DEF BooksInv, LinksInv, PaymentsOnInvoices
    <3>3. \A j \in Invoices : Exists(j) => inv'[j].status \notin {"None", "Deleted"}
      BY <1>9, <1>10 DEF Exists
    <3> QED
      BY <1>11, <3>1, <3>2, <3>3
  <2>2. UsedIds' \subseteq UsedIds \cup {}
    BY <1>5, <1>11 DEF UsedIds, Fresh
  <2>3. \A j \in Invoices :
          /\ inv'[j].status = "None" => /\ inv[j].status = "None" /\ cash'[j] = cash[j]
                                        /\ ar'[j] = ar[j] /\ hist'[j] = hist[j]
          /\ inv[j].status = "Deleted" => inv'[j].status = "Deleted"
    BY <1>4, <1>9, <1>10, <1>12 DEF Exists
  <2>4. SlotsLinked
    BY <1>1, <1>4, DoneLinked
  <2> QED
    BY <1>11, <2>1, <2>2, <2>3, <2>4, LinksKept DEF BooksInv, SlotsLinked
<1>14. ASSUME NEW j \in Invoices
       PROVE  PaidTies(j)' /\ CashTies(j)'
  <2>1. PaidTies(j) /\ CashTies(j)
    BY DEF BooksInv, MoneyInv
  <2>2. CASE j # i
    <3>1. \A x \in Payments :
            pay[x].inv = j \/ pay'[x].inv = j => pay'[x] = pay[x]
      BY <1>6, <1>11, <2>2, NullsAssumption
    <3>2. Exists(j)' => Exists(j)
      BY <1>10, <2>2 DEF Exists
    <3> QED
      BY <1>4, <1>10, <2>1, <2>2, <3>1, <3>2, TiesKept DEF BooksInv
  <2>3. CASE j = i /\ ~Exists(i)
    <3>1. ~Exists(i)'
      BY <1>9, <1>10, <2>3 DEF Exists
    <3> QED
      BY <1>3, <2>3, <3>1, GoneTies
  <2>4. CASE j = i /\ Exists(i)
    <3>1. pay[p].inv = i /\ p \in ActiveOn(i)
      BY <1>3, <1>5, <1>6, <2>4 DEF Exists, ActiveOn
    <3>2. ActiveOn(i)' = ActiveOn(i) \ {p}
      BY <1>11 DEF ActiveOn
    <3>3. \A x \in ActiveOn(i) : pay'[x].amount = pay[x].amount
      BY <1>11 DEF ActiveOn
    <3>4. ActiveTotal(i) = amount + ActiveTotal(i)'
      BY <1>1, <3>1, <3>2, <3>3, ActiveTotalLoses
    <3>5. ActiveTotal(i)' \in Nat
      BY <1>1, <1>11, <3>1, <3>2, ActiveTotalAfter
    <3>6. ~hist[i].formMoved => inv[i].paid = hist[i].paidIn + ActiveTotal(i)
      BY <2>1, <2>4 DEF PaidTies
    <3>7. ~hist[i].formMoved => newPaid = inv[i].paid - amount
      BY <1>7, <3>4, <3>5, <3>6 DEF AtLeast0
    <3>8. HasCardPayment(i)' <=> HasCardPayment(i)
      BY <1>11 DEF HasCardPayment, ByCard
    <3>9. row.paid = newPaid
      BY <1>9, <2>4
    <3> HIDE DEF newPaid, amount
    <3>10. PaidTies(i)'
      BY <1>4, <1>7, <1>10, <3>4, <3>5, <3>6, <3>7, <3>9 DEF PaidTies
    <3>11. CashTies(i)'
      BY <1>4, <1>7, <1>10, <2>1, <2>4, <3>7, <3>8, <3>9 DEF CashTies
    <3> QED
      BY <2>4, <3>10, <3>11
  <2> QED
    BY <2>2, <2>3, <2>4
<1> QED
  BY <1>13, <1>14 DEF MoneyInv

LEMMA DeleteBooks ==
  ASSUME BooksInv, TypeOK', NEW r \in Slots, DeleteCommit(r)
  PROVE  LinksInv' /\ MoneyInv'
<1>1. TypeOK
  BY DEF BooksInv, PaymentsInv
<1>2. req[r].inv \in Invoices /\ req[r] # Idle
  BY <1>1, RequestFields DEF TypeOK, DeleteCommit, DeleteReq, Idle
<1> PICK i \in Invoices : i = req[r].inv
  BY <1>2
<1>3. /\ inv' = [inv EXCEPT ![i] = NoRow("Deleted")]
      /\ pay' = [p \in Payments |->
           IF pay[p].inv = i THEN [pay[p] EXCEPT !.inv = NoInvoice] ELSE pay[p]]
      /\ Done(r) /\ UNCHANGED <<cash, ar, hist>>
  BY DEF DeleteCommit, ledger
<1>4. /\ inv'[i].status = "Deleted"
      /\ \A j \in Invoices : j # i => inv'[j] = inv[j]
  BY <1>1, <1>3 DEF TypeOK, NoRow
<1>5. \A p \in Payments :
        /\ pay[p].inv = i => pay'[p].inv = NoInvoice
        /\ pay[p].inv # i => pay'[p] = pay[p]
        /\ pay'[p].status = pay[p].status
  BY <1>1, <1>3 DEF TypeOK, PaymentRow
<1>6. inv[i].status # "None"
  BY <1>2 DEF BooksInv, LinksInv, HandlersOnInvoices, NotCreated
<1>7. LinksInv'
  <2>1. \A p \in Payments :
          pay'[p].inv # NoInvoice => inv'[pay'[p].inv].status \notin {"None", "Deleted"}
    <3>1. \A p \in Payments : pay[p].inv \in Invoices \cup {NoInvoice}
      BY <1>1, PaymentFields
    <3>2. \A p \in Payments : pay[p].inv # NoInvoice => Exists(pay[p].inv)
      BY DEF BooksInv, LinksInv, PaymentsOnInvoices
    <3> QED
      BY <1>4, <1>5, <3>1, <3>2 DEF Exists
  <2>2. UsedIds' \subseteq UsedIds \cup {}
    BY <1>5 DEF UsedIds, Fresh
  <2>3. \A j \in Invoices :
          /\ inv'[j].status = "None" => /\ inv[j].status = "None" /\ cash'[j] = cash[j]
                                        /\ ar'[j] = ar[j] /\ hist'[j] = hist[j]
          /\ inv[j].status = "Deleted" => inv'[j].status = "Deleted"
    BY <1>3, <1>4
  <2>4. SlotsLinked
    BY <1>1, <1>3, DoneLinked
  <2>5. \A p \in Payments :
          \/ pay'[p].inv = pay[p].inv
          \/ pay'[p].inv = NoInvoice /\ inv'[pay[p].inv].status = "Deleted"
    BY <1>4, <1>5
  <2> QED
    BY <2>1, <2>2, <2>3, <2>4, <2>5, LinksKept DEF BooksInv, SlotsLinked
<1>8. ASSUME NEW j \in Invoices
      PROVE  PaidTies(j)' /\ CashTies(j)'
  <2>1. PaidTies(j) /\ CashTies(j)
    BY DEF BooksInv, MoneyInv
  <2>2. CASE j # i
    <3>1. \A p \in Payments :
            pay[p].inv = j \/ pay'[p].inv = j => pay'[p] = pay[p]
      BY <1>5, <2>2, NullsAssumption
    <3>2. Exists(j)' => Exists(j)
      BY <1>4, <2>2 DEF Exists
    <3> QED
      BY <1>3, <1>4, <2>1, <2>2, <3>1, <3>2, TiesKept DEF BooksInv
  <2>3. CASE j = i
    BY <1>4, <2>3, GoneTies DEF Exists
  <2> QED
    BY <2>2, <2>3
<1> QED
  BY <1>7, <1>8 DEF MoneyInv

\* A new row, without payments or with the one of a sales receipt.
LEMMA CreatedLinks ==
  ASSUME BooksInv, TypeOK', NEW i \in Invoices, inv[i].status = "None",
         inv'[i].status \notin {"None", "Deleted"},
         \A j \in Invoices : j # i => /\ inv'[j] = inv[j] /\ cash'[j] = cash[j]
                                      /\ ar'[j] = ar[j] /\ hist'[j] = hist[j],
         req' = req,
         \A p \in Payments : pay'[p] = pay[p] \/ (Fresh(p) /\ pay'[p].inv = i),
         \E new \in {{}} \cup {{p} : p \in Payments} : UsedIds' \subseteq UsedIds \cup new
  PROVE  LinksInv' /\ \A j \in Invoices \ {i} : PaidTies(j)' /\ CashTies(j)'
<1>1. TypeOK
  BY DEF BooksInv, PaymentsInv
<1>2. \A p \in Payments : pay[p].inv \in Invoices \cup {NoInvoice}
  BY <1>1, PaymentFields
<1>3. \A p \in Payments : pay[p].inv # NoInvoice => Exists(pay[p].inv)
  BY DEF BooksInv, LinksInv, PaymentsOnInvoices
<1>4. LinksInv'
  <2>1. \A p \in Payments :
          pay'[p].inv # NoInvoice => inv'[pay'[p].inv].status \notin {"None", "Deleted"}
    BY <1>2, <1>3 DEF Exists
  <2>2. \A j \in Invoices :
          /\ inv'[j].status = "None" => /\ inv[j].status = "None" /\ cash'[j] = cash[j]
                                        /\ ar'[j] = ar[j] /\ hist'[j] = hist[j]
          /\ inv[j].status = "Deleted" => inv'[j].status = "Deleted"
    OBVIOUS
  <2>3. \A p \in Payments : pay'[p].inv = pay[p].inv \/ Fresh(p)
    OBVIOUS
  <2> QED
    BY <2>1, <2>2, <2>3, LinksKept DEF BooksInv
<1>5. ASSUME NEW j \in Invoices \ {i}
      PROVE  PaidTies(j)' /\ CashTies(j)'
  <2>1. PaidTies(j) /\ CashTies(j)
    BY DEF BooksInv, MoneyInv
  <2>2. \A p \in Payments : Fresh(p) => pay[p].inv = NoInvoice
    BY DEF BooksInv, PaymentsInv, UnusedIds, NoPayment
  <2>3. \A p \in Payments : pay[p].inv = j \/ pay'[p].inv = j => pay'[p] = pay[p]
    BY <2>2, NullsAssumption
  <2>4. Exists(j)' => Exists(j)
    BY DEF Exists
  <2> QED
    BY <2>1, <2>3, <2>4, TiesKept DEF BooksInv
<1> QED
  BY <1>4, <1>5

LEMMA CreatedTies ==
  ASSUME BooksInv, NEW i \in Invoices, inv[i].status = "None", pay' = pay,
         inv'[i].paid = hist'[i].paidIn, cash'[i] = hist'[i].cashIn,
         inv'[i].paid \in Nat, cash'[i] \in Int
  PROVE  PaidTies(i)' /\ CashTies(i)'
<1>1. \A p \in Payments : pay[p].inv # i
  BY NullsAssumption DEF BooksInv, LinksInv, PaymentsOnInvoices, Exists
<1>2. ActiveOn(i)' = {}
  BY <1>1 DEF ActiveOn
<1>3. ActiveTotal(i)' = 0
  BY <1>2, SumEmpty DEF ActiveTotal
<1> QED
  BY <1>3 DEF PaidTies, CashTies

LEMMA NothingBooked ==
  ASSUME BooksInv, NEW i \in Invoices, inv[i].status = "None"
  PROVE  /\ cash[i] = 0 /\ ar[i] = 0
         /\ hist[i].paidIn = 0 /\ hist[i].cashIn = 0 /\ hist[i].formMoved = FALSE
  BY DEF BooksInv, LinksInv, BlankUntilCreated, NotCreated

LEMMA CreateInvoiceBooks ==
  ASSUME BooksInv, TypeOK', NEW i \in Invoices, NEW total \in Amounts,
         NEW paid \in OpeningPaid, NEW deposit \in Deposits,
         NEW form \in OpeningStatuses,
         CreateInvoice(i, total, paid, deposit, form)
  PROVE  LinksInv' /\ MoneyInv'
<1> DEFINE balance == AtLeast0(total - paid - deposit)
           status == IF form = "" THEN StatusFor(balance, paid + deposit) ELSE form
           row == [status |-> status, total |-> total, paid |-> paid,
                   deposit |-> deposit, balance |-> balance, session |-> NoSession]
           cashIn == paid + deposit
<1>1. TypeOK
  BY DEF BooksInv, PaymentsInv
<1>2. paid \in Nat /\ deposit \in Nat /\ cashIn \in Nat
  <2>1. \A x \in Deposits \cup OpeningPaid : x \in Nat
    BY FormTypes
  <2>2. paid \in Nat /\ deposit \in Nat
    BY <2>1
  <2> QED
    BY <2>2
<1>3. status \notin {"None", "Deleted"}
  BY StatusForType, FormStatus
<1>4. /\ inv[i].status = "None"
      /\ inv' = [inv EXCEPT ![i] = row]
      /\ Post(i, total, cashIn)
      /\ hist' = [hist EXCEPT ![i] = [@ EXCEPT !.paidIn = paid, !.cashIn = cashIn]]
      /\ UNCHANGED <<pay, req>>
  BY DEF CreateInvoice
<1> HIDE DEF balance, status, cashIn
<1>5. row.status = status /\ row.paid = paid
  OBVIOUS
<1> HIDE DEF row
<1>6. /\ inv'[i] = row /\ cash'[i] = cash[i] + cashIn
      /\ \A j \in Invoices : j # i => /\ inv'[j] = inv[j] /\ cash'[j] = cash[j]
                                      /\ ar'[j] = ar[j] /\ hist'[j] = hist[j]
  BY <1>1, <1>4 DEF TypeOK, Post
<1>7. hist'[i].paidIn = paid /\ hist'[i].cashIn = cashIn
  BY <1>1, <1>2, <1>4 DEF TypeOK, History
<1>8. LinksInv' /\ \A j \in Invoices \ {i} : PaidTies(j)' /\ CashTies(j)'
  <2>1. UsedIds' \subseteq UsedIds \cup {}
    BY <1>4 DEF UsedIds, Fresh
  <2> QED
    BY <1>3, <1>4, <1>5, <1>6, <2>1, CreatedLinks
<1>9. PaidTies(i)' /\ CashTies(i)'
  <2>1. cash[i] = 0 /\ hist[i].cashIn = 0
    BY <1>4, NothingBooked
  <2>2. cash'[i] = hist'[i].cashIn /\ cash'[i] \in Int
    BY <1>2, <1>4, <1>6, <1>7, <2>1
  <2>3. inv'[i].paid = hist'[i].paidIn /\ inv'[i].paid \in Nat
    BY <1>2, <1>5, <1>6, <1>7
  <2>4. pay' = pay /\ inv[i].status = "None"
    BY <1>4
  <2> QED
    BY <2>2, <2>3, <2>4, CreatedTies
<1> QED
  BY <1>8, <1>9 DEF MoneyInv

LEMMA ConvertBooks ==
  ASSUME BooksInv, TypeOK', NEW i \in Invoices, NEW total \in Amounts,
         NEW deposit \in Deposits, ConvertEstimate(i, total, deposit)
  PROVE  LinksInv' /\ MoneyInv'
<1> DEFINE status == IF total - deposit > 0 THEN "Open" ELSE "Paid"
           row == [status |-> status, total |-> total, paid |-> deposit,
                   deposit |-> deposit, balance |-> total - deposit,
                   session |-> NoSession]
<1>1. TypeOK
  BY DEF BooksInv, PaymentsInv
<1>2. deposit \in Nat
  BY FormTypes
<1>3. status \notin {"None", "Deleted"}
  OBVIOUS
<1>4. /\ inv[i].status = "None"
      /\ inv' = [inv EXCEPT ![i] = row]
      /\ hist' = [hist EXCEPT ![i].paidIn = deposit]
      /\ UNCHANGED <<pay, req, cash, ar>>
  BY DEF ConvertEstimate, ledger
<1> HIDE DEF status
<1>5. row.status = status /\ row.paid = deposit
  OBVIOUS
<1> HIDE DEF row
<1>6. /\ inv'[i] = row
      /\ \A j \in Invoices : j # i => inv'[j] = inv[j] /\ hist'[j] = hist[j]
  BY <1>1, <1>4 DEF TypeOK
<1>7. hist'[i].paidIn = deposit /\ hist'[i].cashIn = hist[i].cashIn
  BY <1>1, <1>2, <1>4 DEF TypeOK, History
<1>8. LinksInv' /\ \A j \in Invoices \ {i} : PaidTies(j)' /\ CashTies(j)'
  <2>1. UsedIds' \subseteq UsedIds \cup {}
    BY <1>4 DEF UsedIds, Fresh
  <2> QED
    BY <1>3, <1>4, <1>5, <1>6, <2>1, CreatedLinks
<1>9. PaidTies(i)' /\ CashTies(i)'
  <2>1. cash[i] = 0 /\ hist[i].cashIn = 0
    BY <1>4, NothingBooked
  <2>2. cash'[i] = hist'[i].cashIn /\ cash'[i] \in Int
    BY <1>2, <1>4, <1>6, <1>7, <2>1 DEF ledger
  <2>3. inv'[i].paid = hist'[i].paidIn /\ inv'[i].paid \in Nat
    BY <1>2, <1>5, <1>6, <1>7
  <2>4. pay' = pay /\ inv[i].status = "None"
    BY <1>4
  <2> QED
    BY <2>2, <2>3, <2>4, CreatedTies
<1> QED
  BY <1>8, <1>9 DEF MoneyInv

LEMMA ReceiptBooks ==
  ASSUME BooksInv, TypeOK', NEW i \in Invoices, NEW p \in Payments,
         NEW amount \in Amounts,
         NEW submission \in Submissions("receipt") \cup {NoSubmission},
         SalesReceipt(i, p, amount, submission)
  PROVE  LinksInv' /\ MoneyInv'
<1> DEFINE row == [status |-> "Paid", total |-> amount, paid |-> amount,
                   deposit |-> 0, balance |-> 0, session |-> NoSession]
           new == [status |-> "Active", inv |-> i, amount |-> amount,
                   submission |-> submission, session |-> NoSession]
<1>1. TypeOK /\ IsFiniteSet(UsedIds)
  BY DEF BooksInv, PaymentsInv, LinksInv
<1>2. amount \in Nat
  BY FormTypes
<1>3. /\ inv[i].status = "None" /\ Fresh(p)
      /\ inv' = [inv EXCEPT ![i] = row]
      /\ pay' = [pay EXCEPT ![p] = new]
      /\ Post(i, amount, amount)
      /\ UNCHANGED <<req, hist>>
  BY DEF SalesReceipt
<1>4. /\ row.status = "Paid" /\ row.paid = amount
      /\ new.status = "Active" /\ new.inv = i /\ new.amount = amount
      /\ new.session = NoSession
  OBVIOUS
<1> HIDE DEF row, new
<1>5. /\ inv'[i] = row /\ cash'[i] = cash[i] + amount
      /\ \A j \in Invoices : j # i => /\ inv'[j] = inv[j] /\ cash'[j] = cash[j]
                                      /\ ar'[j] = ar[j]
      /\ pay'[p] = new /\ \A x \in Payments : x # p => pay'[x] = pay[x]
  BY <1>1, <1>3 DEF TypeOK, Post
<1>6. LinksInv' /\ \A j \in Invoices \ {i} : PaidTies(j)' /\ CashTies(j)'
  <2>1. UsedIds' \subseteq UsedIds \cup {p}
    BY <1>5 DEF UsedIds, Fresh
  <2>2. inv'[i].status \notin {"None", "Deleted"}
    BY <1>4, <1>5
  <2>3. \A x \in Payments : pay'[x] = pay[x] \/ (Fresh(x) /\ pay'[x].inv = i)
    BY <1>3, <1>4, <1>5
  <2> QED
    BY <1>3, <1>5, <2>1, <2>2, <2>3, CreatedLinks
<1>7. \A x \in Payments : pay[x].inv # i
  BY <1>3, NullsAssumption DEF BooksInv, LinksInv, PaymentsOnInvoices, Exists
<1>8. PaidTies(i)' /\ CashTies(i)'
  <2>1. ActiveOn(i) = {} /\ ActiveOn(i)' = ActiveOn(i) \cup {p}
    BY <1>4, <1>5, <1>7 DEF ActiveOn
  <2>2. ActiveTotal(i) = 0
    BY <2>1, SumEmpty DEF ActiveTotal
  <2>3. ActiveTotal(i)' = ActiveTotal(i) + pay'[p].amount
    BY <1>1, <2>1, ActiveTotalGains
  <2>4. ActiveTotal(i)' = amount
    BY <1>2, <1>4, <1>5, <2>2, <2>3
  <2>5. cash[i] = 0 /\ hist[i].paidIn = 0 /\ hist[i].cashIn = 0
    BY <1>3, NothingBooked
  <2>6. inv'[i].paid = amount /\ cash'[i] = amount /\ hist' = hist
    BY <1>2, <1>3, <1>4, <1>5, <2>5
  <2> QED
    BY <1>2, <2>4, <2>5, <2>6 DEF PaidTies, CashTies
<1> QED
  BY <1>6, <1>8 DEF MoneyInv

-----------------------------------------------------------------------------
LEMMA InitBooks == Init => BooksInv
<1> SUFFICES ASSUME Init
             PROVE  BooksInv
  OBVIOUS
<1>1. PaymentsInv
  BY InitPayments
<1>2. /\ \A i \in Invoices : /\ inv[i].status = "None" /\ cash[i] = 0 /\ ar[i] = 0
                             /\ hist[i] = [paidIn |-> 0, cashIn |-> 0, formMoved |-> FALSE]
      /\ \A p \in Payments : pay[p].inv = NoInvoice /\ pay[p].status = "None"
      /\ \A r \in Slots : req[r] = Idle
  BY DEF Init, NoRow, NoPayment
<1>3. UsedIds = {}
  BY <1>2 DEF UsedIds, Fresh
<1>4. LinksInv
  BY <1>2, <1>3, FS_EmptySet DEF LinksInv, BlankUntilCreated, PaymentsOnInvoices,
     HandlersOnInvoices, ReversalsOnInvoices, Idle
<1>5. MoneyInv
  BY <1>2 DEF MoneyInv, PaidTies, CashTies, Exists
<1> QED
  BY <1>1, <1>4, <1>5 DEF BooksInv

LEMMA NextBooks == BooksInv /\ [Next]_vars => BooksInv'
<1> SUFFICES ASSUME BooksInv, [Next]_vars
             PROVE  LinksInv' /\ MoneyInv'
  BY NextPayments DEF BooksInv
<1>1. TypeOK'
  BY NextType DEF BooksInv, PaymentsInv
<1>2. CASE AtOnce
  BY <1>1, <1>2, CreateInvoiceBooks, ReceiptBooks, ConvertBooks, VoidBooks
     DEF AtOnce, Create
<1>3. CASE \E r \in Slots, i \in Invoices : BeginOn(r, i) \/ ReconcileBegin(r, i)
  BY <1>1, <1>3, BeginBooks
<1>4. CASE \E r \in Slots, p \in Payments : ReverseBegin(r, p)
  BY <1>1, <1>4, ReverseBeginBooks
<1>5. CASE \E r \in Slots : Answer(r) \/ Commit(r)
  <2> PICK r \in Slots : Answer(r) \/ Commit(r)
    BY <1>5
  <2> QED
    BY <1>1, AnswerBooks, PaymentBooks, ReverseBooks, EditBooks, DeleteBooks,
       CheckoutBooks, SettleBooks DEF Commit
<1>6. CASE (\E s \in Sessions : ClientPays(s)) \/ Restart \/ UNCHANGED vars
  BY <1>1, <1>6, OutsideBooks
<1>7. Requests \subseteq Slots /\ Crons \subseteq Slots
  BY DEF Slots
<1> QED
  BY <1>2, <1>3, <1>4, <1>5, <1>6, <1>7 DEF Next, InFlight

LEMMA BooksInvariant == Spec => []BooksInv
<1>1. Init => BooksInv
  BY InitBooks
<1>2. BooksInv /\ [Next]_vars => BooksInv'
  BY NextBooks
<1> QED
  BY <1>1, <1>2, PTL DEF Spec

\* For any number of racing payments, reversals, settlements, edits, voids,
\* deletions and restarts: amount_paid is what the invoice was opened with plus
\* its active payments.
THEOREM NoPaymentLost == Spec => []AmountPaidIsActivePayments
<1>1. BooksInv => AmountPaidIsActivePayments
  BY DEF BooksInv, MoneyInv, PaidTies, AmountPaidIsActivePayments
<1> QED
  BY <1>1, BooksInvariant, PTL

\* And the ledger's cash moves with it, card payments and forms apart.
THEOREM CashFollowsAmountPaid == Spec => []CashTiesToAmountPaid
<1>1. BooksInv => CashTiesToAmountPaid
  BY DEF BooksInv, MoneyInv, CashTies, CashTiesToAmountPaid
<1> QED
  BY <1>1, BooksInvariant, PTL

-----------------------------------------------------------------------------
(***************************************************************************)
(* Handlers that run one at a time.  With a single slot nothing commits    *)
(* between a handler's early reads and its own transaction, so what it     *)
(* read is still so when it commits.                                       *)
(***************************************************************************)
OneAtATime == \A r, s \in Slots : r = s

CurrentRead(q) ==
  /\ Exists(q.inv)
  /\ q.op = "payment" => ~IsVoid(q.inv) /\ q.total = inv[q.inv].total
  /\ q.op = "reverse" => /\ pay[q.pay].inv = q.inv
                         /\ q.total = inv[q.inv].total
                         /\ q.void = IsVoid(q.inv)
  /\ q.op = "edit" => ~IsVoid(q.inv)
  /\ q.op = "delete" => ~HasPayments(q.inv)
  /\ q.op = "settle" => inv[q.inv].balance > 0
EarlyReadsHold == \A r \in Slots : req[r] # Idle => CurrentRead(req[r])

SerialInv == BooksInv /\ EarlyReadsHold

\* Serial steps are steps.
LEMMA SerialIsNext == [SerialNext]_vars => [Next]_vars
  BY DEF SerialNext, Next

LEMMA SerialBooks == SerialSpec => []BooksInv
<1>1. Init => BooksInv
  BY InitBooks
<1>2. BooksInv /\ [SerialNext]_vars => BooksInv'
  BY NextBooks, SerialIsNext
<1> QED
  BY <1>1, <1>2, PTL DEF SerialSpec

\* A handler that takes the slot has just read what CurrentRead says.
LEMMA BeginReads ==
  ASSUME OneAtATime, TypeOK, BooksInv, NEW r \in Slots, NEW q,
         req' = [req EXCEPT ![r] = q], UNCHANGED tables, CurrentRead(q)
  PROVE  EarlyReadsHold'
<1>1. \A x \in Slots : req'[x] = q
  BY DEF OneAtATime, TypeOK
<1>2. UNCHANGED <<inv, pay>>
  BY DEF tables
<1>3. CurrentRead(q)'
  BY <1>2 DEF CurrentRead, Exists, IsVoid, HasPayments
<1> QED
  BY <1>1, <1>3 DEF EarlyReadsHold, CurrentRead, Exists, IsVoid, HasPayments

LEMMA AllIdleReads ==
  ASSUME \A r \in Slots : req'[r] = Idle
  PROVE  EarlyReadsHold'
  BY DEF EarlyReadsHold

LEMMA DoneReads ==
  ASSUME OneAtATime, TypeOK, NEW r \in Slots, Done(r)
  PROVE  EarlyReadsHold'
  BY AllIdleReads DEF OneAtATime, TypeOK, Done

LEMMA NextReads ==
  ASSUME OneAtATime, BooksInv, EarlyReadsHold, [SerialNext]_vars
  PROVE  EarlyReadsHold'
<1>1. TypeOK
  BY DEF BooksInv, PaymentsInv
<1>2. CASE AtOnce /\ \A r \in Slots : req[r] = Idle
  <2> PICK i \in Invoices : Create(i) \/ VoidInvoice(i)
    BY <1>2 DEF AtOnce
  <2>1. req' = req
    BY DEF Create, CreateInvoice, SalesReceipt, ConvertEstimate, VoidInvoice
  <2> QED
    BY <1>2, <2>1, AllIdleReads
<1>3. CASE \E r \in Slots, i \in Invoices : BeginOn(r, i) \/ ReconcileBegin(r, i)
  <2> PICK r \in Slots, i \in Invoices : BeginOn(r, i) \/ ReconcileBegin(r, i)
    BY <1>3
  <2>1. \E q : req' = [req EXCEPT ![r] = q] /\ UNCHANGED tables /\ CurrentRead(q)
    <3>1. CASE \E amount \in Amounts,
                  submission \in Submissions("payment") \cup {NoSubmission} :
                 PaymentBegin(r, i, amount, submission)
      <4> PICK amount \in Amounts,
               submission \in Submissions("payment") \cup {NoSubmission} :
                 PaymentBegin(r, i, amount, submission)
        BY <3>1
      <4> DEFINE q == [op |-> "payment", inv |-> i, amount |-> amount,
                       total |-> inv[i].total, submission |-> submission]
      <4>1. /\ req' = [req EXCEPT ![r] = q] /\ UNCHANGED tables
            /\ Exists(i) /\ ~IsVoid(i)
        BY DEF PaymentBegin
      <4>2. q.op = "payment" /\ q.inv = i /\ q.total = inv[i].total
        OBVIOUS
      <4> HIDE DEF q
      <4> QED
        BY <4>1, <4>2 DEF CurrentRead
    <3>2. CASE EditBegin(r, i)
      <4> DEFINE q == [op |-> "edit", inv |-> i]
      <4>1. /\ req' = [req EXCEPT ![r] = q] /\ UNCHANGED tables
            /\ Exists(i) /\ ~IsVoid(i)
        BY <3>2 DEF EditBegin, IsVoid
      <4>2. q.op = "edit" /\ q.inv = i
        OBVIOUS
      <4> HIDE DEF q
      <4> QED
        BY <4>1, <4>2 DEF CurrentRead
    <3>3. CASE DeleteBegin(r, i)
      <4> DEFINE q == [op |-> "delete", inv |-> i]
      <4>1. /\ req' = [req EXCEPT ![r] = q] /\ UNCHANGED tables
            /\ Exists(i) /\ ~HasPayments(i)
        BY <3>3 DEF DeleteBegin
      <4>2. q.op = "delete" /\ q.inv = i
        OBVIOUS
      <4> HIDE DEF q
      <4> QED
        BY <4>1, <4>2 DEF CurrentRead
    <3>4. CASE CheckoutBegin(r, i)
      <4> DEFINE q == [op |-> "checkout", inv |-> i, amount |-> inv[i].balance]
      <4>1. /\ req' = [req EXCEPT ![r] = q] /\ UNCHANGED tables
            /\ Exists(i)
        BY <3>4 DEF CheckoutBegin
      <4>2. q.op = "checkout" /\ q.inv = i
        OBVIOUS
      <4> HIDE DEF q
      <4> QED
        BY <4>1, <4>2 DEF CurrentRead
    <3>5. CASE SettleStart(r, i)
      <4> DEFINE q == [op |-> "settle", inv |-> i, session |-> inv[i].session]
      <4>1. /\ req' = [req EXCEPT ![r] = q] /\ UNCHANGED tables
            /\ Exists(i) /\ inv[i].balance > 0
        BY <3>5 DEF SettleStart, MaySettle
      <4>2. q.op = "settle" /\ q.inv = i
        OBVIOUS
      <4> HIDE DEF q
      <4> QED
        BY <4>1, <4>2 DEF CurrentRead
    <3> QED
      BY <3>1, <3>2, <3>3, <3>4, <3>5 DEF BeginOn, SettleBegin, ReconcileBegin
  <2> QED
    BY <1>1, <2>1, BeginReads
<1>4. CASE \E r \in Slots, p \in Payments : ReverseBegin(r, p)
  <2> PICK r \in Slots, p \in Payments : ReverseBegin(r, p)
    BY <1>4
  <2> DEFINE q == [op |-> "reverse", pay |-> p, inv |-> pay[p].inv,
                   total |-> inv[pay[p].inv].total, void |-> IsVoid(pay[p].inv)]
  <2>1. req' = [req EXCEPT ![r] = q] /\ UNCHANGED tables /\ pay[p].inv # NoInvoice
    BY DEF ReverseBegin
  <2>2. Exists(pay[p].inv)
    BY <2>1 DEF BooksInv, LinksInv, PaymentsOnInvoices
  <2>3. CurrentRead(q)
    BY <2>2 DEF CurrentRead
  <2> HIDE DEF q
  <2> QED
    BY <1>1, <2>1, <2>3, BeginReads
<1>5. CASE \E r \in Slots : Answer(r) \/ Commit(r)
  <2> PICK r \in Slots : Answer(r) \/ Commit(r)
    BY <1>5
  <2>1. Done(r)
    BY DEF Answer, Commit, PaymentRefuse, ReverseRefuse, SettleReturn, EditRefuse,
       PaymentCommit, ReverseCommit, EditCommit, DeleteCommit, CheckoutCommit,
       SettleCommit
  <2> QED
    BY <1>1, <2>1, DoneReads
<1>6. CASE (\E s \in Sessions : ClientPays(s)) \/ UNCHANGED vars
  <2>1. UNCHANGED <<inv, pay, req>>
    BY <1>6 DEF ClientPays, vars
  <2> QED
    BY <2>1 DEF EarlyReadsHold, CurrentRead, Exists, IsVoid, HasPayments
<1>7. CASE Restart
  BY <1>7, AllIdleReads DEF Restart
<1>8. Requests \subseteq Slots /\ Crons \subseteq Slots
  BY DEF Slots
<1> QED
  BY <1>2, <1>3, <1>4, <1>5, <1>6, <1>7, <1>8 DEF SerialNext, InFlight

LEMMA SerialInvariant == ASSUME OneAtATime PROVE SerialSpec => []SerialInv
<1>1. Init => EarlyReadsHold
  BY DEF Init, EarlyReadsHold
<1>2. BooksInv /\ EarlyReadsHold /\ [SerialNext]_vars => EarlyReadsHold'
  BY NextReads
<1> QED
  BY <1>1, <1>2, SerialBooks, PTL DEF SerialSpec, SerialInv

-----------------------------------------------------------------------------
(***************************************************************************)
(* What one step, serially, does to one invoice j                          *)
(***************************************************************************)
\* Nothing that matters.
Keeps(j) ==
  /\ inv'[j].status = inv[j].status /\ inv'[j].total = inv[j].total
  /\ inv'[j].paid = inv[j].paid /\ inv'[j].balance = inv[j].balance
  /\ ar'[j] = ar[j] /\ hist'[j] = hist[j]
\* It is created, by staff, with a receipt, from an estimate.
Opens(j) ==
  /\ inv[j].status = "None"
  /\ inv'[j].status = "Void" => "Void" \in OpeningStatuses
  /\ \/ \E deposit \in Deposits :
          /\ inv'[j].balance = AtLeast0(inv'[j].total - inv'[j].paid - deposit)
          /\ ar'[j] = inv'[j].total - inv'[j].paid - deposit
     \/ inv'[j].balance = 0 /\ inv'[j].paid = inv'[j].total /\ ar'[j] = 0
     \/ /\ "estimate" \in Origins
        /\ \E deposit \in Deposits :
             inv'[j].paid = deposit /\ inv'[j].balance = inv'[j].total - deposit
\* It is written off, or was before: only amount_paid moves then.
Cancels(j) == inv'[j].status = "Void" /\ inv'[j].balance = 0
StaysVoid(j) ==
  inv[j].status = "Void" /\ inv'[j].status = "Void" /\ inv'[j].balance = inv[j].balance
Removes(j) == inv'[j].status = "Deleted"
\* A payment, a reversal, a settlement.
Repays(j) ==
  /\ Exists(j)
  /\ IsVoid(j) => inv[j].balance > 0 /\ HasCardPayment(j)'
  /\ \E paid \in Nat :
       /\ inv'[j] = Repaid(inv[j], inv[j].total, paid)
       /\ \/ HasCardPayment(j)'
          \/ hist[j].formMoved
          \/ ar'[j] = ar[j] - (paid - inv[j].paid)
  /\ hist' = hist
Edits(j) ==
  /\ Exists(j) /\ ~IsVoid(j)
  /\ \E total \in Amounts, deposit \in Deposits, form \in FormStatuses :
       /\ inv'[j] = Edited(inv[j], total, deposit, form)
       /\ ~EditRefused(inv[j], total, form)
  /\ ar'[j] = ar[j] + (inv'[j].total - inv[j].total) - (inv'[j].paid - inv[j].paid)
  /\ hist'[j].formMoved <=> (hist[j].formMoved \/ inv'[j].paid # inv[j].paid)

StepOn(j) ==
  \/ Keeps(j) \/ Opens(j) \/ Cancels(j) \/ StaysVoid(j) \/ Removes(j)
  \/ Repays(j) \/ Edits(j)

LEMMA CreateInvoiceStep ==
  ASSUME BooksInv, TypeOK', NEW i \in Invoices, NEW total \in Amounts,
         NEW paid \in OpeningPaid, NEW deposit \in Deposits,
         NEW form \in OpeningStatuses,
         CreateInvoice(i, total, paid, deposit, form), NEW j \in Invoices
  PROVE  StepOn(j)
<1> DEFINE balance == AtLeast0(total - paid - deposit)
           status == IF form = "" THEN StatusFor(balance, paid + deposit) ELSE form
           row == [status |-> status, total |-> total, paid |-> paid,
                   deposit |-> deposit, balance |-> balance, session |-> NoSession]
<1>1. TypeOK
  BY DEF BooksInv, PaymentsInv
<1>2. total \in Nat /\ paid \in Nat /\ deposit \in Nat
  <2>1. \A x \in Deposits \cup OpeningPaid : x \in Nat
    BY FormTypes
  <2> QED
    BY <2>1, FormTypes
<1>3. status = "Void" => "Void" \in OpeningStatuses
  BY StatusForType
<1>4. /\ inv[i].status = "None"
      /\ inv' = [inv EXCEPT ![i] = row]
      /\ Post(i, total, paid + deposit)
      /\ hist' = [hist EXCEPT ![i] = [@ EXCEPT !.paidIn = paid, !.cashIn = paid + deposit]]
  BY DEF CreateInvoice
<1>5. /\ row.status = status /\ row.total = total /\ row.paid = paid
      /\ row.balance = AtLeast0(total - paid - deposit)
  OBVIOUS
<1> HIDE DEF row, status, balance
<1>6. CASE j # i
  BY <1>1, <1>4, <1>6 DEF TypeOK, Post, StepOn, Keeps
<1>7. CASE j = i
  <2>1. inv'[i] = row
    BY <1>1, <1>4 DEF TypeOK
  <2>2. ar'[i] = total - paid - deposit
    <3>1. ar[i] = 0
      BY <1>4, NothingBooked
    <3>2. ar'[i] = ar[i] + total - (paid + deposit)
      BY <1>1, <1>4 DEF TypeOK, Post
    <3> QED
      BY <1>2, <3>1, <3>2
  <2> QED
    BY <1>3, <1>4, <1>5, <1>7, <2>1, <2>2 DEF StepOn, Opens
<1> QED
  BY <1>6, <1>7

LEMMA ReceiptStep ==
  ASSUME BooksInv, TypeOK', NEW i \in Invoices, NEW p \in Payments,
         NEW amount \in Amounts,
         NEW submission \in Submissions("receipt") \cup {NoSubmission},
         SalesReceipt(i, p, amount, submission), NEW j \in Invoices
  PROVE  StepOn(j)
<1> DEFINE row == [status |-> "Paid", total |-> amount, paid |-> amount,
                   deposit |-> 0, balance |-> 0, session |-> NoSession]
<1>1. TypeOK
  BY DEF BooksInv, PaymentsInv
<1>2. amount \in Nat
  BY FormTypes
<1>3. /\ inv[i].status = "None"
      /\ inv' = [inv EXCEPT ![i] = row]
      /\ Post(i, amount, amount) /\ hist' = hist
  BY DEF SalesReceipt
<1>4. /\ row.status = "Paid" /\ row.total = amount /\ row.paid = amount
      /\ row.balance = 0
  OBVIOUS
<1> HIDE DEF row
<1>5. CASE j # i
  BY <1>1, <1>3, <1>5 DEF TypeOK, Post, StepOn, Keeps
<1>6. CASE j = i
  <2>1. inv'[i] = row
    BY <1>1, <1>3 DEF TypeOK
  <2>2. ar'[i] = 0
    <3>1. ar[i] = 0
      BY <1>3, NothingBooked
    <3>2. ar'[i] = ar[i] + amount - amount
      BY <1>1, <1>3 DEF TypeOK, Post
    <3> QED
      BY <1>2, <3>1, <3>2
  <2> QED
    BY <1>3, <1>4, <1>6, <2>1, <2>2 DEF StepOn, Opens
<1> QED
  BY <1>5, <1>6

LEMMA ConvertStep ==
  ASSUME BooksInv, TypeOK', NEW i \in Invoices, NEW total \in Amounts,
         NEW deposit \in Deposits, ConvertEstimate(i, total, deposit),
         NEW j \in Invoices
  PROVE  StepOn(j)
<1> DEFINE status == IF total - deposit > 0 THEN "Open" ELSE "Paid"
           row == [status |-> status, total |-> total, paid |-> deposit,
                   deposit |-> deposit, balance |-> total - deposit,
                   session |-> NoSession]
<1>1. TypeOK
  BY DEF BooksInv, PaymentsInv
<1>2. /\ inv[i].status = "None" /\ "estimate" \in Origins
      /\ inv' = [inv EXCEPT ![i] = row]
      /\ hist' = [hist EXCEPT ![i].paidIn = deposit] /\ ar' = ar
  BY DEF ConvertEstimate, ledger
<1>3. /\ row.status # "Void" /\ row.total = total /\ row.paid = deposit
      /\ row.balance = total - deposit
  OBVIOUS
<1> HIDE DEF row, status
<1>4. CASE j # i
  BY <1>1, <1>2, <1>4 DEF TypeOK, StepOn, Keeps
<1>5. CASE j = i
  <2>1. inv'[i] = row
    BY <1>1, <1>2 DEF TypeOK
  <2> QED
    BY <1>2, <1>3, <1>5, <2>1 DEF StepOn, Opens
<1> QED
  BY <1>4, <1>5

LEMMA VoidStep ==
  ASSUME BooksInv, TypeOK', NEW i \in Invoices, VoidInvoice(i), NEW j \in Invoices
  PROVE  StepOn(j)
<1>1. /\ inv' = [inv EXCEPT ![i] = [inv[i] EXCEPT !.status = "Void", !.balance = 0]]
      /\ Post(i, -inv[i].balance, 0) /\ hist' = hist
  BY Zenon DEF VoidInvoice
<1>2. TypeOK
  BY DEF BooksInv, PaymentsInv
<1>3. CASE j # i
  BY <1>1, <1>2, <1>3 DEF TypeOK, Post, StepOn, Keeps
<1>4. CASE j = i
  <2>1. inv[i] \in InvoiceRow
    BY <1>2 DEF TypeOK
  <2>2. inv'[i] = [inv[i] EXCEPT !.status = "Void", !.balance = 0]
    BY <1>1, <1>2, Zenon DEF TypeOK
  <2>3. ASSUME NEW row \in InvoiceRow
        PROVE  [row EXCEPT !.status = "Void", !.balance = 0].status = "Void"
                 /\ [row EXCEPT !.status = "Void", !.balance = 0].balance = 0
    BY DEF InvoiceRow
  <2> QED
    BY <1>4, <2>1, <2>2, <2>3 DEF StepOn, Cancels
<1> QED
  BY <1>3, <1>4

LEMMA SlotFields ==
  ASSUME SerialInv, NEW r \in Slots, req[r] # Idle
  PROVE  CurrentRead(req[r]) /\ req[r].inv \in Invoices
  BY RequestInvoice DEF SerialInv, EarlyReadsHold, BooksInv, PaymentsInv

LEMMA PaymentStep ==
  ASSUME SerialInv, TypeOK', NEW r \in Slots, NEW p \in Payments,
         PaymentCommit(r, p), NEW j \in Invoices
  PROVE  StepOn(j)
<1>1. TypeOK
  BY DEF SerialInv, BooksInv, PaymentsInv
<1>2. req[r] \in PaymentReq /\ req[r].op = "payment"
  BY <1>1, RequestFields DEF TypeOK, PaymentCommit
<1> PICK q \in PaymentReq : q = req[r]
  BY <1>2
<1>3. q.amount \in Nat /\ q.inv \in Invoices
  BY DEF PaymentReq
<1> PICK i \in Invoices : i = q.inv
  BY <1>3
<1> DEFINE paid == inv[i].paid + q.amount
<1>4. ~IsVoid(i) /\ Exists(i) /\ q.total = inv[i].total
  <2>1. req[r] # Idle
    BY <1>2 DEF Idle
  <2> QED
    BY <1>2, <2>1, SlotFields DEF CurrentRead
<1>5. /\ inv' = [inv EXCEPT ![i] = Repaid(inv[i], q.total, paid)]
      /\ Post(i, 0, q.amount) /\ hist' = hist
  BY DEF PaymentCommit
<1>6. ar[i] \in Int /\ inv[i].paid \in Nat
  BY <1>1, InvoiceFields
<1>7. paid \in Nat /\ q.amount = paid - inv[i].paid
  BY <1>3, <1>6
<1> HIDE DEF paid
<1>8. CASE j # i
  BY <1>1, <1>5, <1>8 DEF TypeOK, Post, StepOn, Keeps
<1>9. CASE j = i
  <2>1. inv'[i] = Repaid(inv[i], inv[i].total, paid)
    BY <1>1, <1>4, <1>5 DEF TypeOK
  <2>2. ar'[i] = ar[i] - (paid - inv[i].paid)
    <3>1. ar'[i] = ar[i] + 0 - q.amount
      BY <1>1, <1>5 DEF TypeOK, Post
    <3> QED
      BY <1>3, <1>6, <1>7, <3>1
  <2> QED
    BY <1>4, <1>5, <1>7, <1>9, <2>1, <2>2 DEF StepOn, Repays
<1> QED
  BY <1>8, <1>9

LEMMA SettleStep ==
  ASSUME SerialInv, TypeOK', NEW r \in Slots, NEW p \in Payments,
         SettleCommit(r, p), NEW j \in Invoices
  PROVE  StepOn(j)
<1>1. TypeOK
  BY DEF SerialInv, BooksInv, PaymentsInv
<1>2. req[r] \in SettleReq /\ req[r].op = "settle"
  BY <1>1, RequestFields DEF TypeOK, SettleCommit
<1> PICK q \in SettleReq : q = req[r]
  BY <1>2
<1>3. q.inv \in Invoices /\ q.session \in Sessions
  BY DEF SettleReq
<1> PICK i \in Invoices : i = q.inv
  BY <1>3
<1> DEFINE amount == stripe[q.session].amount
           paid == inv[i].paid + amount
           row == [status |-> "Active", inv |-> i, amount |-> amount,
                   submission |-> NoSubmission, session |-> q.session]
<1>4. inv[i].balance > 0 /\ Exists(i)
  <2>1. req[r] # Idle
    BY <1>2 DEF Idle
  <2> QED
    BY <1>2, <2>1, SlotFields DEF CurrentRead
<1>5. /\ inv' = [inv EXCEPT ![i] = Repaid(inv[i], inv[i].total, paid)]
      /\ pay' = [pay EXCEPT ![p] = row]
      /\ UNCHANGED <<ar, hist>>
  BY DEF SettleCommit, ledger
<1>6. inv[i].paid \in Nat /\ amount \in Nat
  BY <1>1, <1>3, InvoiceFields DEF TypeOK, StripeSession
<1>7. paid \in Nat
  BY <1>6
<1>8. row.inv = i /\ row.session # NoSession
  BY <1>3, NullsAssumption
<1> HIDE DEF amount, paid, row
<1>9. CASE j # i
  BY <1>1, <1>5, <1>9 DEF TypeOK, StepOn, Keeps
<1>10. CASE j = i
  <2>1. inv'[i] = Repaid(inv[i], inv[i].total, paid)
    BY <1>1, <1>5 DEF TypeOK
  <2>2. HasCardPayment(i)'
    <3>1. pay'[p] = row
      BY <1>1, <1>5 DEF TypeOK
    <3> QED
      BY <1>8, <3>1 DEF HasCardPayment, ByCard
  <2> QED
    BY <1>4, <1>5, <1>7, <1>10, <2>1, <2>2 DEF StepOn, Repays
<1> QED
  BY <1>9, <1>10

\* The payment is on the invoice, so amount_paid covers it unless a form moved it.
LEMMA ReverseStep ==
  ASSUME SerialInv, TypeOK', NEW r \in Slots, ReverseCommit(r), NEW j \in Invoices
  PROVE  StepOn(j)
<1>1. TypeOK /\ IsFiniteSet(UsedIds)
  BY DEF SerialInv, BooksInv, PaymentsInv, LinksInv
<1>2. req[r] \in ReverseReq /\ req[r].op = "reverse"
  BY <1>1, RequestFields DEF TypeOK, ReverseCommit
<1> PICK q \in ReverseReq : q = req[r]
  BY <1>2
<1>3. q.inv \in Invoices /\ q.pay \in Payments /\ q.void \in BOOLEAN
  BY DEF ReverseReq
<1> PICK i \in Invoices : i = q.inv
  BY <1>3
<1> PICK p \in Payments : p = q.pay
  BY <1>3
<1>4. /\ Exists(i) /\ pay[p].inv = i
      /\ q.total = inv[i].total /\ q.void = IsVoid(i)
  <2>1. req[r] # Idle
    BY <1>2 DEF Idle
  <2> QED
    BY <1>2, <2>1, SlotFields DEF CurrentRead
<1> DEFINE amount == pay[p].amount
           paid == AtLeast0(inv[i].paid - amount)
<1>5. /\ Claimable(p) /\ hist' = hist /\ Post(i, 0, -amount)
      /\ pay' = [pay EXCEPT ![p].status = "Reversed"]
      /\ ~IsVoid(i) => inv' = [inv EXCEPT ![i] = Repaid(inv[i], q.total, paid)]
      /\ IsVoid(i) => inv' = [inv EXCEPT ![i] = [inv[i] EXCEPT !.paid = paid]]
  <2>1. inv' = [inv EXCEPT ![i] =
                  IF ~Exists(i) THEN inv[i]
                  ELSE IF q.void THEN [inv[i] EXCEPT !.paid = paid]
                  ELSE Repaid(inv[i], q.total, paid)]
    BY DEF ReverseCommit
  <2>2. Claimable(p) /\ hist' = hist /\ Post(i, 0, -amount)
          /\ pay' = [pay EXCEPT ![p].status = "Reversed"]
    BY DEF ReverseCommit
  <2> HIDE DEF paid, amount
  <2> QED
    BY <1>4, <2>1, <2>2
<1>6. pay[p].status = "Active"
  BY <1>1, <1>2, <1>5, PaymentFields DEF SerialInv, BooksInv, PaymentsInv,
     ReversalsOfPayments, Claimable, Fresh
<1>7. /\ amount \in Nat /\ inv[i].paid \in Nat /\ ar[i] \in Int
      /\ hist[i].paidIn \in Nat
  BY <1>1, PaymentFields, InvoiceFields, HistoryFields
<1>8. paid \in Nat
  BY <1>7, AtLeast0Type
<1>9. ~hist[i].formMoved => paid = inv[i].paid - amount
  <2>1. p \in ActiveOn(i)
    BY <1>4, <1>6 DEF ActiveOn
  <2>2. ActiveOn(i)' = ActiveOn(i) \ {p}
    BY <1>1, <1>5 DEF ActiveOn, TypeOK, PaymentRow
  <2>3. \A x \in Payments : pay'[x].amount = pay[x].amount
    BY <1>1, <1>5 DEF TypeOK, PaymentRow
  <2>4. \A x \in ActiveOn(i) : pay'[x].amount = pay[x].amount
    BY <2>3 DEF ActiveOn
  <2>5. ActiveTotal(i) = amount + ActiveTotal(i)'
    BY <1>1, <2>1, <2>2, <2>4, ActiveTotalLoses
  <2>6. ActiveTotal(i)' \in Nat
    BY <1>1, <2>1, <2>2, <2>3, ActiveTotalAfter
  <2>7. ~hist[i].formMoved => inv[i].paid = hist[i].paidIn + ActiveTotal(i)
    BY <1>4 DEF SerialInv, BooksInv, MoneyInv, PaidTies
  <2> QED
    BY <1>7, <2>5, <2>6, <2>7 DEF AtLeast0
<1> HIDE DEF amount, paid
<1>10. CASE j # i
  BY <1>1, <1>5, <1>10 DEF TypeOK, Post, StepOn, Keeps
<1>11. CASE j = i /\ IsVoid(i)
  <2>1. inv[i] \in InvoiceRow
    BY <1>1 DEF TypeOK
  <2>2. inv'[i] = [inv[i] EXCEPT !.paid = paid]
    BY <1>1, <1>5, <1>11 DEF TypeOK
  <2>3. inv'[i].status = inv[i].status /\ inv'[i].balance = inv[i].balance
    BY <2>1, <2>2 DEF InvoiceRow
  <2> QED
    BY <1>11, <2>3 DEF StepOn, StaysVoid, IsVoid
<1>12. CASE j = i /\ ~IsVoid(i)
  <2>1. inv'[i] = Repaid(inv[i], inv[i].total, paid)
    BY <1>1, <1>4, <1>5, <1>12 DEF TypeOK
  <2>2. ar'[i] = ar[i] + amount
    <3>1. ar'[i] = ar[i] + 0 - (-amount)
      BY <1>1, <1>5 DEF TypeOK, Post
    <3> QED
      BY <1>7, <3>1
  <2>3. hist[i].formMoved \/ ar'[i] = ar[i] - (paid - inv[i].paid)
    BY <1>7, <1>8, <1>9, <2>2
  <2> QED
    BY <1>4, <1>5, <1>8, <1>12, <2>1, <2>3 DEF StepOn, Repays
<1> QED
  BY <1>10, <1>11, <1>12

LEMMA EditStep ==
  ASSUME SerialInv, TypeOK', NEW r \in Slots, NEW total \in Amounts,
         NEW deposit \in Deposits, NEW form \in FormStatuses,
         EditCommit(r, total, deposit, form), NEW j \in Invoices
  PROVE  StepOn(j)
<1>1. TypeOK
  BY DEF SerialInv, BooksInv, PaymentsInv
<1>2. req[r] # Idle /\ req[r].op = "edit"
  BY DEF EditCommit, Idle
<1>3. req[r].inv \in Invoices
  BY <1>2, SlotFields
<1> PICK i \in Invoices : i = req[r].inv
  BY <1>3
<1>4. Exists(i) /\ ~IsVoid(i)
  BY <1>2, SlotFields DEF CurrentRead
<1> DEFINE row == Edited(inv[i], total, deposit, form)
<1>5. /\ inv' = [inv EXCEPT ![i] = row] /\ ~EditRefused(inv[i], total, form)
      /\ Post(i, row.total - inv[i].total, row.paid - inv[i].paid)
      /\ hist' = [hist EXCEPT ![i].formMoved = @ \/ row.paid # inv[i].paid]
  BY DEF EditCommit
<1>6. inv'[i] = row
  BY <1>1, <1>5 DEF TypeOK
<1> HIDE DEF row
<1>7. CASE j # i
  BY <1>1, <1>5, <1>7 DEF TypeOK, Post, StepOn, Keeps
<1>8. CASE j = i
  <2>1. ar'[i] = ar[i] + (row.total - inv[i].total) - (row.paid - inv[i].paid)
    BY <1>1, <1>5 DEF TypeOK, Post
  <2>2. hist'[i].formMoved <=> (hist[i].formMoved \/ row.paid # inv[i].paid)
    BY <1>1, <1>5 DEF TypeOK, History
  <2>3. inv'[i] = Edited(inv[i], total, deposit, form)
    BY <1>6 DEF row
  <2>4. Edits(i)
    BY <1>4, <1>5, <1>6, <2>1, <2>2, <2>3 DEF Edits
  <2> QED
    BY <1>8, <2>4 DEF StepOn
<1> QED
  BY <1>7, <1>8

LEMMA DeleteStep ==
  ASSUME SerialInv, TypeOK', NEW r \in Slots, DeleteCommit(r), NEW j \in Invoices
  PROVE  StepOn(j)
<1>1. TypeOK
  BY DEF SerialInv, BooksInv, PaymentsInv
<1>2. /\ inv' = [inv EXCEPT ![req[r].inv] = NoRow("Deleted")]
      /\ UNCHANGED <<ar, hist>>
  BY DEF DeleteCommit, ledger
<1>3. NoRow("Deleted").status = "Deleted"
  BY DEF NoRow
<1> QED
  BY <1>1, <1>2, <1>3 DEF TypeOK, StepOn, Keeps, Removes

LEMMA CheckoutStep ==
  ASSUME SerialInv, TypeOK', NEW r \in Slots, NEW s \in Sessions,
         CheckoutCommit(r, s), NEW j \in Invoices
  PROVE  StepOn(j)
<1>1. TypeOK
  BY DEF SerialInv, BooksInv, PaymentsInv
<1>2. /\ inv' = IF Exists(req[r].inv) THEN [inv EXCEPT ![req[r].inv].session = s] ELSE inv
      /\ UNCHANGED <<ar, hist>>
  BY DEF CheckoutCommit, ledger
<1>3. inv[j] \in InvoiceRow
  BY <1>1 DEF TypeOK
<1> QED
  BY <1>1, <1>2, <1>3 DEF TypeOK, InvoiceRow, StepOn, Keeps

\* Steps that leave invoices and ledger alone.
LEMMA IdleStep ==
  ASSUME UNCHANGED <<inv, ar, hist>>, NEW j \in Invoices
  PROVE  StepOn(j)
  BY DEF StepOn, Keeps

LEMMA SerialStep ==
  ASSUME SerialInv, TypeOK', [SerialNext]_vars, NEW j \in Invoices
  PROVE  StepOn(j)
<1>0. BooksInv
  BY DEF SerialInv
<1>1. CASE AtOnce
  <2> PICK i \in Invoices : Create(i) \/ VoidInvoice(i)
    BY <1>1 DEF AtOnce
  <2> QED
    BY <1>0, CreateInvoiceStep, ReceiptStep, ConvertStep, VoidStep DEF Create
<1>2. CASE \E r \in Slots, i \in Invoices : BeginOn(r, i) \/ ReconcileBegin(r, i)
  <2>1. UNCHANGED tables
    BY <1>2 DEF BeginOn, ReconcileBegin, PaymentBegin, EditBegin, DeleteBegin,
       CheckoutBegin, SettleBegin, SettleStart
  <2> QED
    BY <2>1, IdleStep DEF tables, ledger
<1>3. CASE \E r \in Slots, p \in Payments : ReverseBegin(r, p)
  BY <1>3, IdleStep DEF ReverseBegin, tables, ledger
<1>4. CASE \E r \in Slots : Answer(r)
  <2>1. UNCHANGED tables
    BY <1>4 DEF Answer, PaymentRefuse, ReverseRefuse, SettleReturn, EditRefuse
  <2> QED
    BY <2>1, IdleStep DEF tables, ledger
<1>5. CASE \E r \in Slots : Commit(r)
  <2> PICK r \in Slots : Commit(r)
    BY <1>5
  <2> QED
    BY PaymentStep, ReverseStep, EditStep, DeleteStep, CheckoutStep, SettleStep
       DEF Commit
<1>6. CASE (\E s \in Sessions : ClientPays(s)) \/ Restart \/ UNCHANGED vars
  <2>1. UNCHANGED <<inv, ar, hist>>
    BY <1>6 DEF ClientPays, Restart, vars, tables, ledger
  <2> QED
    BY <2>1, IdleStep
<1>7. Requests \subseteq Slots /\ Crons \subseteq Slots
  BY DEF Slots
<1> QED
  BY <1>1, <1>2, <1>3, <1>4, <1>5, <1>6, <1>7 DEF SerialNext, InFlight

\* A payment stays on its invoice: serially, DELETE finds none to cut loose.
StaysOn(p) ==
  \/ pay'[p].inv = pay[p].inv /\ pay'[p].session = pay[p].session
       /\ (pay'[p].status = "None" <=> pay[p].status = "None")
  \/ Fresh(p) /\ pay'[p].inv # NoInvoice

LEMMA OneInserted ==
  ASSUME TypeOK, NEW p \in Payments, NEW row, Fresh(p), row.inv # NoInvoice,
         pay' = [pay EXCEPT ![p] = row], NEW x \in Payments
  PROVE  StaysOn(x)
<1>1. x # p => pay'[x] = pay[x]
  BY DEF TypeOK
<1>2. pay'[p] = row
  BY DEF TypeOK
<1> QED
  BY <1>1, <1>2 DEF StaysOn

LEMMA SerialLinks ==
  ASSUME SerialInv, TypeOK', [SerialNext]_vars, NEW x \in Payments
  PROVE  StaysOn(x)
<1>0. TypeOK /\ BooksInv
  BY DEF SerialInv, BooksInv, PaymentsInv
<1>1. CASE \E i \in Invoices, p \in Payments, amount \in Amounts,
             submission \in Submissions("receipt") \cup {NoSubmission} :
             SalesReceipt(i, p, amount, submission)
  <2> PICK i \in Invoices, p \in Payments, amount \in Amounts,
           submission \in Submissions("receipt") \cup {NoSubmission} :
             SalesReceipt(i, p, amount, submission)
    BY <1>1
  <2> DEFINE row == [status |-> "Active", inv |-> i, amount |-> amount,
                     submission |-> submission, session |-> NoSession]
  <2>1. Fresh(p) /\ pay' = [pay EXCEPT ![p] = row]
    BY DEF SalesReceipt
  <2>2. row.inv # NoInvoice
    BY NullsAssumption
  <2> HIDE DEF row
  <2> QED
    BY <1>0, <2>1, <2>2, OneInserted
<1>2. CASE \E r \in Slots, p \in Payments : PaymentCommit(r, p)
  <2> PICK r \in Slots, p \in Payments : PaymentCommit(r, p)
    BY <1>2
  <2> DEFINE row == [status |-> "Active", inv |-> req[r].inv, amount |-> req[r].amount,
                     submission |-> req[r].submission, session |-> NoSession]
  <2>1. Fresh(p) /\ pay' = [pay EXCEPT ![p] = row] /\ req[r] # Idle
    BY DEF PaymentCommit, Idle
  <2>2. row.inv # NoInvoice
    BY <2>1, SlotFields, NullsAssumption
  <2> HIDE DEF row
  <2> QED
    BY <1>0, <2>1, <2>2, OneInserted
<1>3. CASE \E r \in Slots, p \in Payments : SettleCommit(r, p)
  <2> PICK r \in Slots, p \in Payments : SettleCommit(r, p)
    BY <1>3
  <2> DEFINE row == [status |-> "Active", inv |-> req[r].inv,
                     amount |-> stripe[req[r].session].amount,
                     submission |-> NoSubmission, session |-> req[r].session]
  <2>1. Fresh(p) /\ pay' = [pay EXCEPT ![p] = row] /\ req[r] # Idle
    BY DEF SettleCommit, Idle
  <2>2. row.inv # NoInvoice
    BY <2>1, SlotFields, NullsAssumption
  <2> HIDE DEF row
  <2> QED
    BY <1>0, <2>1, <2>2, OneInserted
<1>4. CASE \E r \in Slots : ReverseCommit(r)
  <2> PICK r \in Slots : ReverseCommit(r)
    BY <1>4
  <2>1. req[r] \in ReverseReq /\ req[r].op = "reverse"
    BY <1>0, RequestFields DEF TypeOK, ReverseCommit
  <2> PICK p \in Payments : p = req[r].pay
    BY <2>1 DEF ReverseReq
  <2>2. pay' = [pay EXCEPT ![p].status = "Reversed"]
    BY DEF ReverseCommit
  <2>3. pay[p].status # "None"
    BY <2>1 DEF SerialInv, BooksInv, PaymentsInv, ReversalsOfPayments, Fresh
  <2> QED
    BY <1>0, <2>2, <2>3 DEF TypeOK, PaymentRow, StaysOn
<1>5. CASE \E r \in Slots : DeleteCommit(r)
  <2> PICK r \in Slots : DeleteCommit(r)
    BY <1>5
  <2>1. req[r] # Idle /\ req[r].op = "delete"
    BY DEF DeleteCommit, Idle
  <2>2. ~HasPayments(req[r].inv)
    BY <2>1, SlotFields DEF CurrentRead
  <2>3. pay' = [p \in Payments |->
           IF pay[p].inv = req[r].inv THEN [pay[p] EXCEPT !.inv = NoInvoice] ELSE pay[p]]
    BY DEF DeleteCommit
  <2>4. pay'[x] = pay[x]
    BY <2>2, <2>3 DEF HasPayments
  <2> QED
    BY <2>4 DEF StaysOn
<1>6. CASE pay' = pay
  BY <1>6 DEF StaysOn
<1>7. CASE AtOnce
  <2> PICK i \in Invoices : Create(i) \/ VoidInvoice(i)
    BY <1>7 DEF AtOnce
  <2>1. CASE VoidInvoice(i)
    BY <1>6, <2>1 DEF VoidInvoice
  <2>2. CASE Create(i)
    BY <1>1, <1>6, <2>2 DEF Create, CreateInvoice, ConvertEstimate
  <2> QED
    BY <2>1, <2>2
<1>8. CASE InFlight
  <2>1. CASE \E r \in Slots : Commit(r)
    BY <1>2, <1>3, <1>4, <1>5, <1>6, <2>1 DEF Commit, EditCommit, CheckoutCommit
  <2>2. CASE \E r \in Slots : Answer(r)
    <3>1. UNCHANGED tables
      BY <2>2 DEF Answer, PaymentRefuse, ReverseRefuse, SettleReturn, EditRefuse
    <3> QED
      BY <1>6, <3>1 DEF tables
  <2>3. CASE \/ \E r \in Slots, i \in Invoices : BeginOn(r, i) \/ ReconcileBegin(r, i)
             \/ \E r \in Slots, p \in Payments : ReverseBegin(r, p)
    <3>1. UNCHANGED tables
      BY <2>3 DEF BeginOn, ReconcileBegin, PaymentBegin, EditBegin, DeleteBegin,
         CheckoutBegin, SettleBegin, SettleStart, ReverseBegin
    <3> QED
      BY <1>6, <3>1 DEF tables
  <2>4. CASE (\E s \in Sessions : ClientPays(s)) \/ Restart
    BY <1>6, <2>4 DEF ClientPays, Restart, tables
  <2>5. Requests \subseteq Slots /\ Crons \subseteq Slots
    BY DEF Slots
  <2> QED
    BY <1>8, <2>1, <2>2, <2>3, <2>4, <2>5 DEF InFlight
<1> QED
  BY <1>6, <1>7, <1>8 DEF SerialNext, vars

-----------------------------------------------------------------------------
(***************************************************************************)
(* A canceled invoice has nothing left to collect                          *)
(***************************************************************************)
VoidsEmpty == \A i \in Invoices : IsVoid(i) => inv[i].balance = 0

LEMMA EditedBooks ==
  ASSUME TypeOK, NEW j \in Invoices, Edits(j)
  PROVE  \E total \in Amounts, deposit \in Deposits, form \in FormStatuses :
           /\ ~EditRefused(inv[j], total, form)
           /\ inv'[j].total = total
           /\ inv'[j].status = EditedStatus(inv[j], form)
           /\ inv'[j].paid = EditedPaid(inv[j], total, form)
           /\ inv'[j].balance = EditedBalance(inv[j], total, deposit, form)
<1>1. inv[j] \in InvoiceRow
  BY DEF TypeOK
<1> PICK total \in Amounts, deposit \in Deposits, form \in FormStatuses :
      /\ inv'[j] = Edited(inv[j], total, deposit, form)
      /\ ~EditRefused(inv[j], total, form)
  BY DEF Edits
<1> QED
  BY <1>1, EditedFields

LEMMA RepaidBooks ==
  ASSUME TypeOK, NEW j \in Invoices, Repays(j)
  PROVE  /\ inv'[j].total = inv[j].total
         /\ inv'[j].balance = AtLeast0(inv[j].total - inv'[j].paid)
         /\ inv'[j].status \in {"Paid", "Partial", "Unpaid"}
         /\ \/ HasCardPayment(j)'
            \/ hist[j].formMoved
            \/ ar'[j] = ar[j] - (inv'[j].paid - inv[j].paid)
<1>1. inv[j] \in InvoiceRow /\ inv[j].total \in Nat
  BY InvoiceFields DEF TypeOK
<1> PICK paid \in Nat :
      /\ inv'[j] = Repaid(inv[j], inv[j].total, paid)
      /\ \/ HasCardPayment(j)'
         \/ hist[j].formMoved
         \/ ar'[j] = ar[j] - (paid - inv[j].paid)
  BY DEF Repays
<1>2. /\ inv'[j].total = inv[j].total /\ inv'[j].paid = paid
      /\ inv'[j].balance = AtLeast0(inv[j].total - paid)
      /\ inv'[j].status \in {"Paid", "Partial", "Unpaid"}
  <2>1. \A row \in InvoiceRow, total \in Nat, n \in Nat :
          /\ Repaid(row, total, n).paid = n
          /\ Repaid(row, total, n).total = row.total
          /\ Repaid(row, total, n).balance = AtLeast0(total - n)
          /\ Repaid(row, total, n).status \in {"Paid", "Partial", "Unpaid"}
    BY RepaidFields
  <2> QED
    BY <1>1, <2>1
<1> QED
  BY <1>2

LEMMA VoidsStayEmpty ==
  ASSUME SerialInv, TypeOK', VoidsEmpty, "Void" \notin OpeningStatuses,
         [SerialNext]_vars
  PROVE  VoidsEmpty'
<1> SUFFICES ASSUME NEW j \in Invoices, inv'[j].status = "Void"
             PROVE  inv'[j].balance = 0
  BY DEF VoidsEmpty, IsVoid
<1>1. TypeOK
  BY DEF SerialInv, BooksInv, PaymentsInv
<1>2. StepOn(j)
  BY SerialStep
<1>3. CASE Repays(j)
  BY <1>1, <1>3, RepaidBooks
<1>4. CASE Edits(j)
  <2> PICK total \in Amounts, deposit \in Deposits, form \in FormStatuses :
        /\ inv'[j].status = EditedStatus(inv[j], form)
        /\ inv'[j].balance = EditedBalance(inv[j], total, deposit, form)
    BY <1>1, <1>4, EditedBooks
  <2>1. form = "Void"
    BY <1>4 DEF Edits, IsVoid, EditedStatus
  <2> QED
    BY <2>1 DEF EditedBalance
<1>5. CASE Keeps(j) \/ Opens(j) \/ Cancels(j) \/ StaysVoid(j) \/ Removes(j)
  BY <1>5 DEF Keeps, Opens, Cancels, StaysVoid, Removes, VoidsEmpty, IsVoid
<1> QED
  BY <1>2, <1>3, <1>4, <1>5 DEF StepOn

LEMMA VoidKept ==
  ASSUME SerialInv, TypeOK', VoidsEmpty, [SerialNext]_vars,
         NEW j \in Invoices, inv[j].status = "Void"
  PROVE  inv'[j].status \in {"Void", "Deleted"}
<1>1. StepOn(j)
  BY SerialStep
<1>2. ~Repays(j)
  <2>1. inv[j].balance = 0
    BY DEF VoidsEmpty, IsVoid
  <2> QED
    BY <2>1 DEF Repays, IsVoid
<1>3. ~Edits(j)
  BY DEF Edits, IsVoid
<1> QED
  BY <1>1, <1>2, <1>3 DEF StepOn, Keeps, Opens, Cancels, StaysVoid, Removes

\* With one handler at a time no payment, reversal, settlement or edit brings a
\* canceled invoice back, unless it was entered as Void with a balance.
THEOREM VoidIsFinal ==
  ASSUME OneAtATime, "Void" \notin OpeningStatuses
  PROVE  SerialSpec => VoidSticks
<1>1. Init => VoidsEmpty
  BY DEF Init, NoRow, VoidsEmpty, IsVoid
<1>2. SerialInv /\ TypeOK' /\ VoidsEmpty /\ [SerialNext]_vars => VoidsEmpty'
  BY VoidsStayEmpty
<1>3. SerialInv /\ TypeOK' /\ VoidsEmpty /\ [SerialNext]_vars
        => [\A i \in Invoices :
              inv[i].status = "Void" => inv'[i].status \in {"Void", "Deleted"}]_vars
  BY VoidKept
<1>4. SerialInv => TypeOK
  BY DEF SerialInv, BooksInv, PaymentsInv
<1> QED
  BY <1>1, <1>2, <1>3, <1>4, SerialInvariant, PTL DEF SerialSpec, VoidSticks

-----------------------------------------------------------------------------
(***************************************************************************)
(* The balance and the receivable, where no deposit is entered             *)
(***************************************************************************)
LEMMA AtLeast0Whole == \A n \in Nat : AtLeast0(n) = n /\ AtLeast0(0) = 0 /\ AtLeast0(-n) = 0
  BY DEF AtLeast0

LEMMA OpenedBalance ==
  ASSUME TypeOK', NEW j \in Invoices, Deposits \subseteq {0}, Opens(j)
  PROVE  inv'[j].balance = AtLeast0(inv'[j].total - inv'[j].paid)
<1>1. inv'[j].total \in Nat /\ inv'[j].paid \in Nat
  BY DEF TypeOK, InvoiceRow
<1>2. CASE \E deposit \in Deposits :
             inv'[j].balance = AtLeast0(inv'[j].total - inv'[j].paid - deposit)
  <2>1. inv'[j].total - inv'[j].paid - 0 = inv'[j].total - inv'[j].paid
    BY <1>1
  <2> QED
    BY <1>2, <2>1
<1>3. CASE inv'[j].balance = 0 /\ inv'[j].paid = inv'[j].total
  BY <1>1, <1>3, AtLeast0Whole
<1>4. CASE \E deposit \in Deposits :
             inv'[j].paid = deposit /\ inv'[j].balance = inv'[j].total - deposit
  BY <1>1, <1>4, AtLeast0Whole
<1> QED
  BY <1>2, <1>3, <1>4 DEF Opens

LEMMA EditedBalanceFollows ==
  ASSUME TypeOK, TypeOK', NEW j \in Invoices, Deposits \subseteq {0}, Edits(j),
         inv[j].balance = AtLeast0(inv[j].total - inv[j].paid),
         inv'[j].status # "Void"
  PROVE  inv'[j].balance = AtLeast0(inv'[j].total - inv'[j].paid)
<1> PICK total \in Amounts, deposit \in Deposits, form \in FormStatuses :
      /\ ~EditRefused(inv[j], total, form)
      /\ inv'[j].total = total
      /\ inv'[j].status = EditedStatus(inv[j], form)
      /\ inv'[j].paid = EditedPaid(inv[j], total, form)
      /\ inv'[j].balance = EditedBalance(inv[j], total, deposit, form)
  BY EditedBooks
<1>1. total \in Nat /\ inv[j].paid \in Nat /\ deposit = 0
  BY FormTypes, InvoiceFields
<1>2. form # "Void"
  BY DEF EditedStatus
<1>3. CASE form = "Paid"
  BY <1>1, <1>3, AtLeast0Whole DEF EditedPaid, EditedBalance
<1>4. CASE form \in {"Unpaid", "Open"}
  BY <1>1, <1>4, AtLeast0Whole DEF EditedPaid, EditedBalance
<1>5. CASE form = "Partial"
  <2>1. inv'[j].paid = inv[j].paid /\ inv'[j].balance = total - inv[j].paid
    BY <1>5 DEF EditedPaid, EditedBalance
  <2>2. inv[j].paid < total
    BY <1>1, <1>5 DEF EditRefused
  <2> QED
    BY <1>1, <2>1, <2>2 DEF AtLeast0
<1>6. CASE form \notin {"Paid", "Unpaid", "Open", "Partial"}
  <2>1. /\ inv'[j].paid = inv[j].paid
        /\ inv'[j].balance = AtLeast0(total - inv[j].paid - deposit)
    BY <1>2, <1>6 DEF EditedPaid, EditedBalance
  <2>2. total - inv[j].paid - deposit = total - inv[j].paid
    BY <1>1
  <2> QED
    BY <2>1, <2>2
<1> QED
  BY <1>3, <1>4, <1>5, <1>6

LEMMA BalanceStep ==
  ASSUME SerialInv, TypeOK', BalanceFollowsPayments, Deposits \subseteq {0},
         [SerialNext]_vars
  PROVE  BalanceFollowsPayments'
<1> SUFFICES ASSUME NEW j \in Invoices,
                    inv'[j].status \notin {"None", "Deleted", "Void"}
             PROVE  inv'[j].balance = AtLeast0(inv'[j].total - inv'[j].paid)
  BY DEF BalanceFollowsPayments, Exists
<1>1. TypeOK
  BY DEF SerialInv, BooksInv, PaymentsInv
<1>2. StepOn(j)
  BY SerialStep
<1>3. CASE Keeps(j)
  BY <1>3 DEF Keeps, BalanceFollowsPayments, Exists
<1>4. CASE Opens(j)
  BY <1>4, OpenedBalance
<1>5. CASE Repays(j)
  BY <1>1, <1>5, RepaidBooks
<1>6. CASE Edits(j)
  <2>1. inv[j].balance = AtLeast0(inv[j].total - inv[j].paid)
    BY <1>6 DEF Edits, IsVoid, BalanceFollowsPayments
  <2> QED
    BY <1>1, <1>6, <2>1, EditedBalanceFollows
<1> QED
  BY <1>2, <1>3, <1>4, <1>5, <1>6 DEF StepOn, Cancels, StaysVoid, Removes

\* With one handler at a time and no deposits, an invoice's balance follows from
\* its total and what was paid, whatever sequence of handlers ran.
THEOREM BalanceFollows ==
  ASSUME OneAtATime, Deposits \subseteq {0}
  PROVE  SerialSpec => []BalanceFollowsPayments
<1>1. Init => BalanceFollowsPayments
  BY DEF Init, NoRow, BalanceFollowsPayments, Exists
<1>2. SerialInv /\ TypeOK' /\ BalanceFollowsPayments /\ [SerialNext]_vars
        => BalanceFollowsPayments'
  BY BalanceStep
<1>3. SerialInv => TypeOK
  BY DEF SerialInv, BooksInv, PaymentsInv
<1> QED
  BY <1>1, <1>2, <1>3, SerialInvariant, PTL DEF SerialSpec

LEMMA CardPaymentsStay ==
  ASSUME SerialInv, TypeOK', [SerialNext]_vars, NEW j \in Invoices, HasCardPayment(j)
  PROVE  HasCardPayment(j)'
<1> PICK p \in Payments : pay[p].inv = j /\ ByCard(p)
  BY DEF HasCardPayment
<1>1. ~Fresh(p)
  BY NullsAssumption DEF SerialInv, BooksInv, PaymentsInv, UnusedIds, NoPayment
<1>2. StaysOn(p)
  BY SerialLinks
<1> QED
  BY <1>1, <1>2 DEF StaysOn, HasCardPayment, ByCard

LEMMA ReceivableStep ==
  ASSUME SerialInv, TypeOK', ReceivableTiesToInvoice, Deposits \subseteq {0},
         "estimate" \notin Origins, [SerialNext]_vars
  PROVE  ReceivableTiesToInvoice'
<1> SUFFICES ASSUME NEW j \in Invoices,
                    inv'[j].status \notin {"None", "Deleted", "Void"},
                    ~HasCardPayment(j)', ~hist'[j].formMoved
             PROVE  ar'[j] = inv'[j].total - inv'[j].paid
  BY DEF ReceivableTiesToInvoice, Exists
<1>1. TypeOK
  BY DEF SerialInv, BooksInv, PaymentsInv
<1>2. StepOn(j) /\ ~HasCardPayment(j)
  BY SerialStep, CardPaymentsStay
<1>3. /\ inv[j].total \in Nat /\ inv[j].paid \in Nat /\ ar[j] \in Int
      /\ inv'[j].total \in Nat /\ inv'[j].paid \in Nat
  BY <1>1, InvoiceFields DEF TypeOK, InvoiceRow
<1>4. CASE Keeps(j)
  BY <1>2, <1>4 DEF Keeps, ReceivableTiesToInvoice, Exists
<1>5. CASE Opens(j)
  BY <1>3, <1>5 DEF Opens
<1>6. CASE Repays(j)
  <2>1. hist' = hist /\ Exists(j)
    BY <1>6 DEF Repays
  <2>2. inv[j].status # "Void" => ar[j] = inv[j].total - inv[j].paid
    BY <1>2, <2>1 DEF ReceivableTiesToInvoice
  <2>3. inv'[j].total = inv[j].total /\ ar'[j] = ar[j] - (inv'[j].paid - inv[j].paid)
    BY <1>1, <1>6, <2>1, RepaidBooks
  <2>4. inv[j].status # "Void"
    BY <1>6 DEF Repays, IsVoid
  <2> QED
    BY <1>3, <2>2, <2>3, <2>4
<1>7. CASE Edits(j)
  <2>1. /\ ar'[j] = ar[j] + (inv'[j].total - inv[j].total) - (inv'[j].paid - inv[j].paid)
        /\ Exists(j) /\ ~IsVoid(j) /\ ~hist[j].formMoved
    BY <1>7 DEF Edits
  <2>2. ar[j] = inv[j].total - inv[j].paid
    BY <1>2, <2>1 DEF ReceivableTiesToInvoice, IsVoid
  <2> QED
    BY <1>3, <2>1, <2>2
<1> QED
  BY <1>2, <1>4, <1>5, <1>6, <1>7 DEF StepOn, Cancels, StaysVoid, Removes

\* With one handler at a time, no deposits and no converted estimates, the
\* receivable in the ledger is what the open invoice says is owed; invoices with
\* card payments, or with amount_paid set by a form, apart.
THEOREM ReceivableTies ==
  ASSUME OneAtATime, Deposits \subseteq {0}, "estimate" \notin Origins
  PROVE  SerialSpec => []ReceivableTiesToInvoice
<1>1. Init => ReceivableTiesToInvoice
  BY DEF Init, NoRow, ReceivableTiesToInvoice, Exists
<1>2. SerialInv /\ TypeOK' /\ ReceivableTiesToInvoice /\ [SerialNext]_vars
        => ReceivableTiesToInvoice'
  BY ReceivableStep
<1>3. SerialInv => TypeOK
  BY DEF SerialInv, BooksInv, PaymentsInv
<1> QED
  BY <1>1, <1>2, <1>3, SerialInvariant, PTL DEF SerialSpec
==============================================================================
