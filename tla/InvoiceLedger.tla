---------------------------- MODULE InvoiceLedger ----------------------------
(***************************************************************************)
(* Invoices, the payments recorded against them and the ledger they post   *)
(* to: src/src/modules/billing/billing.routes.ts, stripePayments.ts and    *)
(* publicInvoice.routes.ts, with the posting helpers of                    *)
(* common/accountingHelpers.ts and the keys of common/idempotency.ts.      *)
(*                                                                         *)
(* A handler that reads a row and later opens a transaction is two         *)
(* actions: Begin keeps what the early read saw in req[r], Commit is the   *)
(* transaction, one step because it holds the row locks (FOR UPDATE) until *)
(* it commits.  Several handlers are in flight at once, one per slot r.    *)
(***************************************************************************)
EXTENDS Integers, FiniteSets, Functions

CONSTANTS
  Invoices,      \* invoice ids; an id is used for one row only
  Payments,      \* payment ids, likewise
  Sessions,      \* Stripe checkout sessions, likewise
  Keys,          \* client-generated idempotency keys
  Requests,      \* slots of handlers started by staff or by an open share link
  Crons,         \* slots of the Stripe reconciliation job
  MaxAmount,     \* BOUND: largest invoice total or payment
  MaxWriteOff,   \* BOUND: how far voids may take an invoice's revenue below zero
  OpeningPaid,   \* amounts a new invoice may be entered as already paid
  Deposits,      \* deposit amounts staff enter on a new or edited invoice
  OpeningStatuses, \* statuses staff may send with a new invoice ("" = none)
  FormStatuses,    \* statuses staff may send with an edit ("" = none)
  Origins,       \* the creation paths in use: "invoice", "receipt", "estimate"
  NoInvoice, NoSubmission, NoSession

Slots == Requests \cup Crons
Amounts == 1..MaxAmount

ASSUME AmountsAssumption ==
  /\ MaxAmount \in Nat \ {0}
  /\ MaxWriteOff \in Nat
  /\ OpeningPaid \subseteq Nat
  /\ Deposits \subseteq Nat
  /\ OpeningStatuses \cup FormStatuses
       \subseteq {"", "Unpaid", "Open", "Partial", "Paid", "Void"}
ASSUME NullsAssumption ==
  /\ NoInvoice \notin Invoices
  /\ NoSession \notin Sessions
  /\ NoSubmission \notin [endpoint: {"payment", "receipt"}, key: Keys]

VARIABLES
  inv,      \* v3_invoices
  pay,      \* v3_payments
  idem,     \* v3_idempotency_keys: the submissions already carried out
  ar,       \* v3_gl_entries, net Accounts Receivable per invoice
  revenue,  \* net Sales Revenue per invoice
  cash,     \* net Cash per invoice
  cashOf,   \* net Cash of the lines whose ref is a payment id
  stripe,   \* the checkout sessions as Stripe keeps them
  req,      \* the handlers in flight
  hist      \* what each invoice started with, and whether a form moved amount_paid

ledger == <<ar, revenue, cash, cashOf>>
tables == <<inv, pay, idem, ledger, stripe, hist>>
vars == <<inv, pay, idem, ar, revenue, cash, cashOf, stripe, req, hist>>

-----------------------------------------------------------------------------
(***************************************************************************)
(* Rows                                                                    *)
(***************************************************************************)
InvoiceStatus == {"None", "Unpaid", "Open", "Partial", "Paid", "Void", "Deleted"}
InvoiceRow == [status: InvoiceStatus, total: Nat, paid: Nat, deposit: Nat,
               balance: Int, session: Sessions \cup {NoSession}]
NoRow(status) == [status |-> status, total |-> 0, paid |-> 0, deposit |-> 0,
                  balance |-> 0, session |-> NoSession]

Submissions(endpoint) == [endpoint: {endpoint}, key: Keys]
Submission == [endpoint: {"payment", "receipt"}, key: Keys]
PaymentRow == [status: {"None", "Active", "Reversed"},
               inv: Invoices \cup {NoInvoice}, amount: Nat,
               submission: Submission \cup {NoSubmission},
               session: Sessions \cup {NoSession}]
NoPayment == [status |-> "None", inv |-> NoInvoice, amount |-> 0,
              submission |-> NoSubmission, session |-> NoSession]

StripeSession == [state: {"none", "open", "paid"},
                  inv: Invoices \cup {NoInvoice}, amount: Nat]
History == [paidIn: Nat, cashIn: Nat, formMoved: BOOLEAN]

Idle == [op |-> "idle"]
PaymentReq == [op: {"payment"}, inv: Invoices, amount: Nat, total: Nat,
               submission: Submission \cup {NoSubmission}]
ReverseReq == [op: {"reverse"}, pay: Payments, inv: Invoices, total: Nat,
               void: BOOLEAN]
EditReq == [op: {"edit"}, inv: Invoices]
DeleteReq == [op: {"delete"}, inv: Invoices]
CheckoutReq == [op: {"checkout"}, inv: Invoices, amount: Nat]
SettleReq == [op: {"settle"}, inv: Invoices, session: Sessions]
Request == {Idle} \cup PaymentReq \cup ReverseReq \cup EditReq \cup DeleteReq
             \cup CheckoutReq \cup SettleReq

TypeOK ==
  /\ inv \in [Invoices -> InvoiceRow]
  /\ pay \in [Payments -> PaymentRow]
  /\ idem \subseteq Submission
  /\ ar \in [Invoices -> Int]
  /\ revenue \in [Invoices -> Int]
  /\ cash \in [Invoices -> Int]
  /\ cashOf \in [Payments -> Int]
  /\ stripe \in [Sessions -> StripeSession]
  /\ req \in [Slots -> Request]
  /\ hist \in [Invoices -> History]

Init ==
  /\ inv = [i \in Invoices |-> NoRow("None")]
  /\ pay = [p \in Payments |-> NoPayment]
  /\ idem = {}
  /\ ar = [i \in Invoices |-> 0]
  /\ revenue = [i \in Invoices |-> 0]
  /\ cash = [i \in Invoices |-> 0]
  /\ cashOf = [p \in Payments |-> 0]
  /\ stripe = [s \in Sessions |-> [state |-> "none", inv |-> NoInvoice, amount |-> 0]]
  /\ req = [r \in Slots |-> Idle]
  /\ hist = [i \in Invoices |-> [paidIn |-> 0, cashIn |-> 0, formMoved |-> FALSE]]

-----------------------------------------------------------------------------
(***************************************************************************)
(* Helpers                                                                 *)
(***************************************************************************)
AtLeast0(n) == IF n > 0 THEN n ELSE 0
StatusFor(balance, paid) ==
  IF balance <= 0 THEN "Paid" ELSE IF paid > 0 THEN "Partial" ELSE "Unpaid"

IsVoidNever(i) == FALSE              \* mutation: the status is not looked at
IsVoid(i) == inv[i].status = "Void"
HasPayments(i) == \E p \in Payments : pay[p].inv = i
Exists(i) == inv[i].status \notin {"None", "Deleted"}
Fresh(p) == pay[p].status = "None"
Recorded(s) == \E p \in Payments : pay[p].session = s
Done(r) == req' = [req EXCEPT ![r] = Idle]

PostReversedSide(i, delta, received) ==  \* mutation: AR debited by a receipt
  /\ ar' = [ar EXCEPT ![i] = @ + delta + received]
  /\ revenue' = [revenue EXCEPT ![i] = @ + delta]
  /\ cash' = [cash EXCEPT ![i] = @ + received]
\* postInvoiceTotalGl(delta) and postInvoicePaymentGl(received) on one invoice:
\* Dr AR / Cr Revenue for the delta, Dr Cash / Cr AR for what was received.
Post(i, delta, received) ==
  /\ ar' = [ar EXCEPT ![i] = @ + delta - received]
  /\ revenue' = [revenue EXCEPT ![i] = @ + delta]
  /\ cash' = [cash EXCEPT ![i] = @ + received]
PostOf(p, received) == cashOf' = [cashOf EXCEPT ![p] = @ + received]

RepaidCapped(row, total, paid) ==    \* mutation: an overpayment is cut off
  LET kept == IF paid > total THEN total ELSE paid
      balance == AtLeast0(total - kept)
  IN  [row EXCEPT !.paid = kept, !.balance = balance,
                  !.status = StatusFor(balance, kept)]
\* The row a handler writes back after amount_paid moved.
Repaid(row, total, paid) ==
  LET balance == AtLeast0(total - paid)
  IN  [row EXCEPT !.paid = paid, !.balance = balance,
                  !.status = StatusFor(balance, paid)]

-----------------------------------------------------------------------------
(***************************************************************************)
(* Creating an invoice                                                     *)
(***************************************************************************)
\* POST /invoices.  Staff may enter part of the total as paid or deposited;
\* a status sent with the form is stored as it is.
CreateInvoice(i, total, paid, deposit, form) ==
  LET balance == AtLeast0(total - paid - deposit) IN
  /\ "invoice" \in Origins
  /\ inv[i].status = "None"
  /\ inv' = [inv EXCEPT ![i] =
       [status |-> IF form = "" THEN StatusFor(balance, paid + deposit) ELSE form,
        total |-> total, paid |-> paid, deposit |-> deposit,
        balance |-> balance, session |-> NoSession]]
  /\ Post(i, total, paid + deposit)
  /\ hist' = [hist EXCEPT ![i] = [@ EXCEPT !.paidIn = paid, !.cashIn = paid + deposit]]
  /\ UNCHANGED <<pay, idem, cashOf, stripe, req>>

\* POST /sales-receipt: invoice, payment and key in one transaction.  A key
\* already used answers with the stored response and writes nothing.
SalesReceipt(i, p, amount, submission) ==
  /\ "receipt" \in Origins
  /\ inv[i].status = "None"
  /\ Fresh(p)
  /\ submission \notin idem
  /\ idem' = idem \cup ({submission} \ {NoSubmission})
  /\ inv' = [inv EXCEPT ![i] =
       [status |-> "Paid", total |-> amount, paid |-> amount, deposit |-> 0,
        balance |-> 0, session |-> NoSession]]
  /\ pay' = [pay EXCEPT ![p] =
       [status |-> "Active", inv |-> i, amount |-> amount,
        submission |-> submission, session |-> NoSession]]
  /\ Post(i, amount, amount)
  /\ PostOf(p, amount)
  /\ UNCHANGED <<stripe, req, hist>>

\* POST /estimates/:id/convert, its invoice only: the deposit becomes
\* amount_paid and nothing is posted.
ConvertEstimate(i, total, deposit) ==
  /\ "estimate" \in Origins
  /\ inv[i].status = "None"
  /\ inv' = [inv EXCEPT ![i] =
       [status |-> IF total - deposit > 0 THEN "Open" ELSE "Paid",
        total |-> total, paid |-> deposit, deposit |-> deposit,
        balance |-> total - deposit, session |-> NoSession]]
  /\ hist' = [hist EXCEPT ![i].paidIn = deposit]
  /\ UNCHANGED <<pay, idem, ledger, stripe, req>>

-----------------------------------------------------------------------------
(***************************************************************************)
(* POST /invoices/:id/payments                                             *)
(***************************************************************************)
\* The early read: a void invoice is refused, and total_amount is kept.
PaymentBegin(r, i, amount, submission) ==
  /\ req[r] = Idle
  /\ Exists(i)
  /\ ~IsVoid(i)
  /\ req' = [req EXCEPT ![r] =
       [op |-> "payment", inv |-> i, amount |-> amount,
        total |-> inv[i].total, submission |-> submission]]
  /\ UNCHANGED tables

PaymentRefusedKeyless(q) ==          \* mutation: the key is not reserved
  inv[q.inv].paid + q.amount > q.total \/ ~Exists(q.inv)
\* The transaction answers without writing: over the cap, a key already used,
\* or the invoice deleted meanwhile (the insert breaks its foreign key).
PaymentRefused(q) ==
  \/ inv[q.inv].paid + q.amount > q.total
  \/ q.submission \in idem
  \/ ~Exists(q.inv)

PaymentRefuse(r) ==
  /\ req[r].op = "payment"
  /\ PaymentRefused(req[r])
  /\ Done(r)
  /\ UNCHANGED tables

\* amount_paid is re-read under the row lock; the total is the early read's.
PaymentCommit(r, p) ==
  LET q == req[r]  i == q.inv IN
  /\ q.op = "payment"
  /\ ~PaymentRefused(q)
  /\ Fresh(p)
  /\ idem' = idem \cup ({q.submission} \ {NoSubmission})
  /\ pay' = [pay EXCEPT ![p] =
       [status |-> "Active", inv |-> i, amount |-> q.amount,
        submission |-> q.submission, session |-> NoSession]]
  /\ inv' = [inv EXCEPT ![i] = Repaid(@, q.total, @.paid + q.amount)]
  /\ Post(i, 0, q.amount)
  /\ PostOf(p, q.amount)
  /\ Done(r)
  /\ UNCHANGED <<stripe, hist>>

-----------------------------------------------------------------------------
(***************************************************************************)
(* POST /payments/:id/reverse                                              *)
(***************************************************************************)
\* The early reads: the payment's status, the invoice's total and whether it
\* is void.  A payment whose invoice was deleted is answered 404.
ReverseBegin(r, p) ==
  LET i == pay[p].inv IN
  /\ req[r] = Idle
  /\ pay[p].status = "Active"
  /\ i # NoInvoice
  /\ req' = [req EXCEPT ![r] =
       [op |-> "reverse", pay |-> p, inv |-> i, total |-> inv[i].total,
        void |-> IsVoid(i)]]
  /\ UNCHANGED tables

ClaimableAlways(p) == TRUE           \* mutation: UPDATE without its WHERE
\* The claim UPDATE ... WHERE status <> 'Reversed' matches the row.
Claimable(p) == pay[p].status # "Reversed"

ReverseRefuse(r) ==
  /\ req[r].op = "reverse"
  /\ ~Claimable(req[r].pay)
  /\ Done(r)
  /\ UNCHANGED tables

\* The claim, then the invoice rolled back under its row lock.  The row may be
\* gone by now: its UPDATE matches nothing, the posting is made all the same.
ReverseCommit(r) ==
  LET q == req[r]
      i == q.inv
      amount == pay[q.pay].amount
      newPaid == AtLeast0(inv[i].paid - amount)
  IN
  /\ q.op = "reverse"
  /\ Claimable(q.pay)
  /\ pay' = [pay EXCEPT ![q.pay].status = "Reversed"]
  /\ inv' = [inv EXCEPT ![i] =
       IF ~Exists(i) THEN @
       ELSE IF q.void THEN [@ EXCEPT !.paid = newPaid]
       ELSE Repaid(@, q.total, newPaid)]
  /\ Post(i, 0, -amount)
  /\ PostOf(q.pay, -amount)
  /\ Done(r)
  /\ UNCHANGED <<idem, stripe, hist>>

-----------------------------------------------------------------------------
(***************************************************************************)
(* POST /invoices/:id/void, PATCH /invoices/:id, POST /invoices/:id/delete *)
(***************************************************************************)
\* The early read decides nothing but access; balance_due is read under lock
\* and written off.
VoidInvoice(i) ==
  /\ Exists(i)
  /\ revenue[i] - inv[i].balance >= -MaxWriteOff
  /\ inv' = [inv EXCEPT ![i] = [@ EXCEPT !.status = "Void", !.balance = 0]]
  /\ Post(i, -inv[i].balance, 0)
  /\ UNCHANGED <<pay, idem, cashOf, stripe, req, hist>>

\* isInvoiceLockedForEdit looks at the early read only.
EditBegin(r, i) ==
  /\ req[r] = Idle
  /\ Exists(i)
  /\ inv[i].status \notin {"Paid", "Void"}
  /\ req' = [req EXCEPT ![r] = [op |-> "edit", inv |-> i]]
  /\ UNCHANGED tables

EditedStaleBalance(row, total, deposit, form) ==  \* mutation: balance kept
  [row EXCEPT !.total = total, !.deposit = deposit,
              !.status = IF form = "" THEN @ ELSE form]
\* The row an edit writes: total and deposit from the form; paid and balance
\* re-derived, then snapped to a status the form asks for.
Edited(row, total, deposit, form) ==
  LET derived == AtLeast0(total - row.paid - deposit)
      paid == CASE form = "Paid" -> total
                [] form \in {"Unpaid", "Open", "Void"} -> 0
                [] OTHER -> row.paid
      balance == CASE form \in {"Paid", "Void"} -> 0
                   [] form \in {"Unpaid", "Open"} -> total
                   [] form = "Partial" -> total - row.paid
                   [] OTHER -> derived
  IN  [row EXCEPT !.total = total, !.deposit = deposit, !.paid = paid,
                  !.balance = balance,
                  !.status = IF form = "" THEN @ ELSE form]

\* "Partial" without a partial payment is refused.
EditRefused(row, total, form) ==
  form = "Partial" /\ (row.paid <= 0 \/ row.paid >= total)

\* Total and paid deltas against the locked row are posted, whatever the row's
\* status has become.
EditCommit(r, total, deposit, form) ==
  LET i == req[r].inv
      row == Edited(inv[i], total, deposit, form)
  IN
  /\ req[r].op = "edit"
  /\ Exists(i)
  /\ ~EditRefused(inv[i], total, form)
  /\ inv' = [inv EXCEPT ![i] = row]
  /\ Post(i, row.total - inv[i].total, row.paid - inv[i].paid)
  /\ hist' = [hist EXCEPT ![i].formMoved = @ \/ row.paid # inv[i].paid]
  /\ Done(r)
  /\ UNCHANGED <<pay, idem, cashOf, stripe>>

EditRefuse(r, total, form) ==
  LET i == req[r].inv IN
  /\ req[r].op = "edit"
  /\ ~Exists(i) \/ EditRefused(inv[i], total, form)
  /\ Done(r)
  /\ UNCHANGED tables

\* The count of payments is a query of its own, before the DELETE.
DeleteBegin(r, i) ==
  /\ req[r] = Idle
  /\ Exists(i)
  /\ ~HasPayments(i)
  /\ req' = [req EXCEPT ![r] = [op |-> "delete", inv |-> i]]
  /\ UNCHANGED tables

\* DELETE sets v3_payments.invoice_id to NULL; the ledger lines stay.
DeleteCommit(r) ==
  LET i == req[r].inv IN
  /\ req[r].op = "delete"
  /\ inv' = [inv EXCEPT ![i] = NoRow("Deleted")]
  /\ pay' = [p \in Payments |->
       IF pay[p].inv = i THEN [pay[p] EXCEPT !.inv = NoInvoice] ELSE pay[p]]
  /\ Done(r)
  /\ UNCHANGED <<idem, ledger, stripe, hist>>

-----------------------------------------------------------------------------
(***************************************************************************)
(* Card payments: the share link, Stripe Checkout, the reconciliation job  *)
(***************************************************************************)
\* POST /public/invoice/:token/checkout reads the row ...
CheckoutBegin(r, i) ==
  /\ req[r] = Idle
  /\ Exists(i)
  /\ inv[i].balance > 0
  /\ req' = [req EXCEPT ![r] =
       [op |-> "checkout", inv |-> i, amount |-> inv[i].balance]]
  /\ UNCHANGED tables

\* ... creates a session for the balance it read, and remembers it on the row
\* in place of any earlier one.
CheckoutCommit(r, s) ==
  LET q == req[r] IN
  /\ q.op = "checkout"
  /\ stripe[s].state = "none"
  /\ stripe' = [stripe EXCEPT ![s] =
       [state |-> "open", inv |-> q.inv, amount |-> q.amount]]
  /\ inv' = IF Exists(q.inv) THEN [inv EXCEPT ![q.inv].session = s] ELSE inv
  /\ Done(r)
  /\ UNCHANGED <<pay, idem, ledger, hist>>

\* The client pays on stripe.com: any session it was given the link of.
ClientPays(s) ==
  /\ stripe[s].state = "open"
  /\ stripe' = [stripe EXCEPT ![s].state = "paid"]
  /\ UNCHANGED <<inv, pay, idem, ledger, req, hist>>

\* settleStripePaymentIfPaid, its early reads: a remembered session, a balance
\* still due, no payment with the session as its confirmation number.
MaySettle(i) ==
  /\ Exists(i)
  /\ inv[i].session # NoSession
  /\ inv[i].balance > 0
  /\ ~Recorded(inv[i].session)

SettleStart(r, i) ==
  /\ req[r] = Idle
  /\ MaySettle(i)
  /\ req' = [req EXCEPT ![r] =
       [op |-> "settle", inv |-> i, session |-> inv[i].session]]
  /\ UNCHANGED tables

\* GET /public/invoice/:token.
SettleBegin(r, i) == SettleStart(r, i)

UnsettledOnly(i) == inv[i].status = "Unpaid"   \* mutation: Partial left out
Unsettled(i) == inv[i].status \notin {"Paid", "Void"}

\* runStripeReconciliation, one invoice of its list.
ReconcileBegin(c, i) ==
  /\ Unsettled(i)
  /\ SettleStart(c, i)

NothingToRecordStale(q) ==           \* mutation: no re-check under the lock
  stripe[q.session].state # "paid" \/ ~Exists(q.inv)
\* Stripe says the session is not paid, or the locked re-check finds the
\* invoice gone or the session already recorded.
NothingToRecord(q) ==
  stripe[q.session].state # "paid" \/ ~Exists(q.inv) \/ Recorded(q.session)

SettleReturn(r) ==
  /\ req[r].op = "settle"
  /\ NothingToRecord(req[r])
  /\ Done(r)
  /\ UNCHANGED tables

\* The charge is recorded in full against the locked row.  Nothing is posted.
SettleCommit(r, p) ==
  LET q == req[r]
      i == q.inv
      amount == stripe[q.session].amount
  IN
  /\ q.op = "settle"
  /\ ~NothingToRecord(q)
  /\ Fresh(p)
  /\ pay' = [pay EXCEPT ![p] =
       [status |-> "Active", inv |-> i, amount |-> amount,
        submission |-> NoSubmission, session |-> q.session]]
  /\ inv' = [inv EXCEPT ![i] = Repaid(@, @.total, @.paid + amount)]
  /\ Done(r)
  /\ UNCHANGED <<idem, ledger, stripe, hist>>

\* The process restarts: handlers in flight are gone, open transactions roll
\* back.
Restart ==
  /\ \E r \in Slots : req[r] # Idle
  /\ req' = [r \in Slots |-> Idle]
  /\ UNCHANGED tables

-----------------------------------------------------------------------------
Create(i) ==
  \/ \E total \in Amounts, paid \in OpeningPaid, deposit \in Deposits,
        form \in OpeningStatuses : CreateInvoice(i, total, paid, deposit, form)
  \/ \E p \in Payments, amount \in Amounts,
        submission \in Submissions("receipt") \cup {NoSubmission} :
       SalesReceipt(i, p, amount, submission)
  \/ \E total \in Amounts, deposit \in Deposits : ConvertEstimate(i, total, deposit)

BeginOn(r, i) ==
  \/ \E amount \in Amounts,
        submission \in Submissions("payment") \cup {NoSubmission} :
       PaymentBegin(r, i, amount, submission)
  \/ EditBegin(r, i)
  \/ DeleteBegin(r, i)
  \/ CheckoutBegin(r, i)
  \/ SettleBegin(r, i)

Answer(r) ==
  \/ PaymentRefuse(r)
  \/ ReverseRefuse(r)
  \/ SettleReturn(r)
  \/ \E total \in Amounts, form \in FormStatuses : EditRefuse(r, total, form)

Commit(r) ==
  \/ \E p \in Payments : PaymentCommit(r, p)
  \/ ReverseCommit(r)
  \/ \E total \in Amounts, deposit \in Deposits, form \in FormStatuses :
       EditCommit(r, total, deposit, form)
  \/ DeleteCommit(r)
  \/ \E s \in Sessions : CheckoutCommit(r, s)
  \/ \E p \in Payments : SettleCommit(r, p)

\* Handlers that are one step, and the steps of the others.
AtOnce == \E i \in Invoices : Create(i) \/ VoidInvoice(i)
InFlight ==
  \/ \E r \in Requests, i \in Invoices : BeginOn(r, i)
  \/ \E r \in Requests, p \in Payments : ReverseBegin(r, p)
  \/ \E c \in Crons, i \in Invoices : ReconcileBegin(c, i)
  \/ \E r \in Slots : Answer(r) \/ Commit(r)
  \/ \E s \in Sessions : ClientPays(s)
  \/ Restart

Next == AtOnce \/ InFlight
Spec == Init /\ [][Next]_vars

\* One handler at a time: with a single slot, nothing starts before it answered.
SerialNext == InFlight \/ ((\A r \in Slots : req[r] = Idle) /\ AtOnce)
SerialSpec == Init /\ [][SerialNext]_vars

\* The job runs every four hours for as long as the process is up, and is not
\* killed in the middle of every run; nobody else is obliged to act.
Fairness ==
  \A c \in Crons :
    /\ \A i \in Invoices : SF_vars(ReconcileBegin(c, i))
    /\ SF_vars(Answer(c) \/ Commit(c))
FairSpec == Spec /\ Fairness
FairSerialSpec == SerialSpec /\ Fairness

-----------------------------------------------------------------------------
(***************************************************************************)
(* What the component promises                                             *)
(***************************************************************************)
ByCard(p) == pay[p].session # NoSession
HasCardPayment(i) == \E p \in Payments : pay[p].inv = i /\ ByCard(p)

\* However often a submission is sent, and however the sends overlap, one
\* payment row carries its key (reserveIdempotencyKey inside the transaction).
OnePaymentPerSubmission ==
  \A p, q \in Payments :
    pay[p].submission = pay[q].submission /\ pay[p].submission # NoSubmission
      => p = q

\* Page loads and the reconciliation job race to settle one checkout session:
\* its charge is recorded once (the re-check under the invoice lock).
OneRecordPerCharge ==
  \A p, q \in Payments : pay[p].session = pay[q].session /\ ByCard(p) => p = q

\* The ledger carries a hand-recorded payment's cash exactly while the payment
\* stands: posted once, reversed at most once however many reversals race.
LedgerFollowsPayments ==
  \A p \in Payments :
    ~ByCard(p) => cashOf[p] = IF pay[p].status = "Active" THEN pay[p].amount ELSE 0

ActiveOn(i) == {p \in Payments : pay[p].inv = i /\ pay[p].status = "Active"}
ActiveTotal(i) == SumFunctionOnSet([p \in Payments |-> pay[p].amount], ActiveOn(i))

\* No recorded payment is ever lost from amount_paid, nor counted twice: it is
\* what the invoice was opened with plus its active payments, by hand or card,
\* whatever raced (the lost update the FOR UPDATE reads are there to prevent).
AmountPaidIsActivePayments ==
  \A i \in Invoices :
    Exists(i) /\ ~hist[i].formMoved
      => inv[i].paid = hist[i].paidIn + ActiveTotal(i)

\* amount_paid and the cash in the ledger move together under every
\* interleaving of payments, reversals, edits and voids.  Card payments are
\* never posted, and a form that set amount_paid itself is outside the claim.
CashTiesToAmountPaid ==
  \A i \in Invoices :
    Exists(i) /\ ~HasCardPayment(i) /\ ~hist[i].formMoved
      => cash[i] - hist[i].cashIn = inv[i].paid - hist[i].paidIn

-----------------------------------------------------------------------------
(***************************************************************************)
(* Promised of handlers that run one at a time (SerialSpec)                *)
(***************************************************************************)
\* A canceled invoice stays canceled: no payment, reversal, settlement or edit
\* brings it back ("must never be recomputed from payment history").
VoidSticks ==
  [][\A i \in Invoices :
       inv[i].status = "Void" => inv'[i].status \in {"Void", "Deleted"}]_vars

\* Until it is void, an invoice's balance follows from its total and what was
\* paid on it, through every sequence of handlers.
BalanceFollowsPayments ==
  \A i \in Invoices :
    Exists(i) /\ inv[i].status # "Void"
      => inv[i].balance = AtLeast0(inv[i].total - inv[i].paid)

\* The receivable in the ledger is what the open invoice says is still owed
\* (negative when an edit took the total below what was paid).
ReceivableTiesToInvoice ==
  \A i \in Invoices :
    Exists(i) /\ inv[i].status # "Void" /\ ~HasCardPayment(i) /\ ~hist[i].formMoved
      => ar[i] = inv[i].total - inv[i].paid

\* What the edit handler says of balance_due: always what total, paid and
\* deposit add up to.
BalanceCountsDeposit ==
  \A i \in Invoices :
    Exists(i) /\ inv[i].status # "Void"
      => inv[i].balance = AtLeast0(inv[i].total - inv[i].paid - inv[i].deposit)

\* What the delete handler says of itself: it is refused where it "would orphan
\* the payment row".  DeleteRace.cfg finds the payment recorded after the count.
NoOrphanedPayment ==
  \A p \in Payments : pay[p].status # "None" => pay[p].inv # NoInvoice

-----------------------------------------------------------------------------
(***************************************************************************)
(* Promised of the reconciliation job                                      *)
(***************************************************************************)
IdsLeft == \E p \in Payments : Fresh(p)
Charged(s) == stripe[s].state = "paid"
Canceled(s) == \E i \in Invoices :
                 i = stripe[s].inv /\ inv[i].status \in {"Void", "Deleted"}
Collectable(s) ==
  LET i == stripe[s].inv IN
  /\ Charged(s)
  /\ inv[i].session = s
  /\ inv[i].status \notin {"Paid", "Void"}
  /\ inv[i].balance > 0

\* A charge whose session the open invoice still remembers is recorded without
\* anyone opening the invoice again.
RememberedChargeSettles ==
  \A s \in Sessions :
    Collectable(s) /\ IdsLeft ~> Recorded(s) \/ ~Collectable(s) \/ ~IdsLeft

\* Every charge the client made is recorded in the end, unless the invoice was
\* canceled: the card is charged by then, whatever else was paid meanwhile.
ChargeIsRecorded ==
  \A s \in Sessions : Charged(s) ~> Recorded(s) \/ Canceled(s) \/ ~IdsLeft
=============================================================================
