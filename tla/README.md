# Verification of the AL TAX SERVICE backend

A TLA+ development kept beside the code: modules translated from the TypeScript
sources, TLC configurations that check them on small instances, and theorems
checked by TLAPS for every value of the constants. Paths below are relative to
the repository's root (`src/...` is the backend, `sql/...` its schema,
`frontend/...` the browser application).

## 1. The system

One Express process serves the office staff, the clients' portal and public
links, and runs the scheduled jobs (`node-cron` in `src/server.ts`). All state
that survives a restart is in PostgreSQL (schema `altax`). A handler is an async
function; between two awaits any other handler may run, so everything read
outside a transaction may be stale when it is used. `withTransaction`
(`src/config/db.ts`) gives BEGIN/COMMIT at READ COMMITTED; the code adds row
locks (`SELECT ... FOR UPDATE`), advisory locks (`pg_advisory_xact_lock`), unique
keys (`v3_idempotency_keys`) and conditional updates (`UPDATE ... WHERE status
<> ... RETURNING`) where somebody met a race. The hard behaviours of the system
are therefore nearly all of one shape: an early read, a wait, a write.

### Inventory

| Component | State it keeps | Operations | Interacts with | What is hard, what makes it correct |
|---|---|---|---|---|
| Invoices and payments (`modules/billing/billing.routes.ts`, `common/accountingHelpers.ts`, `common/idempotency.ts`) | `v3_invoices`, `v3_payments`, `v3_idempotency_keys`, lines in `v3_gl_entries` | create, edit, void, delete, record payment, reverse payment, sales receipt, from time entries | ledger, Stripe, estimates, time entries | early reads of status and total; double submission; money recorded once, ledger, `amount_paid` and `balance_due` agreeing |
| Card payments (`stripePayments.ts`, `publicInvoice.routes.ts`) | `stripe_session_id` on the invoice; the session at Stripe | checkout, settle on page load, settle by the four-hourly job | invoices, the client's browser | two settlers of one charge; a charge that completes after the invoice changed |
| Recurring billing (`billing.routes.ts` 1470-1914) | `v3_recurring_billing`, invoices keyed by schedule and date | save, pause, resume, archive, delete, skip, Use Now, Run, daily sweep | invoices, mail and SMS of auto-send | overlapping runs, crash between the invoice and the row's advance, stale rows, calendar arithmetic; one invoice per date, none lost |
| Estimates (`modules/estimates`) | `v3_estimates` | create, edit, accept, convert | clients, invoices | convert twice |
| Time tracking (`modules/timeTracking`) | `v3_time_entries` (`billed`, `invoice_id`) | start, stop, edit, delete, bill | invoices | entry billed twice, or edited while it is billed |
| Payroll (`modules/accounting/accounting.routes.ts`) | `v3_paychecks`, payroll ledger lines | create, edit, repost, print, delete | employees, ledger, EFTPS deposits | check numbers derived from a count, wage caps from year-to-date sums; one check per date, ledger and checks agreeing |
| Payroll agent (`payrollAgent.routes.ts`) | `v3_payroll_schedules`, `v3_payroll_drafts`, the auto-run switch | schedules, daily sweep, edit, approve and dismiss drafts | payroll, employees | one draft and one paycheck per pay date, exception or crash after the claim, dismissal beside approval |
| Client books: sales and purchase drafts (`accounting.routes.ts`, `modules/salesInputImport`) | drafts, sales, purchases | submit, edit, approve, dismiss, import | ledger | claim, post and link in three commits, release on failure; posted once, as reviewed |
| Task rules agent, tasks (`modules/rules`, `modules/tasks`) | `v3_task_rule_drafts`, tasks | sweep, approve, complete | payroll, filings | as for the drafts above |
| Bank reconciliation (`modules/bankRec`) | bank lines, drafts of entries, clearing rows | upload, auto-match, match, unmatch, create entry, approve or dismiss a draft, deposit | ledger, sales | a line matched once, a ledger entry used once, a sale in one deposit |
| Reminders (`modules/reminders`, `common/paymentReminders.ts`) | reminder rows, send records | schedule, send, retry | mail, SMS, invoices | marked before sent; overlapping runs |
| Appointments (`modules/appointments`, `publicAppointments`) | `v3_appointments`, the settings, advisory locks of days | book, reschedule, cancel, edit, remind | mail, SMS | two visitors, one slot; a reminder sent twice, or for a time that has changed |
| Document signing (`modules/docBuilder/esign.ts`), contracts (`modules/contracts`) | contracts, signers | generate, send, sign, decline, cancel, sign in person, void, delete | mail | last two signers at once, re-send or cancellation during a signature, a void beside a signature |
| Sessions (`modules/auth`, `common/requireAuth.ts`) | users, failed-login count, token version, a per-process cache | login, lock, log out, deactivate | everything | count read before an await; cache filled after an invalidation |
| Clients, ownership transfer (`modules/clients`) | clients, transfers | invite, accept, apply | users, obligations | applied twice |
| Tax deposits and filings, compliance calendar, government forms, reports, documents, kiosk, HACCP, portal, newsletter | their own tables | mostly upserts and queries | - | due-date rules; otherwise single statements |
| Scheduler and database access (`server.ts`, `config/db.ts`, `common/jobRuns.ts`) | cron table, the pool of ten clients | run a job, record it; query, transaction | everything | a job killed half way, a job overlapping a person; a transaction that asks for a second client |
| Frontend, marketing site | browser state | forms | the API | which values a form can send |

`PROJECT.json` lists every component with its files and status, and under
`hazards` every place where one of these hard behaviours bites, at its line, with
the property that covers it or why none does.

## 2. Modules

| Module | Models | Extended by |
|---|---|---|
| `InvoiceLedger` | invoices, payments, ledger postings, idempotency keys, Stripe checkout and settlement | `MCInvoiceLedger` (TLC), `InvoiceLedgerProofs` (TLAPS) |
| `PlannedDates` | the dates a schedule stands for once it has been saved | `RecurringBilling`, `PayrollAgent` |
| `RecurringDates` | `nextRecurringDate`, as a machine that advances one schedule | `RecurringBillingProofs` |
| `RecurringBilling` | schedules, sweeps, Use Now, skip, and the invoices they make | `RecurringBillingProofs` |
| `PeriodBilling` | the abstract promise of recurring billing; `RecurringBilling` instantiates it as `PB` | - |
| `PayrollAgent` | pay schedules, the daily sweep, drafts, their approval and dismissal, the paychecks of the dates concerned | `MCPayrollAgent`, `PayrollProofs` |
| `Paychecks` | paychecks and their ledger entries: create, edit, repost, print, delete | `MCPaychecks`, `PayrollProofs` |
| `ClientBooks` | the review of the clients' sales submissions, and the sales posted for them | `ClientBooksProofs` |
| `PostOnce` | the abstract promise of the review; `ClientBooks` instantiates it as `PO` | - |
| `BankMatching` | bank lines, drafts, ledger entries, card sales and the deposits that cover them | `MCBankMatching`, `BankMatchingProofs` |
| `Signing` | documents with their signers, and letters | `MCSigning`, `SigningProofs` |
| `Appointments` | the calendar, the public booking page, reminders | `MCAppointments`, `AppointmentsProofs` |
| `ConnectionPool` | the pool of database clients and the transactions that use it | `PayrollProofs` |
| `SetSums` | nothing of the code: lemmas on sums over finite sets | the three proof modules that need sums |

The modules meet in a few places, and say so: the paychecks of `PayrollAgent`
are those `Paychecks` creates (it keeps only whether a date has one), the sales
of `BankMatching` may come from `ClientBooks`, and the transactions every module
takes as one step run on the clients of `ConnectionPool`. They share no row that
two of them write, except that `PayrollAgent` lets any other route add or remove a
paycheck.

Definitions marked `\* mutation` stand beside the definition they change. They
are not used by any specification: each is a plausible slip in the code (a
dropped re-check, a missing `Math.max`), recorded with the property it breaks
under `mutants` in `PROJECT.json`.

### 2.1 InvoiceLedger

State. `inv` is `v3_invoices` (status, total, `amount_paid`, deposit,
`balance_due`, `stripe_session_id`), `pay` is `v3_payments`, `idem` the keys
carried out, `stripe` the checkout sessions on Stripe's side. The ledger is kept
as net amounts: `ar`, `revenue` and `cash` per invoice and `cashOf` per payment,
because a posting is always a balanced pair of lines under one reference. `req[r]`
holds what a handler in flight read before its transaction. `hist` is a history
variable: what an invoice was opened with, and whether a form has moved
`amount_paid`.

Actions. A handler that reads and then opens a transaction is two actions:
`PaymentBegin`/`PaymentCommit`, `ReverseBegin`/`ReverseCommit`,
`EditBegin`/`EditCommit`, `DeleteBegin`/`DeleteCommit`,
`CheckoutBegin`/`CheckoutCommit`, `SettleBegin` or
`ReconcileBegin`/`SettleCommit`; refusals inside a transaction are
`PaymentRefuse`, `ReverseRefuse`, `EditRefuse`, `SettleReturn`. The transaction
is one step because its first statement takes the row lock that all writers of
the row take, and its other statements read rows only it may change. Handlers
whose early read decides nothing (`CreateInvoice`, `SalesReceipt`,
`ConvertEstimate`, `VoidInvoice`) are one action. `ClientPays` is the client on
stripe.com. `Restart` drops every handler in flight.

What the statuses mean is the code's: a comparison with `void` and `paid` only
(`isInvoiceLockedForEdit`). "Sent", "Viewed" and "Overdue" are display and behave
as "Unpaid" does.

Two specifications. `Spec` lets handlers overlap freely. `SerialSpec` starts a
handler only when none is in flight; it is what a single user meets, and carries
properties that are not true under overlap.

### 2.2 RecurringDates, RecurringBilling, PeriodBilling

`RecurringDates` computes real calendar dates, with the overflow of
JavaScript's `setUTCMonth` and `setUTCDate` (a number of weeks is added a week at a
time, which comes to the same). `interval_count` and `repeat_on_day` are any
integers, as nothing checks them. It shows that each date is later
than the one before, and by how much: what `RecurringBilling` needs of a frequency.

In `RecurringBilling` a date is a day, and frequency, interval and pinned day come
down to the `step` from a date to the next. The module keeps the schedule rows,
`standing` (how many invoices of a schedule and date are not void), `today`, and per
sweep and per request what was read: the date and the step of the row, from which the
handler computes the date it writes (`ReadingOf`, `DateAfter`). A save writes
any date, step, end and status over the row, as the form does. A sweep is `JobBegin`
or `RunBegin` (the SELECT: as of today and for everybody, or as of any day a person
enters and for the clients they see), then per schedule `SweepInvoice` or `SweepFail`
(the transaction) and `SweepAdvance` (the UPDATE of `next_run_date`, a statement of
its own). Use Now is `RunNowBegin`, `RunNowInvoice` or `RunNowRefuse`,
`RunNowAdvance`; skip is `SkipBegin`, `SkipCommit`. `Restart` may come between any
two. "Stopped" stands for Paused and Archived, which no handler tells apart.

Four history variables: `plan`, the dates of the schedule as last saved; `raced`,
that it was saved while a sweep, Use Now or skip had it in hand, which then writes a
date of the old schedule over the new one; `settled`, the dates invoiced or skipped
since; `skipped`. Amounts, access checks, mails and texts are left out: no property
looks at them.
Cancelling an invoice is taken as final here; that a payment can bring a void
invoice back is the subject of `InvoiceLedger` (`VoidRace.cfg`).

`PeriodBilling` is the abstract specification: a date of a schedule gets an
invoice only when none stands, and loses it only when it is cancelled.
`OneInvoicePerDate` is the refinement `PB!Spec`, the variable `standing` mapping
to itself: every step of a sweep, a request, a restart or a form is a step of
`PeriodBilling` or leaves `standing` alone.

### 2.3 PayrollAgent

The agent is modelled on recurring billing in the code too, and the module
follows `RecurringBilling` where the code does: `sched` is
`v3_payroll_schedules` (one row per employee, its pay dates days and its frequency the
step between them; `EnableSchedule` enters any date and frequency), a sweep
is the SELECT (`JobBegin` when the auto-run switch is on, `RunBegin` for "Run
Agent Now", as of any day and for the clients the person may see), then per schedule
`SweepEmployee` (the employee is read again), `SweepDraft` (the insert that does
nothing on a conflict) and `SweepAdvance`; `SweepFail` is the per-schedule catch.
It differs in what a sweep makes: a draft, whose status per schedule and date is
`draft`. Approving is `ApproveClaim` (the conditional UPDATE), `ApproveEmployee`
and `ApproveCreate`, or `ApproveRefuse` and `ApproveRelease`; `ApproveThrow` is a
query that throws in between, which no catch turns into a release. Dismissing is
`DismissBegin` and `DismissCommit`, an early read and an unconditional write.
`paid` is the set of dates on which the employee has a paycheck (what
`createSinglePaycheck` checks under its advisory lock), which other routes add to
and delete from; `made`, `plan`, `raced` and `settled` are history variables, the last three
as in `RecurringBilling`.

Left out: the overrides staff attach to a draft (amounts), `resulting_paycheck_id`
(nothing in the backend reads it), a check moved to another date (it is a
`RemovePaycheck` and an `OtherPaycheck`), the deletion of an employee.

### 2.4 Paychecks

`check` is `v3_paychecks` (status, employee, date, wages and the part of them
taxed under two caps, number), `gl` the entries posted under the paycheck's
reference. `createSinglePaycheck`, which the single form, the batch, the import, the
time clock and the payroll agent all call, is `Create` (behind the employee's
advisory lock: the test for a paycheck of the date, the taxes; a pay date is always given here), `Number` (behind
the client's) and `CreateCommit`. Editing is `Edit`, `EditLocked`, `EditCommit`;
reposting and deleting, which take no lock, are an early read, the DELETE of the
ledger lines that are there, and the commit. `MarkPrinted` is the print route,
`RollBack` any failure or restart: all of it is in transactions. The advisory
locks are read off `handler`: whoever is between the lock and the commit holds it.

An entry has an id because a DELETE removes the lines it found, not those
inserted later: two handlers may leave two entries. `hist` notes the paychecks
that were edited and those on which two handlers met (`collided`); the properties
are stated around them, and findings say what happens there.

### 2.5 ClientBooks and PostOnce

`draft` is `v3_client_sales_drafts`, `sale` the sale inserted under the draft's
idempotency key. An approval is `Claim` (a conditional UPDATE), `PostSale` or
`PostFails` (a transaction), `Link` or `LinkFails` (the UPDATE that names the sale),
and `Undo` (the catch) or `UndoFails` (its own UPDATE throws, as it may in the outage
that caused it): three commits. What the client and the reviewer do beside
it (`Submit`, `Edit`, `Delete`, `Dismiss`, `ReviseTender`) is one conditional
statement each. `Restart` ends every approval for good. `stranded` and `retried`
are history variables: approvals cut short with the claim not taken back, by a restart or
a failed `Undo`, and drafts that a failed link made
Pending again although the sale is posted.

`PostOnce` knows nothing of claims, failures or retries: an entry waits, and is
withdrawn or posted, once; what was posted may be removed and does not come back.
`PostsOnce` is the refinement `PO!Spec`, where `Review` maps a draft and its sale to
the abstract state: Pending and Approved are both "waiting" until the sale is
there. So an `Undo`, a second `Claim` and a `PostSale` that finds the key taken must
all be stuttering steps.

### 2.6 BankMatching

`line` is a bank statement line with its match, `draft` the Bank Rec Agent's draft
of it, `gl` the bank-account side of the ledger entries there are (made by a sale,
for a line, or for a deposit's fee; a sale's entry carries its clearing row), `sale`
the card sale whose edit or deletion replaces its entry. Each handler is an early
read, which refuses (`...Begin`), and a transaction, which locks rows and looks
again as far as the code does (`...Commit`); `Claimable`, `Creatable`, `Coverable`
and `Pending` are those second looks. `AutoMatchBegin` stands for one pair that
auto-match found. Amounts are left out: a line may agree with any entry.
`loose` notes the entries that an unmatch or a late dismissal let go of.

### 2.7 Signing

`con` is `v3_client_contracts`: a document of the Document Builder, which several
people sign, or a letter for a service, which one link signs; `sgn` is
`v3_doc_signers`. A signature on a document is three statements: `SignClaim` (the
conditional UPDATE of the signer), `CountSignatures` (the SELECT of the others) and
`CompleteDocument`. Cancelling is two (`CancelSigners`, `CancelContract`), sending
one transaction (`SendCommit`), each after an early read. On a letter
`SignLetterCommit` claims the row. `SignInPersonCommit`, `SendLetterCommit` and
`DeleteCommit` write what they want after an early read; `VoidContract` always.
`Throw` is a query that throws anywhere in a handler: what it committed stays.
`meddled` notes the documents whose signers staff cancelled or replaced while a
signature was written, `lost` those on which nobody was left to sign
when a throw or a restart ended the handlers that would have completed them.

### 2.8 Appointments

`appt` is `v3_appointments`, `lock` the advisory lock of each day. A visitor's booking
or reschedule is `BookBegin` or `MoveBegin`, `LockDay`, `Check` or `GiveUp` (a
refusal, or a query that throws), and `Book` or `Move`; the office's `EditBegin` and
`EditCommit`, creation, completion and deletion take no lock. Slots are computed
as the code computes them, from working hours, grid and gap. A reminder in flight
is a process of its own: due (the sweep's SELECT), claimed (the conditional
`array_append`), told (sent), and given back when the send throws (`RemindFail`), unless
the give-back throws too (`GiveBackFails`). The request for
a confirmation is one more lead time. The clock is any order of events.
`told` is what the client received for the time the appointment has, and starts empty
whenever its start is changed or its marks are cleared (`Restarted`). `hist` notes the
appointments the office placed, those told twice, and those whose reminders are
uncertain: marks that were cleared although the start stayed, or kept although it
changed (an office form that writes back what it read before somebody else's change),
a reminder in flight at that moment, a failure after the message, a restart or a
failed give-back before it.

### 2.9 ConnectionPool

The pool of `config/db.ts`: `step` of each caller, the pool's `queue`, and the `owner`
of one lock. A statement borrows a client for itself; a transaction keeps one to
its end, may wait for the lock with it, and, where the callback calls the module's
`query` instead of its own client's, asks for a second (`Ask`, `Grant`, `Answer`).
`createSinglePaycheck`, the paycheck edit and the invoice handlers do that. Nothing bounds
the transactions by the clients there are.

## 3. What the runs check

Twelve runs, all of which pass.

| Run | Question | Bounds, and why they are enough |
|---|---|---|
| `invoice_races` | Two overlapping handlers and restarts on one invoice: one row per submission, one record per charge, the ledger follows payments, nothing is lost from `amount_paid` | 1 invoice, 2 payments, 1 session, 1 key, 2 slots, amounts to 2; 1.4 million states. Every race of the code is between two handlers and concerns one invoice row; two payments make partial payments, overpayments and a second submission happen. Payments and slots are interchangeable (symmetry) |
| `invoice_serial` | Every order of non-overlapping handlers, with every status a form sends: balance, receivable and void stay consistent with the payments | one slot, amounts to 3, opened with 0 or 1 paid; 644 thousand states |
| `card_reconcile` | Liveness: a charge the open invoice remembers is recorded by the job | two sessions, so that the remembered one can be replaced; a second handler beside the job; invoices of all three creation paths; restarts; 516 thousand states |
| `recurring_dates` | Dates are real, later, on the weekday, at most one month late, and days up to the 28th never drift | every start day of a leap year, followed for two years, every 1, 3 or 6 periods; 611 thousand states. It spans February of a leap and of a common year and two year ends, and six weeks pass over a February |
| `recurring_billing` | Refinement of `PeriodBilling`; no date lost; liveness: under fairness of the job a due date does not stay due | one schedule, the job, "Run" and one request, three days, steps of one and two, two changes by staff; 171 thousand states. Schedules share no row, sweeps and requests meet on one; a second step makes the dates of the old and of the saved schedule differ; what a failure means for the other schedules of a sweep is in the proofs, which take any number |
| `payroll_agent` | One paycheck per draft, no pay date lost, a dismissal stands | one schedule, the job and "Run Agent Now", two approvals or dismissals, three days of which staff act on the first (`PayDates`), steps of one and two; 1.5 million states. Two requests make every race on one draft; the other days make stale writes of `next_pay_date` happen |
| `paychecks` | Numbers and dates of paychecks differ, the wage base caps what is taxed, the ledger has each paycheck once | two paychecks, two employees, two dates, wages 1 and 3 around a base of 2, two handlers; 1.2 million states. One paycheck alone reaches the base and two pass it; two handlers meet on one paycheck, on two of one employee, or only on the client's numbers |
| `client_books` | Refinement of `PostOnce`; what is posted was reviewed; liveness: every claim ends | two drafts, two contents, two approvals; 112 thousand states. Two contents are enough to tell what was posted from what was edited; drafts share no row |
| `bank_races` | A line gets one entry, an entry one line, a sale one deposit, and what was posted can be found | two lines, one sale, three entries, two handlers; 1.2 million states. Two lines compete for an entry and for a sale, a deposit takes a sale and a fee, a sale is replaced once |
| `signing` | The last signature completes the document, nobody is skipped, a signature is written once, a void stands | one document, one letter, three signers of which two at a time, two handlers, queries that throw; 878 thousand states. Two signers finish at once; the third lets a list be replaced |
| `appointments` | Visitors never collide, no day stays locked, each reminder goes out once | two appointments, two members of staff, one day of three units with gap 1, one lead time, two handlers; 1.7 million states. Slots may be free, too close or equal; days share nothing but the sweep |
| `connection_pool` | Only nested queries bring the pool to a stop; liveness: every call ends if, from some time on, the transactions under way that may wait with a client in hand are fewer than the clients (`Room`) | three clients, three transactions (one nested, one that waits for a lock, one that does both), two statements; 4 thousand states. The pool does come to a stop here. A model of waiting, not of numbers; the invariant is proved for any size |

`MaxAmount`, `MaxWriteOff`, `MaxDate`, `Steps`, `EndDates`, `MaxChanges`, `PayDates`, `Origins`, `FirstYear`,
`LastYear`, `MaxEntries`, `Entries`, `MaxSigners`, `OfficeTimes` and `Reminded` are the
named bounds. `MaxWriteOff` stops the void of a void invoice from writing
revenue off without end; it does not cut a first void. Schedules that would
run past `MaxDate` are not saved and not read. In `Paychecks` no new handler starts on a paycheck
after a collision (`Settled`): entries would pile up of which nothing is said.
Deadlock is not checked: ids and dates run out, users may stop, and the pool may really
come to a stop (`PoolStandstill.cfg`).

Fairness. Only the scheduler and running handlers are fair, never a user. The
jobs' actions are strongly fair: the cron entries start them again every four
hours (Stripe) or every day (recurring billing: the sweeps of `Jobs`, never those of
`Runs`, which staff start by a button) for as long as the process is up,
and the process is not killed in the middle of every run (a restart would
disable a weakly fair action again and again). `SF_vars(SweepInvoice(w, s))` also
says that an insert does not fail for ever. `ClientBooks` lets a running approval
take its next step (`WF_vars(Finish(r))`): a failure is a step too, and `Restart` ends
the handler, so `ReviewEnds` leaves out what a restart stranded. `ConnectionPool` lets
the pool serve its queue and callers go on (weak), and Postgres grant a lock that
is free again and again (strong). `PayrollAgent` states no liveness: its sweep moves on as
that of recurring billing does, and an approval waits for a person.

### Statements of the repository that the code does not meet

`findings` in `PROJECT.json` quotes the line that says otherwise. For these a
configuration reproduces the counterexample; it is not one of the runs, as it
fails. `tlc -config X.cfg M`:

| Configuration, module | Property | What TLC shows |
|---|---|---|
| `CardUnrecorded.cfg`, `MCInvoiceLedger` | `ChargeIsRecorded` | A card is charged while another payment closes the invoice, or on a session that a second checkout replaced: nobody records it, under full fairness of the job |
| `VoidRace.cfg`, `MCInvoiceLedger` | `VoidSticks` | A payment read the invoice before it was voided and commits after: the void invoice becomes Paid or Partial |
| `DepositBalance.cfg`, `MCInvoiceLedger` | `BalanceCountsDeposit` | The first payment on an invoice with a deposit makes the deposit due again (no overlap needed) |
| `SkipRace.cfg`, `RecurringBilling` | `SkipSticks` | A run that read the row before a skip undoes it |
| `RecurringShortMonths.cfg`, `RecurringDates` | `EveryPeriodHasItsRun` | A monthly schedule pinned to the 31st has no run in February |
| `StrandedClaim.cfg`, `PayrollAgent` | `NoStrandedClaim` | A query throws, or the process restarts, after a draft was claimed: it stays Approved, without a paycheck and without a way back |
| `SaveRace.cfg`, `RecurringBilling` | `SavedDatesKept` | A sweep that read the row before it was saved writes the old schedule's next date over the new one, and dates of the new one are never invoiced |
| `EnableRace.cfg`, `PayrollAgent` | `EnabledDatesKept` | The same of a payroll schedule enabled again during a sweep |
| `DeleteRace.cfg`, `MCInvoiceLedger` | `NoOrphanedPayment` | A payment is recorded between the count of payments and the DELETE of its invoice |
| `ReviewStranded.cfg`, `ClientBooks` | `NothingStranded` | The posting fails and so does the catch's UPDATE: the submission stays Approved, posted nowhere |
| `ReminderLost.cfg`, `MCAppointments` | `MarkedIsSent` | The sending fails and so does the give-back: the reminder is marked sent and never goes out |
| `SigningUncounted.cfg`, `MCSigning` | `SignaturesAreCounted` | Everyone has signed and the query that counts them, or the UPDATE, throws: the document is never Signed |
| `SigningIncomplete.cfg`, `MCSigning` | `SignedOnlyByEveryone` | Cancelled or replaced signers are not counted: the document is Signed without them |
| `PoolStandstill.cfg`, `ConnectionPool` | `SecondCallGetsTheLock` | As many paycheck creations as the pool has clients: the holder of the lock waits for a client, the others hold theirs and wait for the lock |

The other findings are races that the properties are stated around by a history
variable; each finding names it.

### Behaviour seen and not stated as a property

No line of the repository says what should happen in these cases; the models
have the behaviour, and the properties are stated around it.

- An editor form opened before a payment sends "Unpaid" back and sets
  `amount_paid` to 0 while the payment stays active (`hist.formMoved`).
- An edit whose early read found the invoice open still writes after another
  handler made it Paid or Void; an edit to "Void" does not write off the receivable, and
  an invoice created as "Void" keeps a balance.
- A reversal after a void re-opens the receivable in the ledger.
- Card payments post nothing to the ledger; reversing one posts the reversal.
- Converting an estimate posts nothing.
- A sweep bills a schedule paused after the sweep read it. Use Now looks at
  neither status nor due date, and after a crash refuses until a sweep has advanced the row.
- A payroll draft dismissed on an early read while it is approved ends Dismissed
  with its paycheck paid; an approval that fails afterwards makes it Pending again.
  `DismissalStands` leaves out drafts that somebody is approving.
- Overrides saved on an early read of a Pending draft may land after it was
  claimed, and are then not in the paycheck.
- A pay date of an ineligible employee is passed over for good.
- A schedule whose end date passed while the process was down loses its last date.
- Deleting a posted sale leaves its submission Approved.
- Uploading bank lines inserts each line and its draft in two statements: a restart in
  between leaves a line without a draft, which is matched by hand.
- A signer may decline a document that was voided, and a decline leaves the
  document Sent.
- The office may place two appointments on one slot, and beside a visitor's
  booking in flight; it takes no lock.

## 4. What is proved

TLAPS checks these for any finite or infinite sets of invoices, payments,
handlers, keys, sessions, schedules, sweeps, drafts, paychecks, employees, bank
lines, entries, sales, appointments, staff, days, documents, signers and any bound;
the assumptions are those named in the modules, which say that amounts, dates and
times are naturals, wages positive, that the null values are not ids, that documents
are not letters, that a pool has a client and that its callers are finitely many.
Every safety property of every run is a theorem.

Type correctness (`TypeCorrect: Spec => []TypeOK`, in `PayrollProofs` also
`ChecksTypeCorrect` and `PoolTypeCorrect`, in `RecurringBillingProofs` also
`DatesTypeCorrect`) is proved for every module. It is a run's invariant where it
says something of the code: that a date exists (`RecurringDates`), that no tax is
taken of negative wages (`Paychecks`), whose fee a row names (`BankMatching`).

Three arguments need a sum over a set (payments, wages, lengths of months), and tlapm
has no induction over data that it can instantiate. `SetSums` goes round it: each of
its lemmas takes a least finite set for which it fails, which well-foundedness of strict inclusion gives, and finds a
smaller one. So are shown that the sum exists at all (the recursion under
`SumFunctionOnSet` has a solution), what adding or removing an element does to it
(`SumAdd`, `SumRemove`), and that it is monotone (`SumLeq`).

`InvoiceLedgerProofs`, for overlapping handlers (`Spec`):

- `SubmissionsOnce`: `Spec => []OnePaymentPerSubmission`.
- `ChargesOnce`: `Spec => []OneRecordPerCharge`.
- `LedgerExact`: `Spec => []LedgerFollowsPayments`.
- `NoPaymentLost`: `Spec => []AmountPaidIsActivePayments`.
- `CashFollowsAmountPaid`: `Spec => []CashTiesToAmountPaid`.

and for handlers one at a time (`SerialSpec`, with the one slot of `OneAtATime`):

- `VoidIsFinal`: `VoidSticks`, where no invoice is entered as Void.
- `BalanceFollows`: `BalanceFollowsPayments`, where no deposits are taken.
- `ReceivableTies`: `ReceivableTiesToInvoice`, without deposits and estimates.

The first three rest on `PaymentsInv`. They need strengthening:
a key on a payment row is in `idem` (`KeysKept`, otherwise a second submission
with a key could pass the reservation); an id not yet used has no cash posted and
is in no request (`UnusedIds`, otherwise a new payment could start with cash);
a reversal in flight points at a real, non-card or card payment as it was read
(`ReversalsOfPayments`). There is one lemma per action, and a lemma for each
operator that builds a row.

`BooksInv` adds `LinksInv`, that payments and handlers are on invoices that were
created and that finitely many ids were used, and `MoneyInv`, that on each invoice
`amount_paid`, the cash and the sum of its active payments have moved together
since it was opened. `MoneyInv` survives the races because no handler writes an
`amount_paid` it read before its transaction: each adds to, or takes from, the row it
has locked.

`SerialInv` adds `EarlyReadsHold`: with one slot, what a handler in flight read is
still so (the total, that the invoice is not void). It is false of
`Spec`: `VoidRace.cfg` shows a handler acting on what is no longer so, and the edits
listed at the end of section 3 do the same. The hypotheses are limits of the
properties, not of the proof: an invoice entered as Void keeps a balance and can be
paid, a payment makes a deposit due again, and converting an estimate posts
nothing (all three in section 3). `StepOn` says what one serial step may do to one
invoice, once, and the three theorems read it.

`RecurringBillingProofs`, of `RecurringBilling`:

- `NoDateIsLost`: `Spec => []NoDateLost`.
- `ImplementsPeriodBilling`: `Spec => OneInvoicePerDate`.

`NoDateLost` is not inductive: a sweep or a request in flight will write a date
it computed from what it read long ago. For a schedule that was not saved meanwhile
(`Live`), the row's date and every later date of the plan are a step apart (`Spaced`),
and what a sweep or request has read is a date and step of that plan whose earlier
dates are settled (`Covers`, by `Passed`), its own date too once the invoice is
made (`Billed`). The date written is then the plan's next one, and no unsettled date is
jumped; the row may move back. This holds as settled dates only grow, and the plan and
the step change only by a save (`Steady`), which marks the schedule as `raced` if
somebody has it in hand. `AtMostOne` gives the refinement its steps.

and of `RecurringDates`, for any span of years, interval and pinned day:

- `DatesTypeCorrect`: `DatesSpec => []DatesTypeOK`.
- `CommonDaysStay`: `DatesSpec => []CommonDaysNeverDrift`.
- `RunsOnSchedule`: `DatesSpec => OnSchedule`.

`OverflowFacts` says where a day past the end of a month lands. A day number is a sum
of month lengths; `NextMonth` says what one month adds to it, so a week across the
end of a month, a February or a year adds seven (`OneWeek`, then `ManyWeeks`, whose
recursion is treated as the sums are). `MonthsStep` is the step of the other
schedules, and `StillDivides` keeps a schedule in the months of its interval.

`PayrollProofs`, of `PayrollAgent`:

- `PaidOnce`: `Spec => []OnePaycheckPerDraft`.
- `DismissedStays`: `Spec => DismissalStands`.
- `NoDateIsLost`: `Spec => []NoPayDateLost`.

`PaidOnce` rests on `ClaimsOK`: at most one request is approving a draft; while it
is, the draft is decided and has no paycheck yet; an undecided draft has none
either. So the claim, which needs a Pending draft, is the only door, and a
release opens it again only because its paycheck was not made. `NoDateIsLost` is
argued as for recurring billing, with the same names (`Planned` for `Live`).

of `Paychecks`:

- `LedgerFollows`: `ChecksSpec => []LedgerFollowsChecks`.
- `StayApart`: `ChecksSpec => []ChecksStayApart`.
- `WageCapKept`: `ChecksSpec => []WageCapHolds`.

All three start from `BaseInv`: one handler at most holds an employee's lock, one at
most the client's, nobody else works on a paycheck that is being created
(`HandlersApart`), and what an edit or a deletion works on was created
(`HandlersLinked`). On it are built, each by one lemma per action:
`EntriesInv`, that a handler which has found the ledger entries it will replace still
knows all of them, and the figures it posts, unless another handler met it;
`ApartInv`, that the number a creation has taken is one more than the paychecks
there are and its date still free; and `WagesInv`, that the taxed wages of the
year, with what a creation or an edit in flight has computed, still fit under the base,
and come to all that is taxable while nothing was edited or deleted. The last is why the
sum must be read behind the employee's lock: without it what two creations or edits have
computed would not fit under the base together.

and of `ConnectionPool`:

- `NestingStopsThePool`: `PoolSpec => []OnlyNestingStops`.

The invariant says what the queue holds (`QueueWaits`) and that whoever owns the lock is
a transaction past it whose callback has not ended (`OwnerBusy`): commit and rollback
give it up. So when nobody goes on, those who wait for the lock wait for somebody who
asks for a second client.

`ClientBooksProofs`:

- `ReviewedIsPosted`: `Spec => []PostedAsReviewed`.
- `PostsAtMostOnce`: `Spec => PostsOnce`, the refinement of `PostOnce`.

`Inv` adds to the types that a submitted draft has a content (`Filled`), that an
approval in flight owns an Approved draft alone and carries what the draft shows
(`Claimed`), and that there is a sale only for a draft an approval has passed, the
`retried` ones apart (`Sold`). From it each step of the review is a step of
`PostOnce` or none.

`SigningProofs`:

- `SignedOnce`: `Spec => SignatureWrittenOnce`.
- `VoidIsFinal`: `Spec => VoidStands`.
- `EveryoneWasAsked`: `Spec => []NobodySkipped`.
- `LastOneCompletes`: `Spec => []LastSignatureCompletes`.

The first two follow from the types and from `ContractMoves`, which says what one
step may do to a contract and who does it. `EveryoneWasAsked` is about a count that
is used a statement later. `Tally` says, per document: a cancellation leaves nobody
waiting (`OneRound`), while a signature is being counted nobody is cancelled, and from
a count that came out right to the document's UPDATE everybody has signed
(`Counting`), all of it unless `meddled`. `Places` ties handlers to their signer and
signers to a document that exists. `LastOneCompletes` needs `Places` only: when a
handler leaves without completing, somebody had not signed, or it threw and the
document is in `lost`.

`AppointmentsProofs`:

- `LockComesBack`: `Spec => []DayLockComesBack`.
- `SlotsStayApart`: `Spec => []NoDoubleBooking`.
- `EachReminderOnce`: `Spec => []RemindedOnce`.

`LockComesBack` adds the converse (`HasLock`: a booking past the lock holds it), so
that two bookings of a day are never past it together. `SlotsStayApart` adds that
the slot a booking checked is still free when it writes it (`Reserved`), which the
office's changes do not disturb as they mark their appointments. `EachReminderOnce`
adds, where reminders are not uncertain, that a claim in flight is marked sent, belongs to
one sweep and was not told
(`Claims`), and that a sweep about to claim was asked for it (`Asked`, `Untold`).

`BankMatchingProofs`:

- `OneLinePerEntry`: `Spec => []EntryMatchedOnce`.
- `OneEntryPerLine`: `Spec => []LinePostedOnce`.
- `PostingsAttached`: `Spec => []PostedIsAttached`.
- `DepositsClaimOnce`: `Spec => DepositClaimsOnce`.

`OneEntryPerLine` goes by `PostedIsAttached`: a line that passes the checks of
create-entry or of the approval has neither match nor approved draft, so nothing
that is still its own was posted (`NothingAttached`), and the entry made is the only
one. That in turn needs what the deletions leave alone: the fees a reversal read and
the entry an edit replaces are never bank entries (`RefsAreFees`, `SaleEntries`,
`Sound`); and that a line that appears has no past (`KnownLines`, `UploadsApart`).
`OneLinePerEntry` adds that a match names an entry that was posted once
(`MatchesPosted`), so an entry just made is nobody's match.

Model-checked only: the four liveness properties `RememberedChargeSettles`,
`DueMovesOn`, `ReviewEnds` and `EveryCallEnds` (fairness and ENABLED are out of the
prover's reach), and the counterexamples of the table above.

## 5. Not modelled, and why

Formatting, PDFs, mails, texts, access checks, line items and tax computation of
an invoice change no state the properties tell apart. READ COMMITTED anomalies
inside one transaction do not arise for the handlers modelled, as they take the
row lock first, with two exceptions. `Paychecks`, whose handlers do not, takes their
transactions apart. The sending of a document (`esign.ts` 209-219) replaces the list of
signers before it writes the contract: two sends at once may leave both
their lists on the document, and everyone on either has to sign; the model sends in one step.
Stripe is external: a session is open, then perhaps paid; expiry
is covered by a session that is never paid.

Of the components modelled in part: invoices made from time entries; overrides on
payroll drafts; check numbers that a person types in, and pay dates of two years
(the caps start again, as the SUM is over the year); purchase submissions, which
run the statements of the sales submissions on tables of their own; what templates
and the editor of a document do to its text; the opening hours changing under a booking;
the lock's connection dying while its process lives, or a failed unlock, which
`withDayLock` swallows; an appointment the office assigned to a name or an e-mail
instead of a user (`appointments.routes.ts` 100-108), which the public page's query does
not find (the office's appointments are left out of `NoDoubleBooking` anyway); a
paycheck without a pay date, for which the test for a second one and the wage caps
are skipped (`accounting.routes.ts` 1165, `accountingHelpers.ts` 119).

Components with status `not_modelled` are of three kinds. Screens and text: the
frontend, the marketing site, reports, government
forms, document templates. Single statements and queries: the compliance
calendar, HACCP, newsletter, analytics. And those with races of the kind modelled
here, which are planned: time billing, the task rules agent, reminders and notices,
sessions, ownership transfer. Nearly all routes of the repository are one query
or one UPDATE after an access check; a model of those would restate them.

## 6. Plan

1. `TimeBilling`, composed with the invoice it creates: hours billed once
   (`billing.routes.ts` 396 reads the unbilled entries before its transaction).
2. `Sessions`: failed-login count and lock-out read before an await, the
   per-process cache filled after an invalidation.
3. `Reminders`: marked before sent, overlapping runs; the payment reminders beside a
   payment. The task rules agent, whose drafts are those of `PayrollAgent` with a catch.
4. Estimates: two conversions of one estimate (`estimates.routes.ts` 643).
5. Further proofs: the invariants of the modules above, as they are written; that
   `Paychecks` and `PayrollAgent` agree on which dates have a paycheck (a refinement
   between the two).
