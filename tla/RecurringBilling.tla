--------------------------- MODULE RecurringBilling ---------------------------
(***************************************************************************)
(* Recurring billing schedules and the invoices made from them: the        *)
(* /recurring routes and runRecurringBillingSweep of                       *)
(* src/src/modules/billing/billing.routes.ts, and the daily job of         *)
(* src/src/server.ts.                                                      *)
(*                                                                         *)
(* A date is a day; frequency, interval and repeat_on_day come down to the *)
(* step, the days nextRecurringDate adds to a date (module RecurringDates  *)
(* has the calendar).  A sweep works on the rows it read at its start; the *)
(* insert of an invoice is one transaction, and the date after the one     *)
(* read is written in a statement of its own after it.                     *)
(***************************************************************************)
EXTENDS Integers, FiniteSets, PlannedDates

CONSTANTS
  Schedules,   \* recurring_billing_id
  Jobs,        \* sweeps of the daily job
  Runs,        \* sweeps staff start by "Run Recurring Billing"
  Requests,    \* slots of the other handlers
  MaxDate,     \* BOUND: schedules that would run past this day are not saved or read
  Steps,       \* BOUND: the steps staff give a schedule
  MaxChanges,  \* BOUND: schedules saved, invoices voided or deleted
  EndDates,    \* end_date values staff enter (NoEnd: none)
  NoEnd, NoSchedule

Sweeps == Jobs \cup Runs
Dates == 0..MaxDate
ASSUME DatesAssumption == MaxDate \in Nat \ {0} /\ MaxChanges \in Nat
ASSUME StepsAssumption == Steps \subseteq Nat \ {0}
ASSUME EndsAssumption == NoEnd \notin Nat /\ EndDates \subseteq Nat \cup {NoEnd}
ASSUME ScheduleAssumption == NoSchedule \notin Schedules

VARIABLES
  sched,     \* v3_recurring_billing
  standing,  \* v3_invoices of source 'Recurring Billing', not void, per date
  today,
  sweep,     \* the sweeps running: what each read, and the row it must advance
  req,       \* "Use Now" and skip requests in flight
  plan,      \* the dates of a schedule as it was last saved
  raced,     \* it was saved while a sweep, "Use Now" or skip of it was in flight
  settled,   \* dates invoiced or skipped since, or with an invoice standing then
  skipped,   \* dates staff skipped and have not asked for again
  changes    \* how many times a schedule was saved or an invoice canceled

vars == <<sched, standing, today, sweep, req, plan, raced, settled, skipped, changes>>
saved == <<plan, raced>>
history == <<saved, settled, skipped>>

-----------------------------------------------------------------------------
\* "Stopped" is Paused and Archived, which every handler treats alike.
Status == {"Active", "Stopped"}
Row == [status: Status \cup {"None"}, next: Dates,
        step: 1..MaxDate, end: EndDates \cup {NoEnd}, auto: BOOLEAN]
NoRow == [status |-> "None", next |-> 0, step |-> 1, end |-> NoEnd, auto |-> FALSE]

\* What a handler has read of a row: its date, and the step to the date after it.
NoReading == [date |-> 0, step |-> 1]
ReadingOf(s) == [date |-> sched[s].next, step |-> sched[s].step]
DateAfter(read) == read.date + read.step
Reading == {read \in [date: Dates, step: 1..MaxDate] : DateAfter(read) <= MaxDate}
WithinHorizon(s) == DateAfter(ReadingOf(s)) <= MaxDate

Sweep == [todo: SUBSET Schedules, at: Schedules \cup {NoSchedule},
          read: [Schedules -> Reading]]
IdleSweep == [todo |-> {}, at |-> NoSchedule, read |-> [s \in Schedules |-> NoReading]]

Idle == [op |-> "idle"]
Request == {Idle} \cup [op: {"run", "advance", "skip"}, sched: Schedules, read: Reading]

TypeOK ==
  /\ sched \in [Schedules -> Row]
  /\ standing \in [Schedules -> [Dates -> Nat]]
  /\ today \in Dates
  /\ sweep \in [Sweeps -> Sweep]
  /\ req \in [Requests -> Request]
  /\ plan \in [Schedules -> SUBSET Dates]
  /\ raced \in [Schedules -> BOOLEAN]
  /\ settled \in [Schedules -> SUBSET Dates]
  /\ skipped \in [Schedules -> SUBSET Dates]
  /\ changes \in Nat

Init ==
  /\ sched = [s \in Schedules |-> NoRow]
  /\ standing = [s \in Schedules |-> [d \in Dates |-> 0]]
  /\ today = 0
  /\ sweep = [w \in Sweeps |-> IdleSweep]
  /\ req = [r \in Requests |-> Idle]
  /\ plan = [s \in Schedules |-> {}]
  /\ raced = [s \in Schedules |-> FALSE]
  /\ settled = [s \in Schedules |-> {}]
  /\ skipped = [s \in Schedules |-> {}]
  /\ changes = 0

-----------------------------------------------------------------------------
Exists(s) == sched[s].status # "None"
AdvanceRow(s, read) ==               \* mutation: from the row, not the date read
  sched' = IF Exists(s) /\ WithinHorizon(s)
           THEN [sched EXCEPT ![s].next = @ + sched[s].step] ELSE sched
\* UPDATE ... SET next_run_date = the date after the one read, by the step read,
\* if the row is still there.
Advance(s, read) ==
  sched' = IF Exists(s) THEN [sched EXCEPT ![s].next = DateAfter(read)] ELSE sched

InvoiceOnceUnchecked(s, d) ==        \* mutation: no re-check under the lock
  /\ standing' = [standing EXCEPT ![s][d] = @ + 1]
  /\ settled' = [settled EXCEPT ![s] = @ \cup {d}]
\* The transaction both paths share: under pg_advisory_xact_lock of schedule
\* and date, an invoice that stands is left alone, otherwise one is inserted.
InvoiceOnce(s, d) ==
  /\ standing' = [standing EXCEPT ![s][d] = IF @ = 0 THEN 1 ELSE @]
  /\ settled' = [settled EXCEPT ![s] = @ \cup {d}]

(***************************************************************************)
(* Staff: POST /recurring, pause, resume, archive, delete                  *)
(***************************************************************************)
\* A sweep, "Use Now" or skip has read the row and not written it yet.
InFlightOn(s) ==
  \/ \E w \in Sweeps : s \in sweep[w].todo \/ sweep[w].at = s
  \/ \E r \in Requests : req[r] # Idle /\ req[r].sched = s

\* The form writes every field, the date and its frequency among them, over
\* whatever the row holds: the schedule starts anew at the date entered.
SaveSchedule(s, row) ==
  /\ changes < MaxChanges
  /\ row.next + row.step <= MaxDate
  /\ changes' = changes + 1
  /\ sched' = [sched EXCEPT ![s] = row]
  /\ plan' = [plan EXCEPT ![s] = PlanFrom(row.next, row.step, MaxDate)]
  /\ raced' = [raced EXCEPT ![s] = InFlightOn(s)]
  /\ settled' = [settled EXCEPT ![s] = {d \in Dates : standing[s][d] > 0}]
  /\ skipped' = [skipped EXCEPT ![s] = @ \cap 0..(row.next - 1)]
  /\ UNCHANGED <<standing, today, sweep, req>>

SetStatus(s, status) ==
  /\ Exists(s)
  /\ sched[s].status # status
  /\ sched' = [sched EXCEPT ![s].status = status]
  /\ UNCHANGED <<standing, today, sweep, req, history, changes>>

DeleteSchedule(s) ==
  /\ Exists(s)
  /\ sched' = [sched EXCEPT ![s] = NoRow]
  /\ skipped' = [skipped EXCEPT ![s] = {}]
  /\ UNCHANGED <<standing, today, sweep, req, saved, settled, changes>>

\* POST /invoices/:id/void or /delete on an invoice of a schedule.
CancelInvoice(s, d) ==
  /\ standing[s][d] > 0
  /\ changes < MaxChanges
  /\ changes' = changes + 1
  /\ standing' = [standing EXCEPT ![s][d] = @ - 1]
  /\ UNCHANGED <<sched, today, sweep, req, history>>

(***************************************************************************)
(* Skip and "Use Now": one read of the row, then the writes                *)
(***************************************************************************)
\* Neither looks at the schedule's status, nor at whether it is due.
ReadRow(r, op, s) ==
  /\ req[r] = Idle
  /\ Exists(s)
  /\ WithinHorizon(s)
  /\ req' = [req EXCEPT ![r] = [op |-> op, sched |-> s, read |-> ReadingOf(s)]]
  /\ UNCHANGED <<sched, standing, today, sweep, history, changes>>
SkipBegin(r, s) == ReadRow(r, "skip", s)
RunNowBegin(r, s) == ReadRow(r, "run", s)

SkipCommit(r) ==
  LET q == req[r] IN
  /\ q.op = "skip"
  /\ Advance(q.sched, q.read)
  /\ settled' = [settled EXCEPT ![q.sched] = @ \cup {q.read.date}]
  /\ skipped' = [skipped EXCEPT ![q.sched] =
                   IF Exists(q.sched) THEN @ \cup {q.read.date} ELSE @]
  /\ req' = [req EXCEPT ![r] = Idle]
  /\ UNCHANGED <<standing, today, sweep, saved, changes>>

\* An invoice that stands is reported back, and the row is not advanced.
RunNowRefuse(r) ==
  LET q == req[r] IN
  /\ q.op = "run"
  /\ standing[q.sched][q.read.date] > 0
  /\ req' = [req EXCEPT ![r] = Idle]
  /\ UNCHANGED <<sched, standing, today, sweep, history, changes>>

RunNowInvoice(r) ==
  LET q == req[r] IN
  /\ q.op = "run"
  /\ standing[q.sched][q.read.date] = 0
  /\ InvoiceOnce(q.sched, q.read.date)
  /\ req' = [req EXCEPT ![r].op = "advance"]
  /\ UNCHANGED <<sched, today, sweep, saved, skipped, changes>>

RunNowAdvance(r) ==
  LET q == req[r] IN
  /\ q.op = "advance"
  /\ Advance(q.sched, q.read)
  /\ req' = [req EXCEPT ![r] = Idle]
  /\ UNCHANGED <<standing, today, sweep, history, changes>>

(***************************************************************************)
(* runRecurringBillingSweep                                                *)
(***************************************************************************)
DueOn(s, day) ==
  /\ WithinHorizon(s)
  /\ sched[s].status = "Active"
  /\ sched[s].auto
  /\ sched[s].next <= day
  /\ sched[s].end # NoEnd => sched[s].end >= day
Due(s) == DueOn(s, today)

\* SELECT * once; every later test of the loop is on what it returned.
SweepStart(w, day, mine) ==
  LET due == {s \in mine : DueOn(s, day)} IN
  /\ sweep[w] = IdleSweep
  /\ due # {}
  /\ sweep' = [sweep EXCEPT ![w] =
       [todo |-> due, at |-> NoSchedule,
        read |-> [s \in Schedules |-> IF s \in due THEN ReadingOf(s) ELSE NoReading]]]
  /\ UNCHANGED <<sched, standing, today, req, history, changes>>
\* The job runs as of today for everybody; staff run as of any day they enter,
\* for the clients they may see or the one they name.
JobBegin(w) == w \in Jobs /\ SweepStart(w, today, Schedules)
RunBegin(w) ==
  /\ w \in Runs
  /\ \E day \in Dates, mine \in SUBSET Schedules : SweepStart(w, day, mine)

\* The sweep record with s done, idle again when nothing is left.
Rested(q) == IF q.todo = {} /\ q.at = NoSchedule THEN IdleSweep ELSE q

SweepInvoiceOnly(w, s) ==            \* mutation: no advance past an invoice found
  LET q == sweep[w]  found == standing[s][q.read[s].date] > 0 IN
  /\ q.at = NoSchedule
  /\ s \in q.todo
  /\ InvoiceOnce(s, q.read[s].date)
  /\ sweep' = [sweep EXCEPT ![w] =
       Rested([q EXCEPT !.todo = @ \ {s}, !.at = IF found THEN NoSchedule ELSE s])]
  /\ UNCHANGED <<sched, today, req, saved, skipped, changes>>
\* A date whose invoice stands is advanced over all the same.
SweepInvoice(w, s) ==
  LET q == sweep[w] IN
  /\ q.at = NoSchedule
  /\ s \in q.todo
  /\ InvoiceOnce(s, q.read[s].date)
  /\ sweep' = [sweep EXCEPT ![w] = [q EXCEPT !.todo = @ \ {s}, !.at = s]]
  /\ UNCHANGED <<sched, today, req, saved, skipped, changes>>

\* The transaction fails: the error is reported, the row left for the next sweep.
SweepFail(w, s) ==
  LET q == sweep[w] IN
  /\ q.at = NoSchedule
  /\ s \in q.todo
  /\ sweep' = [sweep EXCEPT ![w] = Rested([q EXCEPT !.todo = @ \ {s}])]
  /\ UNCHANGED <<sched, standing, today, req, history, changes>>

SweepAdvance(w) ==
  LET q == sweep[w] IN
  /\ q.at # NoSchedule
  /\ Advance(q.at, q.read[q.at])
  /\ sweep' = [sweep EXCEPT ![w] = Rested([q EXCEPT !.at = NoSchedule])]
  /\ UNCHANGED <<standing, today, req, history, changes>>

-----------------------------------------------------------------------------
\* The process restarts between two statements.
Restart ==
  /\ (\E w \in Sweeps : sweep[w] # IdleSweep) \/ (\E r \in Requests : req[r] # Idle)
  /\ sweep' = [w \in Sweeps |-> IdleSweep]
  /\ req' = [r \in Requests |-> Idle]
  /\ UNCHANGED <<sched, standing, today, history, changes>>

NextDay ==
  /\ today < MaxDate
  /\ today' = today + 1
  /\ UNCHANGED <<sched, standing, sweep, req, history, changes>>

Staff ==
  \E s \in Schedules :
    \/ \E status \in Status, next \in Dates, step \in Steps,
          end \in EndDates, auto \in BOOLEAN :
         SaveSchedule(s, [status |-> status, next |-> next, step |-> step,
                          end |-> end, auto |-> auto])
    \/ \E status \in Status : SetStatus(s, status)
    \/ DeleteSchedule(s)
    \/ \E d \in Dates : CancelInvoice(s, d)
    \/ \E r \in Requests : SkipBegin(r, s) \/ RunNowBegin(r, s)

InFlight(r) ==
  SkipCommit(r) \/ RunNowRefuse(r) \/ RunNowInvoice(r) \/ RunNowAdvance(r)

Sweeping(w) ==
  \/ JobBegin(w) \/ RunBegin(w)
  \/ \E s \in Schedules : SweepInvoice(w, s) \/ SweepFail(w, s)
  \/ SweepAdvance(w)

Next ==
  \/ Staff
  \/ \E r \in Requests : InFlight(r)
  \/ \E w \in Sweeps : Sweeping(w)
  \/ Restart
  \/ NextDay
Spec == Init /\ [][Next]_vars

\* The job runs every day, some day it is not killed half way and its insert
\* does not fail.  Staff need not do anything, nor do the sweeps they start.
Fairness ==
  \A w \in Jobs :
    /\ SF_vars(JobBegin(w))
    /\ \A s \in Schedules : SF_vars(SweepInvoice(w, s))
    /\ SF_vars(SweepAdvance(w))
FairSpec == Spec /\ Fairness

-----------------------------------------------------------------------------
(***************************************************************************)
(* What the component promises                                             *)
(***************************************************************************)
\* Runs of any kind may overlap, retry and crash: the invoices that stand
\* behave as PeriodBilling says.
PB == INSTANCE PeriodBilling
        WITH Schedules <- Schedules, Dates <- Dates, standing <- standing
OneInvoicePerDate == PB!Spec

\* The dates of the schedule that next_run_date has moved past are settled.
Kept(s) == \A d \in plan[s] : d < sched[s].next => d \in settled[s]

\* No date is lost: next_run_date has moved past a date of the schedule only when
\* it was invoiced or skipped, whatever overlapped, failed or crashed; unless
\* staff saved the schedule while a sweep, "Use Now" or skip of it was in flight.
NoDateLost == \A s \in Schedules : Exists(s) /\ ~raced[s] => Kept(s)

\* The same without the exception: what is saved is what runs.
SavedDatesKept == \A s \in Schedules : Exists(s) => Kept(s)

\* A due date does not stay due: the daily sweep moves the schedule past it,
\* also when an earlier run invoiced it and died before advancing the row.
DueMovesOn ==
  \A s \in Schedules, d \in Dates :
    Due(s) /\ sched[s].next = d ~> ~(Due(s) /\ sched[s].next = d)

\* What the skip handler says it does: advance the schedule without an invoice
\* for the date, which later runs must leave advanced.
SkipSticks ==
  \A s \in Schedules, d \in Dates : d \in skipped[s] => sched[s].next > d
=============================================================================
