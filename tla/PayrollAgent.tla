----------------------------- MODULE PayrollAgent -----------------------------
(***************************************************************************)
(* The payroll agent: a daily sweep drafts the next pay date of every      *)
(* employee on a schedule, staff approve or dismiss the drafts, and an     *)
(* approval creates the paycheck.  src/src/modules/accounting/             *)
(* payrollAgent.routes.ts, with createSinglePaycheck of                    *)
(* accounting.routes.ts and the daily job of src/src/server.ts.            *)
(*                                                                         *)
(* Pay dates are days, and a frequency is the step between them, as in     *)
(* RecurringBilling; an employee has one schedule.  The amounts of a draft *)
(* are computed when it is approved, so a draft is only its status.        *)
(***************************************************************************)
EXTENDS Integers, FiniteSets, PlannedDates

CONSTANTS
  Schedules,  \* payroll_schedule_id, one per employee
  Jobs,       \* the sweeps of the 6:15 job
  Runs,       \* sweeps started by "Run Agent Now"
  Requests,   \* slots of approvals and dismissals
  MaxDate,    \* BOUND: schedules that would run past this day are not entered or read
  Steps,      \* BOUND: the days between the pay dates of a frequency
  PayDates    \* BOUND: the pay dates whose drafts and paychecks staff act on

Sweeps == Jobs \cup Runs
Dates == 0..MaxDate
ASSUME DatesAssumption ==
  MaxDate \in Nat \ {0} /\ PayDates \subseteq Dates /\ Steps \subseteq Nat \ {0}

VARIABLES
  sched,     \* v3_payroll_schedules
  eligible,  \* employees that eligibilityError accepts
  autoRun,   \* v3_payroll_agent_settings.auto_run_enabled
  draft,     \* v3_payroll_drafts: the status per schedule and pay date
  paid,      \* v3_paychecks: pay dates on which the employee has a paycheck
  made,      \* how many paychecks approving the draft of a date has created
  plan,      \* the pay dates of a schedule as it was last enabled
  raced,     \* it was enabled while a sweep that had read it was in flight
  settled,   \* dates drafted or found ineligible since, or with a draft then
  today,     \* the last pay date that is within its lead_days
  sweep,     \* the sweeps running
  req        \* the approvals and dismissals in flight

vars == <<sched, eligible, autoRun, draft, paid, made, plan, raced, settled,
          today, sweep, req>>
staffData == <<eligible, autoRun>>
enabled == <<plan, raced>>
checks == <<paid, made>>

-----------------------------------------------------------------------------
\* "Stopped" is Paused and Archived, which every handler treats alike.
Row == [status: {"None", "Active", "Stopped"}, next: Dates, step: 1..MaxDate]
NoRow == [status |-> "None", next |-> 0, step |-> 1]
DraftStatus == {"None", "Pending", "Approved", "Dismissed"}

\* What a sweep has read of a row: its date, and the step to the date after it.
NoReading == [date |-> 0, step |-> 1]
ReadingOf(s) == [date |-> sched[s].next, step |-> sched[s].step]
DateAfter(read) == read.date + read.step
Reading == {read \in [date: Dates, step: 1..MaxDate] : DateAfter(read) <= MaxDate}
WithinHorizon(s) == DateAfter(ReadingOf(s)) <= MaxDate

\* A sweep works through the rows it read; stage says what it does next for
\* the schedule at hand: write the draft, or advance the row.
IdleSweep == [stage |-> "idle"]
Sweep == {IdleSweep} \cup
         [stage: {"next", "draft", "pass", "advance"}, todo: SUBSET Schedules,
          at: Schedules, read: [Schedules -> Reading]]

\* An approval has claimed its draft, has found the employee eligible, or has
\* failed and gives the draft back.
ApprovalSteps == {"claimed", "employed", "release"}
Idle == [op |-> "idle"]
Request == {Idle} \cup
           [op: ApprovalSteps \cup {"dismiss"}, sched: Schedules, date: PayDates]

TypeOK ==
  /\ sched \in [Schedules -> Row]
  /\ eligible \subseteq Schedules
  /\ autoRun \in BOOLEAN
  /\ draft \in [Schedules -> [Dates -> DraftStatus]]
  /\ paid \in [Schedules -> SUBSET Dates]
  /\ made \in [Schedules -> [Dates -> Nat]]
  /\ plan \in [Schedules -> SUBSET Dates]
  /\ raced \in [Schedules -> BOOLEAN]
  /\ settled \in [Schedules -> SUBSET Dates]
  /\ today \in Dates
  /\ sweep \in [Sweeps -> Sweep]
  /\ req \in [Requests -> Request]

Init ==
  /\ sched = [s \in Schedules |-> NoRow]
  /\ eligible = Schedules
  /\ autoRun = TRUE
  /\ draft = [s \in Schedules |-> [d \in Dates |-> "None"]]
  /\ paid = [s \in Schedules |-> {}]
  /\ made = [s \in Schedules |-> [d \in Dates |-> 0]]
  /\ plan = [s \in Schedules |-> {}]
  /\ raced = [s \in Schedules |-> FALSE]
  /\ settled = [s \in Schedules |-> {}]
  /\ today = 0
  /\ sweep = [w \in Sweeps |-> IdleSweep]
  /\ req = [r \in Requests |-> Idle]

-----------------------------------------------------------------------------
Exists(s) == sched[s].status # "None"

(***************************************************************************)
(* Staff: schedules, employees, the auto-run switch, other paychecks       *)
(***************************************************************************)
\* A sweep has read the row and is not done with it.
InFlightOn(s) ==
  \E w \in Sweeps :
    LET q == sweep[w] IN
    q # IdleSweep /\ (s \in q.todo \/ (q.stage # "next" /\ q.at = s))

\* POST /schedules, and each row of /schedules/bulk: an employee's row is
\* created, or made active again with the date and frequency entered.
EnableSchedule(s, d, step) ==
  /\ s \in eligible
  /\ d + step <= MaxDate
  /\ sched' = [sched EXCEPT ![s] = [status |-> "Active", next |-> d, step |-> step]]
  /\ plan' = [plan EXCEPT ![s] = PlanFrom(d, step, MaxDate)]
  /\ raced' = [raced EXCEPT ![s] = InFlightOn(s)]
  /\ settled' = [settled EXCEPT ![s] = {x \in Dates : draft[s][x] # "None"}]
  /\ UNCHANGED <<staffData, draft, checks, today, sweep, req>>

\* pause, resume, archive.
SetStatus(s, status) ==
  /\ Exists(s)
  /\ sched' = [sched EXCEPT ![s].status = status]
  /\ UNCHANGED <<staffData, draft, checks, enabled, settled, today, sweep, req>>

\* An edit of the employee makes it eligible, or no longer so.
EditEmployee(s) ==
  /\ eligible' = IF s \in eligible THEN eligible \ {s} ELSE eligible \cup {s}
  /\ UNCHANGED <<sched, autoRun, draft, checks, enabled, settled, today, sweep, req>>

SetAutoRun ==
  /\ autoRun' = ~autoRun
  /\ UNCHANGED <<sched, eligible, draft, checks, enabled, settled, today, sweep, req>>

\* createSinglePaycheck looks for a paycheck of the date under the employee's
\* advisory lock.
MayPay(s, d) == d \notin paid[s]

\* POST /payroll and the imports create paychecks too ...
OtherPaycheck(s, d) ==
  /\ MayPay(s, d)
  /\ paid' = [paid EXCEPT ![s] = @ \cup {d}]
  /\ UNCHANGED <<sched, staffData, draft, made, enabled, settled, today, sweep, req>>

\* ... and a paycheck is deleted, or edited to another date.
RemovePaycheck(s, d) ==
  /\ d \in paid[s]
  /\ paid' = [paid EXCEPT ![s] = @ \ {d}]
  /\ UNCHANGED <<sched, staffData, draft, made, enabled, settled, today, sweep, req>>

(***************************************************************************)
(* runPayrollAgentSweep                                                    *)
(***************************************************************************)
DueOn(day) ==
  {s \in Schedules : /\ sched[s].status = "Active"
                     /\ sched[s].next <= day
                     /\ WithinHorizon(s)}

\* SELECT * once.  The job is gated on the switch, runs as of today and covers
\* everybody; a run by staff is as of any day they enter, for the clients they
\* may see.
SweepStart(w, rows) ==
  /\ sweep[w] = IdleSweep
  /\ rows # {}
  /\ sweep' = [sweep EXCEPT ![w] =
       [stage |-> "next", todo |-> rows, at |-> CHOOSE s \in rows : TRUE,
        read |-> [s \in Schedules |-> IF s \in rows THEN ReadingOf(s) ELSE NoReading]]]
  /\ UNCHANGED <<sched, staffData, draft, checks, enabled, settled, today, req>>
JobBegin(w) == w \in Jobs /\ autoRun /\ SweepStart(w, DueOn(today))
RunBegin(w) ==
  /\ w \in Runs
  /\ \E day \in Dates : \E rows \in SUBSET DueOn(day) : SweepStart(w, rows)

\* The sweep after it is done with a schedule.
Rested(q) == IF q.todo = {} THEN IdleSweep ELSE [q EXCEPT !.stage = "next"]

\* The employee is read again: an ineligible one gets no draft, and the date
\* is passed over.
SweepEmployee(w, s) ==
  LET q == sweep[w] IN
  /\ q.stage = "next"
  /\ s \in q.todo
  /\ sweep' = [sweep EXCEPT ![w] =
       [q EXCEPT !.todo = @ \ {s}, !.at = s,
                 !.stage = IF s \in eligible THEN "draft" ELSE "pass"]]
  /\ UNCHANGED <<sched, staffData, draft, checks, enabled, settled, today, req>>

\* INSERT ... ON CONFLICT (payroll_schedule_id, pay_date) DO NOTHING.
SweepDraft(w) ==
  LET q == sweep[w]  s == q.at  d == q.read[s].date IN
  /\ q.stage = "draft"
  /\ draft' = [draft EXCEPT ![s][d] = IF @ = "None" THEN "Pending" ELSE @]
  /\ settled' = [settled EXCEPT ![s] = @ \cup {d}]
  /\ sweep' = [sweep EXCEPT ![w] = [q EXCEPT !.stage = "advance"]]
  /\ UNCHANGED <<sched, staffData, checks, enabled, today, req>>

SweepAdvanceRow(w) ==                \* mutation: from the row, not the date read
  LET q == sweep[w]  s == q.at IN
  /\ q.stage \in {"pass", "advance"}
  /\ sched' = [sched EXCEPT ![s].next =
                  IF WithinHorizon(s) THEN @ + sched[s].step ELSE @]
  /\ settled' = [settled EXCEPT ![s] = IF q.stage = "pass" THEN @ \cup {q.read[s].date} ELSE @]
  /\ sweep' = [sweep EXCEPT ![w] = Rested(q)]
  /\ UNCHANGED <<staffData, draft, checks, enabled, today, req>>
\* UPDATE ... SET next_pay_date = the date after the one read, by the frequency
\* read.
SweepAdvance(w) ==
  LET q == sweep[w]  s == q.at IN
  /\ q.stage \in {"pass", "advance"}
  /\ sched' = [sched EXCEPT ![s].next = DateAfter(q.read[s])]
  /\ settled' = [settled EXCEPT ![s] = IF q.stage = "pass" THEN @ \cup {q.read[s].date} ELSE @]
  /\ sweep' = [sweep EXCEPT ![w] = Rested(q)]
  /\ UNCHANGED <<staffData, draft, checks, enabled, today, req>>

\* A statement fails: the error is collected, the next schedule taken.
SweepFail(w) ==
  /\ sweep[w].stage \in {"draft", "pass", "advance"}
  /\ sweep' = [sweep EXCEPT ![w] = Rested(@)]
  /\ UNCHANGED <<sched, staffData, draft, checks, enabled, settled, today, req>>

(***************************************************************************)
(* approveDraft                                                            *)
(***************************************************************************)
ClaimableAny(s, d) == draft[s][d] # "None"  \* mutation: no WHERE status='Pending'
\* UPDATE ... SET status='Approved' WHERE status='Pending' RETURNING *.
Claimable(s, d) == draft[s][d] = "Pending"

ApproveClaim(r, s, d) ==
  /\ req[r] = Idle
  /\ Claimable(s, d)
  /\ draft' = [draft EXCEPT ![s][d] = "Approved"]
  /\ req' = [req EXCEPT ![r] = [op |-> "claimed", sched |-> s, date |-> d]]
  /\ UNCHANGED <<sched, staffData, checks, enabled, settled, today, sweep>>

\* The employee is read again, by approveDraft and by createSinglePaycheck.
ApproveEmployee(r) ==
  LET q == req[r] IN
  /\ q.op = "claimed"
  /\ req' = [req EXCEPT ![r].op = IF q.sched \in eligible THEN "employed" ELSE "release"]
  /\ UNCHANGED <<sched, staffData, draft, checks, enabled, settled, today, sweep>>

\* createSinglePaycheck commits; then resulting_paycheck_id is written, which
\* nothing reads.
ApproveCreate(r) ==
  LET q == req[r] IN
  /\ q.op = "employed"
  /\ MayPay(q.sched, q.date)
  /\ paid' = [paid EXCEPT ![q.sched] = @ \cup {q.date}]
  /\ made' = [made EXCEPT ![q.sched][q.date] = @ + 1]
  /\ req' = [req EXCEPT ![r] = Idle]
  /\ UNCHANGED <<sched, staffData, draft, enabled, settled, today, sweep>>

\* The employee has a paycheck of the date, or the figures entered do not add
\* up.
ApproveRefuse(r) ==
  /\ req[r].op = "employed"
  /\ req' = [req EXCEPT ![r].op = "release"]
  /\ UNCHANGED <<sched, staffData, draft, checks, enabled, settled, today, sweep>>

\* releaseDraftClaim looks at no status.
ApproveRelease(r) ==
  LET q == req[r] IN
  /\ q.op = "release"
  /\ draft' = [draft EXCEPT ![q.sched][q.date] = "Pending"]
  /\ req' = [req EXCEPT ![r] = Idle]
  /\ UNCHANGED <<sched, staffData, checks, enabled, settled, today, sweep>>

\* A query throws after the claim: nothing catches it to release the draft.
ApproveThrow(r) ==
  /\ req[r].op \in ApprovalSteps
  /\ req' = [req EXCEPT ![r] = Idle]
  /\ UNCHANGED <<sched, staffData, draft, checks, enabled, settled, today, sweep>>

(***************************************************************************)
(* POST /drafts/:id/dismiss: the status is read, then written              *)
(***************************************************************************)
DismissBegin(r, s, d) ==
  /\ req[r] = Idle
  /\ draft[s][d] = "Pending"
  /\ req' = [req EXCEPT ![r] = [op |-> "dismiss", sched |-> s, date |-> d]]
  /\ UNCHANGED <<sched, staffData, draft, checks, enabled, settled, today, sweep>>

DismissCommit(r) ==
  LET q == req[r] IN
  /\ q.op = "dismiss"
  /\ draft' = [draft EXCEPT ![q.sched][q.date] = "Dismissed"]
  /\ req' = [req EXCEPT ![r] = Idle]
  /\ UNCHANGED <<sched, staffData, checks, enabled, settled, today, sweep>>

-----------------------------------------------------------------------------
Restart ==
  /\ (\E w \in Sweeps : sweep[w] # IdleSweep) \/ (\E r \in Requests : req[r] # Idle)
  /\ sweep' = [w \in Sweeps |-> IdleSweep]
  /\ req' = [r \in Requests |-> Idle]
  /\ UNCHANGED <<sched, staffData, draft, checks, enabled, settled, today>>

NextDay ==
  /\ today < MaxDate
  /\ today' = today + 1
  /\ UNCHANGED <<sched, staffData, draft, checks, enabled, settled, sweep, req>>

Staff ==
  \/ \E s \in Schedules :
       \/ \E d \in Dates, step \in Steps : EnableSchedule(s, d, step)
       \/ \E status \in {"Active", "Stopped"} : SetStatus(s, status)
       \/ EditEmployee(s)
       \/ \E d \in PayDates : OtherPaycheck(s, d) \/ RemovePaycheck(s, d)
  \/ SetAutoRun

Sweeping(w) ==
  \/ JobBegin(w) \/ RunBegin(w)
  \/ \E s \in Schedules : SweepEmployee(w, s)
  \/ SweepDraft(w) \/ SweepAdvance(w) \/ SweepFail(w)

Deciding(r) ==
  \/ \E s \in Schedules, d \in PayDates : ApproveClaim(r, s, d) \/ DismissBegin(r, s, d)
  \/ ApproveEmployee(r) \/ ApproveCreate(r) \/ ApproveRefuse(r)
  \/ ApproveRelease(r) \/ ApproveThrow(r)
  \/ DismissCommit(r)

Next ==
  \/ Staff
  \/ \E w \in Sweeps : Sweeping(w)
  \/ \E r \in Requests : Deciding(r)
  \/ Restart
  \/ NextDay
Spec == Init /\ [][Next]_vars

-----------------------------------------------------------------------------
(***************************************************************************)
(* What the component promises                                             *)
(***************************************************************************)
Approving(r, s, d) ==
  req[r].op \in ApprovalSteps /\ req[r].sched = s /\ req[r].date = d

\* Approving a draft creates one paycheck in its whole life, however often and
\* by whom it is approved, released, dismissed or approved again, and whatever
\* becomes of the paycheck (the claim in approveDraft).
OnePaycheckPerDraft == \A s \in Schedules, d \in Dates : made[s][d] <= 1

\* The pay dates of the schedule that next_pay_date has moved past are settled.
Kept(s) == \A d \in plan[s] : d < sched[s].next => d \in settled[s]

\* No pay date is lost: next_pay_date has moved past a date of the schedule only
\* when it was drafted or the employee was not eligible, whatever overlapped,
\* failed or crashed; unless staff enabled the schedule again while a sweep that
\* had read it was in flight.
NoPayDateLost == \A s \in Schedules : Exists(s) /\ ~raced[s] => Kept(s)

\* The same without the exception: the pay dates enabled are the ones drafted.
EnabledDatesKept == \A s \in Schedules : Exists(s) => Kept(s)

\* A dismissed draft that nobody was approving at the time is final: no sweep
\* drafts the date again, no request pays it.
DismissalStands ==
  [][\A s \in Schedules, d \in Dates :
       draft[s][d] = "Dismissed" /\ (\A r \in Requests : ~Approving(r, s, d))
         => draft'[s][d] = "Dismissed" /\ made'[s][d] = made[s][d]]_vars

\* What releaseDraftClaim is for: a claim that led to no paycheck is given
\* back, so a draft is Approved only with a paycheck or an approval under way.
NoStrandedClaim ==
  \A s \in Schedules, d \in Dates :
    draft[s][d] = "Approved" => made[s][d] > 0 \/ \E r \in Requests : Approving(r, s, d)
=============================================================================
