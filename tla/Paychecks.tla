------------------------------ MODULE Paychecks ------------------------------
(***************************************************************************)
(* Paychecks of one client and their lines in the general ledger: the      *)
(* /payroll and /paychecks routes of                                       *)
(* src/src/modules/accounting/accounting.routes.ts.  Single entry, the     *)
(* batch, the import, the time clock and the payroll agent all create a    *)
(* paycheck through createSinglePaycheck.                                  *)
(*                                                                         *)
(* Creating and editing hold the employee's advisory lock to the end of    *)
(* the transaction, and numbering holds the client's; deleting, reposting  *)
(* and printing take none.  Edit, repost and delete read the paycheck      *)
(* before their transaction, and their DELETE of the ledger lines removes  *)
(* the lines committed when it runs.                                       *)
(*                                                                         *)
(* The dates are of one year.  A paycheck has wages and two capped taxes:  *)
(* futa stands for FUTA and SUTA, whose year to date adds up the wages,    *)
(* and ss for Social Security, whose year to date adds up what was taxed.  *)
(* Its ledger lines, posted together, are one entry with the same figures. *)
(* Check numbers the caller gives instead of the next one are left out.    *)
(***************************************************************************)
EXTENDS Integers, FiniteSetsExt

CONSTANTS
  Paychecks,   \* paycheck_id of v3_paychecks
  Employees,
  CheckDates,  \* pay dates of one year
  Wages,       \* taxable wages of a paycheck
  WageCap,     \* the year's wage base of a capped tax
  Handlers,    \* slots of the handlers in flight
  MaxEntries   \* bound: postings of a paycheck held apart

ASSUME WagesAssumption == Wages \subseteq Nat \ {0} /\ WageCap \in Nat
ASSUME EntriesAssumption == MaxEntries \in Nat \ {0}

VARIABLES
  check,    \* v3_paychecks
  gl,       \* v3_gl_entries with source Payroll, by ref
  handler,  \* the handlers: the row or the figures they work on, and the step
  hist      \* what happened to a paycheck, for the properties

checkVars == <<check, gl, handler, hist>>

-----------------------------------------------------------------------------
Pay == [wages: Nat, futa: Nat, ss: Nat]

\* number 0: not numbered yet.
CheckRow == [status: {"Created", "Printed"}, employee: Employees, date: CheckDates,
             pay: Pay, number: Nat]
NoCheck == [status |-> "None"]
Deleted(e) == [status |-> "Deleted", employee |-> e]
Check == {NoCheck} \cup CheckRow \cup {Deleted(e) : e \in Employees}

Posting == [id: 1..MaxEntries, pay: Pay]

IdleHandler == [op |-> "idle"]
Handler == {IdleHandler}
  \cup [op: {"create", "insert"}, check: Paychecks, row: CheckRow]
  \cup [op: {"edit"}, check: Paychecks, date: CheckDates, wages: Wages]
  \cup [op: {"save"}, check: Paychecks, date: CheckDates, pay: Pay, old: SUBSET Posting]
  \cup [op: {"repost"}, check: Paychecks, pay: Pay]
  \cup [op: {"replace"}, check: Paychecks, pay: Pay, old: SUBSET Posting]
  \cup [op: {"delete"}, check: Paychecks]
  \cup [op: {"remove"}, check: Paychecks, old: SUBSET Posting]

ChecksTypeOK ==
  /\ check \in [Paychecks -> Check]
  /\ gl \in [Paychecks -> SUBSET Posting]
  /\ handler \in [Handlers -> Handler]
  /\ hist \in [Paychecks -> SUBSET {"edited", "collided"}]

ChecksInit ==
  /\ check = [p \in Paychecks |-> NoCheck]
  /\ gl = [p \in Paychecks |-> {}]
  /\ handler = [r \in Handlers |-> IdleHandler]
  /\ hist = [p \in Paychecks |-> {}]

-----------------------------------------------------------------------------
Live(p) == check[p].status \in {"Created", "Printed"}
LiveOf(e) == {p \in Paychecks : Live(p) /\ check[p].employee = e}

\* isPaycheckLockedForEdit.
Editable(p) == check[p].status = "Created"

Working(r, ops) == handler[r].op \in ops
Begin(r, step) == handler[r] = IdleHandler /\ handler' = [handler EXCEPT ![r] = step]
Continue(r, step) == handler' = [handler EXCEPT ![r] = step]
Done(r) == handler' = [handler EXCEPT ![r] = IdleHandler]

\* The advisory lock paycheck-create:<client>:<employee>.
EmployeeLockedByCreate(e) ==                                         \* mutation
  \E r \in Handlers : Working(r, {"create", "insert"}) /\ handler[r].row.employee = e
EmployeeLocked(e) ==
  \E r \in Handlers :
    \/ Working(r, {"create", "insert"}) /\ handler[r].row.employee = e
    \/ Working(r, {"save"}) /\ check[handler[r].check].employee = e

\* The advisory lock checknum:<client>.
NumberingUnlocked == FALSE                                           \* mutation
NumberingLocked == \E r \in Handlers : Working(r, {"insert"})

\* capWagesToAnnualLimit: what is left of the wage base after the employee's
\* other paychecks of the year.
CappedUnclamped(wages, ytd) == Min({wages, WageCap - ytd})           \* mutation
Capped(wages, ytd) == Min({wages, Max({0, WageCap - ytd})})

YearToDate(figure, of) ==
  SumFunctionOnSet([p \in of |-> check[p].pay[figure]], of)

Taxed(e, p, wages) ==
  LET others == LiveOf(e) \ {p} IN
    [wages |-> wages,
     futa |-> Capped(wages, YearToDate("wages", others)),
     ss |-> Capped(wages, YearToDate("ss", others))]

\* Deleting and posting in one transaction.  An entry's id is one that no other
\* entry has, nor one that another handler is about to delete.
Replaced(r, p, old, pay) ==
  LET others == {x \in Handlers \ {r} : Working(x, {"save", "replace", "remove"})
                                          /\ handler[x].check = p}
      used == {g.id : g \in (gl[p] \ old) \cup UNION {handler[x].old : x \in others}}
      free == (1..MaxEntries) \ used IN
    /\ free # {}
    /\ gl' = [gl EXCEPT ![p] = (@ \ old) \cup {[id |-> Min(free), pay |-> pay]}]

\* Bound: no new handler starts on a paycheck after a collision, of whose ledger
\* entries nothing is said any more.
Settled(p) == "collided" \notin hist[p]

\* A commit while another handler is at work on the paycheck, two edits apart.
Colliding(r) ==
  \E x \in Handlers \ {r} :
    /\ Working(x, {"edit", "save", "repost", "replace", "delete", "remove"})
    /\ handler[x].check = handler[r].check
    /\ ~(Working(r, {"save"}) /\ Working(x, {"edit", "save"}))
Note(r, events) ==
  hist' = [hist EXCEPT ![handler[r].check] =
             @ \cup events \cup IF Colliding(r) THEN {"collided"} ELSE {}]

-----------------------------------------------------------------------------
(***************************************************************************)
(* createSinglePaycheck                                                    *)
(***************************************************************************)
TakenDate(e, d) == \E p \in LiveOf(e) : check[p].date = d

\* Under the employee's lock: the test for a paycheck of the date, the taxes.
Create(r, p, e, d, wages) ==
  /\ check[p].status = "None"
  /\ \A x \in Handlers : handler[x] # IdleHandler => handler[x].check # p
  /\ ~EmployeeLocked(e)
  /\ ~TakenDate(e, d)
  /\ Begin(r, [op |-> "create", check |-> p,
               row |-> [status |-> "Created", employee |-> e, date |-> d,
                        pay |-> Taxed(e, p, wages), number |-> 0]])
  /\ UNCHANGED <<check, gl, hist>>

\* nextCheckNumberLocked: one more than the paychecks the client has.
Number(r) ==
  /\ Working(r, {"create"})
  /\ ~NumberingLocked
  /\ Continue(r, [op |-> "insert", check |-> handler[r].check,
                  row |-> [handler[r].row EXCEPT
                             !.number = 1 + Cardinality({p \in Paychecks : Live(p)})]])
  /\ UNCHANGED <<check, gl, hist>>

\* The inserts, postPayrollGl, and the end of the transaction.
CreateCommit(r) ==
  /\ Working(r, {"insert"})
  /\ check' = [check EXCEPT ![handler[r].check] = handler[r].row]
  /\ Replaced(r, handler[r].check, {}, handler[r].row.pay)
  /\ Done(r)
  /\ UNCHANGED hist

(***************************************************************************)
(* PATCH /paychecks/:paycheckId                                            *)
(***************************************************************************)
Edit(r, p, d, wages) ==
  /\ Editable(p) /\ Settled(p)
  /\ Begin(r, [op |-> "edit", check |-> p, date |-> d, wages |-> wages])
  /\ UNCHANGED <<check, gl, hist>>

\* The lock, the taxes, and the entries its DELETE finds.
KeptEntries(p) == {}                                                 \* mutation
OldEntries(p) == gl[p]

EditLocked(r) ==
  /\ Working(r, {"edit"})
  /\ LET p == handler[r].check
         e == check[p].employee IN
       /\ ~EmployeeLocked(e)
       /\ Continue(r, [op |-> "save", check |-> p, date |-> handler[r].date,
                       pay |-> Taxed(e, p, handler[r].wages), old |-> OldEntries(p)])
  /\ UNCHANGED <<check, gl, hist>>

\* The UPDATE changes nothing when the paycheck is gone; the entry is posted.
EditCommit(r) ==
  /\ Working(r, {"save"})
  /\ LET p == handler[r].check IN
       /\ check' = IF Live(p)
                   THEN [check EXCEPT ![p] = [@ EXCEPT !.date = handler[r].date,
                                                       !.pay = handler[r].pay]]
                   ELSE check
       /\ Replaced(r, p, handler[r].old, handler[r].pay)
  /\ Note(r, {"edited"})
  /\ Done(r)

(***************************************************************************)
(* POST /paychecks/:paycheckId/repost-gl                                   *)
(***************************************************************************)
Repost(r, p) ==
  /\ Live(p) /\ Settled(p)
  /\ Begin(r, [op |-> "repost", check |-> p, pay |-> check[p].pay])
  /\ UNCHANGED <<check, gl, hist>>

RepostDelete(r) ==
  /\ Working(r, {"repost"})
  /\ Continue(r, [op |-> "replace", check |-> handler[r].check, pay |-> handler[r].pay,
                  old |-> OldEntries(handler[r].check)])
  /\ UNCHANGED <<check, gl, hist>>

RepostCommit(r) ==
  /\ Working(r, {"replace"})
  /\ Replaced(r, handler[r].check, handler[r].old, handler[r].pay)
  /\ Note(r, {})
  /\ Done(r)
  /\ UNCHANGED check

(***************************************************************************)
(* POST /paychecks/:paycheckId/delete, and each paycheck of bulk-delete    *)
(***************************************************************************)
Delete(r, p) ==
  /\ Editable(p) /\ Settled(p)
  /\ Begin(r, [op |-> "delete", check |-> p])
  /\ UNCHANGED <<check, gl, hist>>

DeleteEntries(r) ==
  /\ Working(r, {"delete"})
  /\ Continue(r, [op |-> "remove", check |-> handler[r].check, old |-> OldEntries(handler[r].check)])
  /\ UNCHANGED <<check, gl, hist>>

DeleteCommit(r) ==
  /\ Working(r, {"remove"})
  /\ check' = [check EXCEPT ![handler[r].check] = Deleted(check[handler[r].check].employee)]
  /\ gl' = [gl EXCEPT ![handler[r].check] = @ \ handler[r].old]
  /\ Note(r, {})
  /\ Done(r)

-----------------------------------------------------------------------------
\* GET /paychecks/:paycheckId/print, by staff.
MarkPrinted(p) ==
  /\ Editable(p)
  /\ check' = [check EXCEPT ![p].status = "Printed"]
  /\ UNCHANGED <<gl, handler, hist>>

\* A transaction is rolled back: the figures are refused, a statement fails or
\* the process stops.
RollBack(r) ==
  /\ handler[r] # IdleHandler
  /\ Done(r)
  /\ UNCHANGED <<check, gl, hist>>

ChecksNext ==
  \/ \E r \in Handlers, p \in Paychecks, d \in CheckDates, w \in Wages :
       Edit(r, p, d, w) \/ \E e \in Employees : Create(r, p, e, d, w)
  \/ \E r \in Handlers, p \in Paychecks : Repost(r, p) \/ Delete(r, p)
  \/ \E r \in Handlers :
       \/ Number(r) \/ CreateCommit(r)
       \/ EditLocked(r) \/ EditCommit(r)
       \/ RepostDelete(r) \/ RepostCommit(r)
       \/ DeleteEntries(r) \/ DeleteCommit(r)
       \/ RollBack(r)
  \/ \E p \in Paychecks : MarkPrinted(p)

ChecksSpec == ChecksInit /\ [][ChecksNext]_checkVars

-----------------------------------------------------------------------------
(***************************************************************************)
(* Properties                                                              *)
(***************************************************************************)
\* nextCheckNumberLocked counts under the client's lock: no two paychecks get
\* one number, as long as none was deleted.
NumbersDiffer ==
  (\A p \in Paychecks : check[p].status # "Deleted") =>
    \A p, q \in Paychecks :
      p # q /\ Live(p) /\ Live(q) => check[p].number # check[q].number

\* createSinglePaycheck tests under the employee's lock: an employee has one
\* paycheck of a date, unless an edit moved one there.
OneCheckPerDate ==
  \A e \in Employees : \A p, q \in LiveOf(e) :
    p # q /\ "edited" \notin hist[p] \cup hist[q] => check[p].date # check[q].date

\* Two paychecks are never taken for one another: neither by number nor by
\* employee and date.
ChecksStayApart == NumbersDiffer /\ OneCheckPerDate

\* However creations and edits overlap, no more than the wage base is taxed;
\* and all of it is, while none of the employee's paychecks was edited or deleted.
WageCapHolds ==
  \A e \in Employees :
    LET total(figure) == YearToDate(figure, LiveOf(e))
        untouched == \A p \in Paychecks :
          check[p] # Deleted(e) /\ (p \in LiveOf(e) => "edited" \notin hist[p]) IN
      \A tax \in {"futa", "ss"} :
        /\ total(tax) <= WageCap
        /\ untouched => total(tax) = Min({WageCap, total("wages")})

\* A paycheck has one entry in the ledger, with its own figures, and a deleted
\* one has none, unless a repost or a delete overlapped another handler.
LedgerFollowsChecks ==
  \A p \in Paychecks : "collided" \notin hist[p] =>
    IF Live(p) THEN \E i \in 1..MaxEntries : gl[p] = {[id |-> i, pay |-> check[p].pay]}
    ELSE gl[p] = {}
=============================================================================
