--------------------------- MODULE PayrollProofs ---------------------------
(***************************************************************************)
(* Proofs about payroll: Paychecks, for any number of paychecks, employees *)
(* and handlers in flight, any wages and wage base; PayrollAgent, for any  *)
(* number of schedules, overlapping sweeps, approvals and dismissals and   *)
(* any horizon of pay dates; and ConnectionPool, whose callers the         *)
(* paychecks' transactions are, for a pool of any size and any number of   *)
(* callers.                                                                *)
(***************************************************************************)
EXTENDS Paychecks, PayrollAgent, ConnectionPool, SetSums, FiniteSetTheorems, TLAPS

-----------------------------------------------------------------------------
(***************************************************************************)
(* Paychecks: least and largest numbers, what a cap leaves, years to date  *)
(***************************************************************************)
LEMMA MinOfNats ==
  ASSUME NEW S \in SUBSET Nat, S # {}
  PROVE  Min(S) \in S
<1> DEFINE R == {ss \in Nat \X Nat : ss[1] < ss[2]}
<1>1. IsWellFoundedOn(R, Nat)
  BY NatLessThanWellFounded DEF OpToRel
<1>2. PICK x \in S : \A y \in S : <<y, x>> \notin R
  <2> HIDE DEF R
  <2> QED
    BY <1>1, WFMin
<1>3. ASSUME NEW y \in S PROVE x =< y
  <2>1. x \in Nat /\ y \in Nat /\ ~(y < x)
    BY <1>2
  <2> QED
    BY <2>1
<1> QED
  BY <1>3 DEF Min

LEMMA MinOfTwo ==
  ASSUME NEW a \in Int, NEW b \in Int
  PROVE  Min({a, b}) = IF a <= b THEN a ELSE b
<1> DEFINE least == IF a <= b THEN a ELSE b
<1>1. least \in {a, b} /\ \A y \in {a, b} : least =< y
  OBVIOUS
<1>2. \A x \in {a, b} : (\A y \in {a, b} : x =< y) => x = least
  OBVIOUS
<1> QED
  BY <1>1, <1>2 DEF Min

LEMMA MaxOfTwo ==
  ASSUME NEW a \in Int, NEW b \in Int
  PROVE  Max({a, b}) = IF a >= b THEN a ELSE b
<1> DEFINE largest == IF a >= b THEN a ELSE b
<1>1. largest \in {a, b} /\ \A y \in {a, b} : largest >= y
  OBVIOUS
<1>2. \A x \in {a, b} : (\A y \in {a, b} : x >= y) => x = largest
  OBVIOUS
<1> QED
  BY <1>1, <1>2 DEF Max

\* What a cap leaves of some wages: no more than the wages, and with the year to
\* date no more than the cap unless that was over it before.
LEMMA CappedFacts ==
  ASSUME NEW wages \in Nat, NEW ytd \in Nat
  PROVE  /\ Capped(wages, ytd) \in Nat
         /\ Capped(wages, ytd) <= wages
         /\ wages + ytd <= WageCap => Capped(wages, ytd) = wages
         /\ wages + ytd > WageCap /\ ytd <= WageCap => Capped(wages, ytd) = WageCap - ytd
         /\ ytd > WageCap => Capped(wages, ytd) = 0
<1>1. WageCap \in Nat
  BY WagesAssumption
<1> DEFINE left == Max({0, WageCap - ytd})
<1>2. left = IF ytd <= WageCap THEN WageCap - ytd ELSE 0
  BY <1>1, MaxOfTwo
<1>3. left \in Nat
  BY <1>1, <1>2
<1>4. Capped(wages, ytd) = Min({wages, left})
  BY DEF Capped
<1> HIDE DEF left
<1>5. Capped(wages, ytd) = IF wages <= left THEN wages ELSE left
  BY <1>3, <1>4, MinOfTwo
<1> QED
  BY <1>1, <1>2, <1>3, <1>5

-----------------------------------------------------------------------------
LEMMA YearToDateNat ==
  ASSUME NEW S, IsFiniteSet(S), NEW figure, \A p \in S : check[p].pay[figure] \in Nat
  PROVE  YearToDate(figure, S) \in Nat
<1> DEFINE g == [p \in S |-> check[p].pay[figure]]
<1>1. \A p \in S : g[p] \in Nat
  OBVIOUS
<1> HIDE DEF g
<1>2. SumFunctionOnSet(g, S) \in Nat
  BY <1>1, SumNat
<1> QED
  BY <1>2 DEF YearToDate, g

LEMMA YearToDateLeq ==
  ASSUME NEW S, IsFiniteSet(S), NEW figure, NEW larger,
         \A p \in S : /\ check[p].pay[figure] \in Nat /\ check[p].pay[larger] \in Nat
                      /\ check[p].pay[figure] <= check[p].pay[larger]
  PROVE  YearToDate(figure, S) <= YearToDate(larger, S)
<1> DEFINE g == [p \in S |-> check[p].pay[figure]]
           f == [p \in S |-> check[p].pay[larger]]
<1>1. \A p \in S : g[p] \in Int /\ f[p] \in Int /\ g[p] <= f[p]
  OBVIOUS
<1> HIDE DEF g, f
<1>2. SumFunctionOnSet(g, S) <= SumFunctionOnSet(f, S)
  BY <1>1, SumLeq
<1> QED
  BY <1>2 DEF YearToDate, g, f

LEMMA YearToDateWithout ==
  ASSUME NEW S, IsFiniteSet(S), NEW figure, NEW a \in S,
         \A p \in S : check[p].pay[figure] \in Nat
  PROVE  YearToDate(figure, S) = check[a].pay[figure] + YearToDate(figure, S \ {a})
<1> DEFINE g == [p \in S |-> check[p].pay[figure]]
           f == [p \in S \ {a} |-> check[p].pay[figure]]
<1>1. /\ \A p \in S : g[p] \in Int
      /\ \A p \in S \ {a} : f[p] = g[p]
      /\ g[a] = check[a].pay[figure]
  OBVIOUS
<1>2. IsFiniteSet(S \ {a})
  BY FS_RemoveElement
<1> HIDE DEF g, f
<1>3. SumFunctionOnSet(g, S) = g[a] + SumFunctionOnSet(g, S \ {a})
  BY <1>1, SumRemove
<1>4. SumFunctionOnSet(f, S \ {a}) = SumFunctionOnSet(g, S \ {a})
  BY <1>1, <1>2, SumSame
<1> QED
  BY <1>1, <1>3, <1>4 DEF YearToDate, g, f

\* After a step, over the paychecks of before it whose figures it kept.
LEMMA YearToDateKept ==
  ASSUME NEW S, IsFiniteSet(S), NEW figure, NEW e, LiveOf(e)' = S,
         \A p \in S : check'[p].pay = check[p].pay
  PROVE  YearToDate(figure, LiveOf(e))' = YearToDate(figure, S)
<1> DEFINE g == [p \in S |-> check'[p].pay[figure]]
           f == [p \in S |-> check[p].pay[figure]]
<1>1. \A p \in S : g[p] = f[p]
  OBVIOUS
<1>2. YearToDate(figure, LiveOf(e))' = SumFunctionOnSet(g, S)
  BY DEF YearToDate
<1> HIDE DEF g, f
<1>3. SumFunctionOnSet(g, S) = SumFunctionOnSet(f, S)
  BY <1>1, SumSame
<1> QED
  BY <1>2, <1>3 DEF YearToDate, f

\* And with one more.
LEMMA YearToDateWith ==
  ASSUME NEW S, IsFiniteSet(S), NEW figure, NEW e, NEW a, a \notin S,
         LiveOf(e)' = S \cup {a},
         \A p \in S : check'[p].pay = check[p].pay /\ check[p].pay[figure] \in Nat,
         check'[a].pay[figure] \in Nat
  PROVE  YearToDate(figure, LiveOf(e))' = YearToDate(figure, S) + check'[a].pay[figure]
<1> DEFINE g == [p \in S \cup {a} |-> check'[p].pay[figure]]
           f == [p \in S |-> check[p].pay[figure]]
<1>1. /\ \A p \in S : g[p] = f[p]
      /\ \A p \in S \cup {a} : g[p] \in Int
      /\ g[a] = check'[a].pay[figure]
  OBVIOUS
<1>2. YearToDate(figure, LiveOf(e))' = SumFunctionOnSet(g, S \cup {a})
  BY DEF YearToDate
<1> HIDE DEF g, f
<1>3. SumFunctionOnSet(g, S \cup {a}) = SumFunctionOnSet(g, S) + g[a]
  BY <1>1, SumAdd
<1>4. SumFunctionOnSet(g, S) = SumFunctionOnSet(f, S)
  BY <1>1, SumSame
<1> QED
  BY <1>1, <1>2, <1>3, <1>4 DEF YearToDate, f

-----------------------------------------------------------------------------
(***************************************************************************)
(* Who holds which lock, and which paycheck a handler works on.  None of   *)
(* the four invariants holds without the locks: one handler at most        *)
(* creates or edits for an employee, one at most numbers, and nobody else  *)
(* is at work on a paycheck that is not there yet.                         *)
(***************************************************************************)
LiveChecks == {p \in Paychecks : Live(p)}
IsNew(q) == q.op \in {"create", "insert"}
OfExisting(q) == q.op \in {"edit", "save", "repost", "replace", "delete", "remove"}

HoldsLock(q, e) ==
  \/ IsNew(q) /\ q.row.employee = e
  \/ q.op = "save" /\ check[q.check].employee = e

LinksOK(q) ==
  /\ IsNew(q) => check[q.check].status = "None" /\ q.row.status = "Created"
  /\ OfExisting(q) => check[q.check].status # "None"
Apart(q, o) ==
  /\ \A e \in Employees : ~(HoldsLock(q, e) /\ HoldsLock(o, e))
  /\ ~(q.op = "insert" /\ o.op = "insert")
  /\ (IsNew(q) \/ IsNew(o)) /\ q # IdleHandler /\ o # IdleHandler => q.check # o.check

HandlersLinked == \A r \in Handlers : LinksOK(handler[r])
HandlersApart == \A r, x \in Handlers : r # x => Apart(handler[r], handler[x])
NothingPosted == \A p \in Paychecks : check[p].status = "None" => gl[p] = {}

BaseInv ==
  /\ ChecksTypeOK
  /\ IsFiniteSet(LiveChecks)
  /\ HandlersLinked
  /\ HandlersApart
  /\ NothingPosted

\* The fields of the handlers.
LEMMA HandlerFields ==
  ASSUME NEW q \in Handler
  PROVE  /\ q # IdleHandler => q.op # "idle" /\ q.check \in Paychecks
         /\ q.op # "idle" => IsNew(q) \/ OfExisting(q)
         /\ IsNew(q) => q.row \in CheckRow
         /\ q.op = "edit" => q.date \in CheckDates /\ q.wages \in Wages
         /\ q.op = "save" => q.date \in CheckDates
         /\ q.op \in {"save", "repost", "replace"} => q.pay \in Pay
         /\ q.op \in {"save", "replace", "remove"} => q.old \in SUBSET Posting
  BY DEF Handler, IdleHandler, IsNew, OfExisting

LEMMA RowFields ==
  ASSUME NEW row \in CheckRow
  PROVE  /\ row.status \in {"Created", "Printed"} /\ row.employee \in Employees
         /\ row.date \in CheckDates /\ row.pay \in Pay /\ row.number \in Nat
  BY DEF CheckRow

LEMMA PayFields ==
  ASSUME NEW pay \in Pay
  PROVE  /\ pay.wages \in Nat /\ pay.futa \in Nat /\ pay.ss \in Nat
         /\ \A figure \in {"wages", "futa", "ss"} : pay[figure] \in Nat
  BY DEF Pay

\* A paycheck is not there, or live with its row, or deleted.
LEMMA CheckKinds ==
  ASSUME ChecksTypeOK, NEW p \in Paychecks
  PROVE  /\ check[p].status = "None" => check[p] = NoCheck /\ ~Live(p)
         /\ Live(p) <=> check[p] \in CheckRow
         /\ Live(p) <=> check[p].status \notin {"None", "Deleted"}
         /\ check[p].status # "None" => check[p].employee \in Employees
         /\ check[p].status = "Deleted" => check[p] = Deleted(check[p].employee)
         /\ \A e \in Employees : Deleted(e).status = "Deleted" /\ Deleted(e).employee = e
  BY DEF ChecksTypeOK, Check, CheckRow, NoCheck, Deleted, Live

LEMMA LiveFigures ==
  ASSUME ChecksTypeOK, NEW p \in Paychecks, Live(p)
  PROVE  \A figure \in {"wages", "futa", "ss"} : check[p].pay[figure] \in Nat
  BY CheckKinds, RowFields, PayFields

LEMMA LiveOfFinite ==
  ASSUME IsFiniteSet(LiveChecks), NEW e
  PROVE  /\ IsFiniteSet(LiveOf(e))
         /\ \A p : IsFiniteSet(LiveOf(e) \ {p})
         /\ \A p \in LiveOf(e) : p \in Paychecks /\ Live(p)
<1>1. LiveOf(e) \in SUBSET LiveChecks
  BY DEF LiveOf, LiveChecks
<1>2. \A p : LiveOf(e) \ {p} \in SUBSET LiveChecks
  BY <1>1
<1> QED
  BY <1>1, <1>2, FS_Subset DEF LiveOf

LEMMA TaxedType ==
  ASSUME ChecksTypeOK, IsFiniteSet(LiveChecks), NEW e, NEW p, NEW wages \in Wages
  PROVE  Taxed(e, p, wages) \in Pay
<1> DEFINE others == LiveOf(e) \ {p}
           futa == Capped(wages, YearToDate("wages", others))
           ss == Capped(wages, YearToDate("ss", others))
<1>1. wages \in Nat
  BY WagesAssumption
<1>2. IsFiniteSet(others) /\ \A q \in others : q \in Paychecks /\ Live(q)
  BY LiveOfFinite
<1>3. \A q \in others :
        \A figure \in {"wages", "futa", "ss"} : check[q].pay[figure] \in Nat
  BY <1>2, LiveFigures
<1> HIDE DEF others
<1>4. YearToDate("wages", others) \in Nat /\ YearToDate("ss", others) \in Nat
  BY <1>2, <1>3, YearToDateNat
<1>5. futa \in Nat /\ ss \in Nat
  BY <1>1, <1>4, CappedFacts
<1>6. Taxed(e, p, wages) = [wages |-> wages, futa |-> futa, ss |-> ss]
  BY DEF Taxed, others
<1> HIDE DEF futa, ss
<1> QED
  BY <1>1, <1>5, <1>6 DEF Pay

\* An entry is posted under an id of its own.
LEMMA ReplacedPosts ==
  ASSUME ChecksTypeOK, NEW r, NEW p \in Paychecks, NEW old, NEW pay \in Pay,
         Replaced(r, p, old, pay)
  PROVE  /\ \E n \in 1..MaxEntries :
              gl' = [gl EXCEPT ![p] = (gl[p] \ old) \cup {[id |-> n, pay |-> pay]}]
         /\ gl' \in [Paychecks -> SUBSET Posting]
<1>1. PICK free \in SUBSET (1..MaxEntries) :
        /\ free # {}
        /\ gl' = [gl EXCEPT ![p] = (gl[p] \ old) \cup {[id |-> Min(free), pay |-> pay]}]
  BY DEF Replaced
<1>2. Min(free) \in 1..MaxEntries
  <2>1. free \in SUBSET Nat /\ free # {}
    BY <1>1, EntriesAssumption
  <2>2. Min(free) \in free
    BY <2>1, MinOfNats
  <2> QED
    BY <1>1, <2>2
<1>3. [id |-> Min(free), pay |-> pay] \in Posting
  BY <1>2 DEF Posting
<1> QED
  BY <1>1, <1>2, <1>3 DEF ChecksTypeOK

LEMMA NoteType ==
  ASSUME ChecksTypeOK, NEW r, Note(r, {}) \/ Note(r, {"edited"})
  PROVE  hist' \in [Paychecks -> SUBSET {"edited", "collided"}]
  BY DEF ChecksTypeOK, Note

-----------------------------------------------------------------------------
(***************************************************************************)
(* The base invariant, for a step of a handler that only goes on, for one  *)
(* that writes the row of a paycheck, and for every action                 *)
(***************************************************************************)
LEMMA ApartSymmetric ==
  ASSUME NEW q, NEW o, Apart(q, o)
  PROVE  Apart(o, q)
  BY DEF Apart

LEMMA IdleApart ==
  ASSUME NEW o
  PROVE  LinksOK(IdleHandler) /\ Apart(IdleHandler, o)
  BY DEF Apart, LinksOK, HoldsLock, IsNew, OfExisting, IdleHandler

\* The locks held stay as they are while the paychecks do.
LEMMA SlotStep ==
  ASSUME BaseInv, NEW r \in Handlers, NEW q \in Handler,
         handler' = [handler EXCEPT ![r] = q],
         UNCHANGED <<check, gl, hist>>,
         LinksOK(q), \A x \in Handlers \ {r} : Apart(q, handler[x])
  PROVE  BaseInv'
<1> USE DEF BaseInv
<1>1. \A x \in Handlers : handler'[x] = IF x = r THEN q ELSE handler[x]
  BY DEF ChecksTypeOK
<1>2. ChecksTypeOK'
  BY DEF ChecksTypeOK
<1>3. IsFiniteSet(LiveChecks)'
  BY DEF LiveChecks, Live
<1>4. HandlersLinked'
  <2> SUFFICES ASSUME NEW x \in Handlers PROVE LinksOK(handler[x])'
    BY DEF HandlersLinked
  <2>1. LinksOK(handler'[x])
    BY <1>1 DEF HandlersLinked
  <2> QED
    BY <2>1 DEF LinksOK, IsNew, OfExisting
<1>5. HandlersApart'
  <2> SUFFICES ASSUME NEW x \in Handlers, NEW y \in Handlers, x # y
               PROVE  Apart(handler[x], handler[y])'
    BY DEF HandlersApart
  <2>1. Apart(handler'[x], handler'[y])
    BY <1>1, ApartSymmetric DEF HandlersApart
  <2> QED
    BY <2>1 DEF Apart, HoldsLock, IsNew
<1>6. NothingPosted'
  BY DEF NothingPosted
<1> QED
  BY <1>2, <1>3, <1>4, <1>5, <1>6

\* Writing the row of a paycheck no creation is at work on but the one, if any,
\* that ends here: its employee stays.
WritesRow(p) ==
  /\ check' \in [Paychecks -> Check]
  /\ \A x \in Paychecks : x # p => check'[x] = check[x]
  /\ check'[p].status # "None"
  /\ check[p].status # "None" => check'[p].employee = check[p].employee

\* A handler ends, or none does.
EndsAt(r) ==
  /\ handler' \in [Handlers -> Handler]
  /\ \A x \in Handlers : handler'[x] = IF x = r THEN IdleHandler ELSE handler[x]

LEMMA RowStep ==
  ASSUME BaseInv, NEW p \in Paychecks, WritesRow(p),
         handler' \in [Handlers -> Handler],
         \A x \in Handlers : /\ handler'[x] = handler[x] \/ handler'[x] = IdleHandler
                             /\ IsNew(handler'[x]) => handler'[x].check # p,
         gl' \in [Paychecks -> SUBSET Posting],
         \A x \in Paychecks : x # p => gl'[x] = gl[x],
         hist' \in [Paychecks -> SUBSET {"edited", "collided"}]
  PROVE  BaseInv'
<1> USE DEF BaseInv
<1>1. ChecksTypeOK'
  BY DEF ChecksTypeOK, WritesRow
<1>2. IsFiniteSet(LiveChecks)'
  <2>1. IsFiniteSet(LiveChecks \cup {p})
    BY FS_AddElement
  <2>2. LiveChecks' \in SUBSET (LiveChecks \cup {p})
    BY DEF LiveChecks, Live, WritesRow
  <2> QED
    BY <2>1, <2>2, FS_Subset
<1>3. \A q \in Handler : \A e : LinksOK(q) /\ (IsNew(q) => q.check # p) =>
        LinksOK(q)' /\ (HoldsLock(q, e)' => HoldsLock(q, e))
  <2> SUFFICES ASSUME NEW q \in Handler, NEW e, LinksOK(q), IsNew(q) => q.check # p
               PROVE  LinksOK(q)' /\ (HoldsLock(q, e)' => HoldsLock(q, e))
    OBVIOUS
  <2>1. IsNew(q) \/ OfExisting(q) => q.check \in Paychecks
    BY HandlerFields DEF IsNew, OfExisting, IdleHandler
  <2>2. LinksOK(q)'
    BY <2>1 DEF LinksOK, WritesRow, IsNew, OfExisting
  <2>3. HoldsLock(q, e)' => HoldsLock(q, e)
    BY <2>1 DEF LinksOK, WritesRow, IsNew, OfExisting, HoldsLock
  <2> QED
    BY <2>2, <2>3
<1>4. \A x \in Handlers : handler'[x] \in Handler /\ LinksOK(handler'[x])
  BY IdleApart DEF HandlersLinked
<1>5. HandlersLinked'
  <2> SUFFICES ASSUME NEW x \in Handlers PROVE LinksOK(handler[x])'
    BY DEF HandlersLinked
  <2>1. /\ handler'[x] \in Handler /\ LinksOK(handler'[x])
        /\ IsNew(handler'[x]) => handler'[x].check # p
    BY <1>4
  <2> QED
    BY <1>3, <2>1
<1>6. HandlersApart'
  <2> SUFFICES ASSUME NEW x \in Handlers, NEW y \in Handlers, x # y
               PROVE  Apart(handler[x], handler[y])'
    BY DEF HandlersApart
  <2>1. Apart(handler'[x], handler'[y])
    BY IdleApart, ApartSymmetric DEF HandlersApart
  <2>2. \A e : /\ HoldsLock(handler[x], e)' => HoldsLock(handler'[x], e)
               /\ HoldsLock(handler[y], e)' => HoldsLock(handler'[y], e)
    BY <1>3, <1>4
  <2> QED
    BY <2>1, <2>2 DEF Apart, IsNew
<1>7. NothingPosted'
  BY DEF NothingPosted, WritesRow
<1> QED
  BY <1>1, <1>2, <1>5, <1>6, <1>7

-----------------------------------------------------------------------------
\* What each action does to the state.  A handler that goes on:
LEMMA LockedByHolder ==
  ASSUME BaseInv, NEW e, ~EmployeeLocked(e)
  PROVE  \A x \in Handlers : ~HoldsLock(handler[x], e)
  BY DEF EmployeeLocked, HoldsLock, Working, IsNew

LEMMA CreateBase ==
  ASSUME BaseInv, NEW r \in Handlers, NEW p \in Paychecks, NEW e \in Employees,
         NEW d \in CheckDates, NEW wages \in Wages, Create(r, p, e, d, wages)
  PROVE  /\ BaseInv'
         /\ Taxed(e, p, wages) \in Pay
<1> USE DEF BaseInv
<1> DEFINE row == [status |-> "Created", employee |-> e, date |-> d,
                   pay |-> Taxed(e, p, wages), number |-> 0]
           q == [op |-> "create", check |-> p, row |-> row]
<1>1. Taxed(e, p, wages) \in Pay
  BY TaxedType
<1>2. row \in CheckRow /\ row.employee = e /\ row.status = "Created"
  <2> HIDE DEF BaseInv
  <2> QED BY <1>1 DEF CheckRow
<1>3. handler' = [handler EXCEPT ![r] = q] /\ UNCHANGED <<check, gl, hist>>
  BY DEF Create, Begin
<1> HIDE DEF row
<1>4. /\ q \in Handler /\ q.op = "create" /\ q.check = p /\ q.row = row
      /\ q # IdleHandler
  BY <1>2 DEF Handler, IdleHandler
<1> HIDE DEF q
<1>5. /\ check[p].status = "None"
      /\ \A x \in Handlers : handler[x] # IdleHandler => handler[x].check # p
      /\ \A x \in Handlers : ~HoldsLock(handler[x], e)
  BY LockedByHolder DEF Create
<1>6. LinksOK(q)
  BY <1>2, <1>4, <1>5 DEF LinksOK, IsNew, OfExisting
<1>7. \A x \in Handlers : Apart(q, handler[x])
  <2>1. \A e2 : HoldsLock(q, e2) => e2 = e
    BY <1>2, <1>4 DEF HoldsLock, IsNew
  <2> QED
    BY <1>4, <1>5, <2>1 DEF Apart
<1> QED
  BY <1>1, <1>3, <1>4, <1>6, <1>7, SlotStep

LEMMA NumberBase ==
  ASSUME BaseInv, NEW r \in Handlers, Number(r)
  PROVE  /\ BaseInv'
         /\ \E q \in Handler :
              /\ handler' = [handler EXCEPT ![r] = q]
              /\ q.op = "insert" /\ q.check = handler[r].check
              /\ q.row.employee = handler[r].row.employee /\ q.row.date = handler[r].row.date
              /\ q.row.pay = handler[r].row.pay /\ q.row.status = handler[r].row.status
              /\ q.row.number = 1 + Cardinality(LiveChecks)
<1> USE DEF BaseInv
<1> DEFINE n == 1 + Cardinality(LiveChecks)
           row == [handler[r].row EXCEPT !.number = n]
           q == [op |-> "insert", check |-> handler[r].check, row |-> row]
<1>1. handler[r] \in Handler /\ handler[r].op = "create" /\ handler[r] # IdleHandler
  BY DEF Number, Working, ChecksTypeOK, IdleHandler
<1>2. n \in Nat
  BY FS_CardinalityType
<1>3. handler[r].check \in Paychecks /\ handler[r].row \in CheckRow
  BY <1>1, HandlerFields DEF IsNew
<1>4. handler' = [handler EXCEPT ![r] = q] /\ UNCHANGED <<check, gl, hist>>
  BY DEF Number, Continue, LiveChecks
<1> HIDE DEF n, BaseInv
<1>5. /\ row \in CheckRow /\ row.number = n
      /\ row.employee = handler[r].row.employee /\ row.date = handler[r].row.date
      /\ row.pay = handler[r].row.pay /\ row.status = handler[r].row.status
  BY <1>2, <1>3 DEF CheckRow
<1> HIDE DEF row
<1>7. q \in Handler /\ q.op = "insert" /\ q.check = handler[r].check /\ q.row = row
  BY <1>3, <1>5 DEF Handler
<1> HIDE DEF q
<1>8. LinksOK(q)
  BY <1>1, <1>5, <1>7 DEF LinksOK, IsNew, OfExisting, BaseInv, HandlersLinked
<1>9. \A x \in Handlers \ {r} : Apart(q, handler[x])
  <2> SUFFICES ASSUME NEW x \in Handlers \ {r} PROVE Apart(q, handler[x])
    OBVIOUS
  <2>1. Apart(handler[r], handler[x])
    BY DEF BaseInv, HandlersApart
  <2>2. handler[x].op # "insert"
    BY DEF Number, NumberingLocked, Working
  <2> QED
    BY <1>1, <1>5, <1>7, <2>1, <2>2 DEF Apart, HoldsLock, IsNew
<1>10. BaseInv'
  BY <1>4, <1>7, <1>8, <1>9, SlotStep
<1> QED
  BY <1>4, <1>5, <1>7, <1>10 DEF n

\* A handler that begins on a paycheck that is there, or goes on with the same.
LEMMA ExistingStep ==
  ASSUME BaseInv, NEW r \in Handlers, NEW q \in Handler, OfExisting(q),
         q.op = "save" => ~EmployeeLocked(check[q.check].employee),
         check[q.check].status # "None",
         handler' = [handler EXCEPT ![r] = q], UNCHANGED <<check, gl, hist>>
  PROVE  BaseInv'
<1>1. LinksOK(q)
  BY DEF LinksOK, IsNew, OfExisting
<1>2. \A x \in Handlers \ {r} : Apart(q, handler[x])
  <2> SUFFICES ASSUME NEW x \in Handlers \ {r} PROVE Apart(q, handler[x])
    OBVIOUS
  <2>1. \A e : HoldsLock(q, e) => ~HoldsLock(handler[x], e)
    BY LockedByHolder DEF HoldsLock, OfExisting, IsNew
  <2>2. IsNew(handler[x]) => check[handler[x].check].status = "None"
    BY DEF BaseInv, HandlersLinked, LinksOK
  <2> QED
    BY <2>1, <2>2 DEF Apart, OfExisting, IsNew
<1> QED
  BY <1>1, <1>2, SlotStep

LEMMA AtWork ==
  ASSUME BaseInv, NEW r \in Handlers, OfExisting(handler[r])
  PROVE  /\ handler[r] \in Handler
         /\ handler[r].check \in Paychecks
         /\ check[handler[r].check].status # "None"
         /\ gl[handler[r].check] \in SUBSET Posting
  BY HandlerFields DEF BaseInv, ChecksTypeOK, HandlersLinked, LinksOK, OfExisting, IdleHandler

LEMMA EditBase ==
  ASSUME BaseInv, NEW r \in Handlers, NEW p \in Paychecks, NEW d \in CheckDates,
         NEW w \in Wages, Edit(r, p, d, w)
  PROVE  BaseInv'
<1> DEFINE q == [op |-> "edit", check |-> p, date |-> d, wages |-> w]
<1>1. q \in Handler /\ q.op = "edit" /\ q.check = p
  BY DEF Handler
<1>2. handler' = [handler EXCEPT ![r] = q] /\ UNCHANGED <<check, gl, hist>>
  BY DEF Edit, Begin
<1> HIDE DEF q
<1>3. check[p].status # "None"
  BY DEF Edit, Editable
<1> QED
  BY <1>1, <1>2, <1>3, ExistingStep DEF OfExisting

LEMMA RepostBase ==
  ASSUME BaseInv, NEW r \in Handlers, NEW p \in Paychecks, Repost(r, p)
  PROVE  BaseInv'
<1> DEFINE q == [op |-> "repost", check |-> p, pay |-> check[p].pay]
<1>1. Live(p) /\ check[p].pay \in Pay /\ check[p].status # "None"
  BY CheckKinds, RowFields DEF Repost, BaseInv, Live
<1>2. q \in Handler /\ q.op = "repost" /\ q.check = p
  BY <1>1 DEF Handler
<1>3. handler' = [handler EXCEPT ![r] = q] /\ UNCHANGED <<check, gl, hist>>
  BY DEF Repost, Begin
<1> HIDE DEF q
<1> QED
  BY <1>1, <1>2, <1>3, ExistingStep DEF OfExisting

LEMMA DeleteBase ==
  ASSUME BaseInv, NEW r \in Handlers, NEW p \in Paychecks, Delete(r, p)
  PROVE  BaseInv'
<1> DEFINE q == [op |-> "delete", check |-> p]
<1>1. q \in Handler /\ q.op = "delete" /\ q.check = p
  BY DEF Handler
<1>2. handler' = [handler EXCEPT ![r] = q] /\ UNCHANGED <<check, gl, hist>>
  BY DEF Delete, Begin
<1> HIDE DEF q
<1>3. check[p].status # "None"
  BY DEF Delete, Editable
<1> QED
  BY <1>1, <1>2, <1>3, ExistingStep DEF OfExisting

LEMMA EditLockedBase ==
  ASSUME BaseInv, NEW r \in Handlers, EditLocked(r)
  PROVE  /\ BaseInv'
         /\ OfExisting(handler[r]) /\ handler[r].check \in Paychecks
         /\ handler[r].wages \in Wages
         /\ ~EmployeeLocked(check[handler[r].check].employee)
         /\ \E q \in Handler :
              /\ handler' = [handler EXCEPT ![r] = q]
              /\ q.op = "save" /\ q.check = handler[r].check
              /\ q.pay = Taxed(check[q.check].employee, q.check, handler[r].wages)
              /\ q.old = gl[q.check]
<1> DEFINE p == handler[r].check
           e == check[p].employee
           pay == Taxed(e, p, handler[r].wages)
           q == [op |-> "save", check |-> p, date |-> handler[r].date,
                 pay |-> pay, old |-> gl[p]]
<1>1. handler[r].op = "edit" /\ OfExisting(handler[r])
  BY DEF EditLocked, Working, OfExisting
<1>2. /\ handler[r] \in Handler /\ p \in Paychecks /\ check[p].status # "None"
      /\ gl[p] \in SUBSET Posting
  BY <1>1, AtWork
<1>3. handler[r].date \in CheckDates /\ handler[r].wages \in Wages
  BY <1>1, <1>2, HandlerFields
<1>4. pay \in Pay
  BY <1>2, <1>3, TaxedType DEF BaseInv
<1>5. /\ handler' = [handler EXCEPT ![r] = q] /\ UNCHANGED <<check, gl, hist>>
      /\ ~EmployeeLocked(e)
  BY DEF EditLocked, Continue, OldEntries
<1> HIDE DEF pay
<1>6. q \in Handler /\ q.op = "save" /\ q.check = p /\ q.pay = pay /\ q.old = gl[p]
  BY <1>2, <1>3, <1>4 DEF Handler
<1> HIDE DEF q
<1>7. BaseInv'
  BY <1>2, <1>5, <1>6, ExistingStep DEF OfExisting
<1>8. q.pay = Taxed(check[q.check].employee, q.check, handler[r].wages)
  BY <1>6 DEF pay
<1> QED
  BY <1>1, <1>2, <1>3, <1>5, <1>6, <1>7, <1>8

LEMMA RepostDeleteBase ==
  ASSUME BaseInv, NEW r \in Handlers, RepostDelete(r)
  PROVE  /\ BaseInv'
         /\ OfExisting(handler[r])
         /\ \E q \in Handler :
              /\ handler' = [handler EXCEPT ![r] = q]
              /\ q.op = "replace" /\ q.check = handler[r].check
              /\ q.pay = handler[r].pay /\ q.old = gl[q.check]
<1> DEFINE p == handler[r].check
           q == [op |-> "replace", check |-> p, pay |-> handler[r].pay, old |-> gl[p]]
<1>1. handler[r].op = "repost" /\ OfExisting(handler[r])
  BY DEF RepostDelete, Working, OfExisting
<1>2. /\ handler[r] \in Handler /\ p \in Paychecks /\ check[p].status # "None"
      /\ gl[p] \in SUBSET Posting
  BY <1>1, AtWork
<1>3. handler[r].pay \in Pay
  BY <1>1, <1>2, HandlerFields
<1>4. handler' = [handler EXCEPT ![r] = q] /\ UNCHANGED <<check, gl, hist>>
  BY DEF RepostDelete, Continue, OldEntries
<1>5. /\ q \in Handler /\ q.op = "replace" /\ q.check = p
      /\ q.pay = handler[r].pay /\ q.old = gl[p]
  BY <1>2, <1>3 DEF Handler
<1> HIDE DEF q
<1>6. BaseInv'
  BY <1>2, <1>4, <1>5, ExistingStep DEF OfExisting
<1> QED
  BY <1>1, <1>4, <1>5, <1>6

LEMMA DeleteEntriesBase ==
  ASSUME BaseInv, NEW r \in Handlers, DeleteEntries(r)
  PROVE  /\ BaseInv'
         /\ OfExisting(handler[r])
         /\ \E q \in Handler :
              /\ handler' = [handler EXCEPT ![r] = q]
              /\ q.op = "remove" /\ q.check = handler[r].check /\ q.old = gl[q.check]
<1> DEFINE p == handler[r].check
           q == [op |-> "remove", check |-> p, old |-> gl[p]]
<1>1. handler[r].op = "delete" /\ OfExisting(handler[r])
  BY DEF DeleteEntries, Working, OfExisting
<1>2. /\ p \in Paychecks /\ check[p].status # "None" /\ gl[p] \in SUBSET Posting
  BY <1>1, AtWork
<1>3. handler' = [handler EXCEPT ![r] = q] /\ UNCHANGED <<check, gl, hist>>
  BY DEF DeleteEntries, Continue, OldEntries
<1>4. q \in Handler /\ q.op = "remove" /\ q.check = p /\ q.old = gl[p]
  BY <1>2 DEF Handler
<1> HIDE DEF q
<1>5. BaseInv'
  BY <1>2, <1>3, <1>4, ExistingStep DEF OfExisting
<1> QED
  BY <1>1, <1>3, <1>4, <1>5

LEMMA RollBackBase ==
  ASSUME BaseInv, NEW r \in Handlers, RollBack(r)
  PROVE  BaseInv'
<1>1. IdleHandler \in Handler
  BY DEF Handler
<1> QED
  BY <1>1, IdleApart, SlotStep DEF RollBack, Done

-----------------------------------------------------------------------------
\* A transaction commits: its handler ends, one row is written, and only the
\* ledger entries and the history of that paycheck change.
Commits(r, p) ==
  /\ WritesRow(p)
  /\ handler' = [handler EXCEPT ![r] = IdleHandler]
  /\ gl' \in [Paychecks -> SUBSET Posting]
  /\ hist' \in [Paychecks -> SUBSET {"edited", "collided"}]
  /\ \A x \in Paychecks : x # p => gl'[x] = gl[x] /\ hist'[x] = hist[x]

LEMMA CommitStep ==
  ASSUME BaseInv, NEW r \in Handlers, NEW p \in Paychecks, Commits(r, p),
         handler[r].check = p, IsNew(handler[r]) \/ OfExisting(handler[r])
  PROVE  /\ BaseInv'
         /\ \A x \in Handlers : handler'[x] = IF x = r THEN IdleHandler ELSE handler[x]
<1>1. IdleHandler \in Handler /\ ~IsNew(IdleHandler)
  BY DEF Handler, IdleHandler, IsNew
<1>2. /\ handler' \in [Handlers -> Handler]
      /\ \A x \in Handlers : handler'[x] = IF x = r THEN IdleHandler ELSE handler[x]
  BY <1>1 DEF Commits, BaseInv, ChecksTypeOK
<1>3. \A x \in Handlers : IsNew(handler'[x]) => handler'[x].check # p
  <2> SUFFICES ASSUME NEW x \in Handlers, x # r, IsNew(handler[x])
               PROVE  handler[x].check # p
    BY <1>1, <1>2
  <2>1. Apart(handler[r], handler[x])
    BY DEF BaseInv, HandlersApart
  <2> QED
    BY <2>1 DEF Apart, IsNew, OfExisting, IdleHandler
<1> QED
  BY <1>2, <1>3, RowStep DEF Commits

LEMMA CreateCommitBase ==
  ASSUME BaseInv, NEW r \in Handlers, CreateCommit(r)
  PROVE  /\ BaseInv'
         /\ handler[r].op = "insert"
         /\ handler[r].check \in Paychecks /\ handler[r].row \in CheckRow
         /\ handler[r].row.status = "Created"
         /\ check[handler[r].check].status = "None"
         /\ Commits(r, handler[r].check)
         /\ check'[handler[r].check] = handler[r].row
         /\ hist' = hist
         /\ \E n \in 1..MaxEntries :
              gl'[handler[r].check] = {[id |-> n, pay |-> handler[r].row.pay]}
<1> DEFINE p == handler[r].check
           row == handler[r].row
<1>1. handler[r].op = "insert" /\ IsNew(handler[r])
  BY DEF CreateCommit, Working, IsNew
<1>2. handler[r] \in Handler /\ handler[r] # IdleHandler
  BY <1>1 DEF BaseInv, ChecksTypeOK, IdleHandler
<1>3. p \in Paychecks /\ row \in CheckRow
  BY <1>1, <1>2, HandlerFields
<1>4. row.status = "Created" /\ check[p].status = "None" /\ gl[p] = {}
  BY <1>1, <1>3 DEF BaseInv, HandlersLinked, LinksOK, NothingPosted
<1>5. row.pay \in Pay
  BY <1>3, RowFields
<1>6. /\ check' = [check EXCEPT ![p] = row]
      /\ Replaced(r, p, {}, row.pay)
      /\ handler' = [handler EXCEPT ![r] = IdleHandler]
      /\ hist' = hist
  BY DEF CreateCommit, Done
<1>7. /\ \E n \in 1..MaxEntries :
              gl' = [gl EXCEPT ![p] = (gl[p] \ {}) \cup {[id |-> n, pay |-> row.pay]}]
      /\ gl' \in [Paychecks -> SUBSET Posting]
  BY <1>3, <1>5, <1>6, ReplacedPosts DEF BaseInv
<1>8. PICK n \in 1..MaxEntries :
        gl' = [gl EXCEPT ![p] = (gl[p] \ {}) \cup {[id |-> n, pay |-> row.pay]}]
  BY <1>7
<1>9. gl'[p] = {[id |-> n, pay |-> row.pay]} /\ \A x \in Paychecks : x # p => gl'[x] = gl[x]
  BY <1>3, <1>4, <1>8 DEF BaseInv, ChecksTypeOK
<1>10. WritesRow(p) /\ check'[p] = row
  BY <1>3, <1>4, <1>6 DEF WritesRow, BaseInv, ChecksTypeOK, Check
<1>11. Commits(r, p)
  BY <1>6, <1>7, <1>9, <1>10 DEF Commits, BaseInv, ChecksTypeOK
<1>12. BaseInv'
  BY <1>1, <1>3, <1>11, CommitStep
<1> QED
  BY <1>1, <1>3, <1>4, <1>6, <1>9, <1>10, <1>11, <1>12

\* What a commit leaves in the history.
LEMMA NoteEffect ==
  ASSUME BaseInv, NEW r \in Handlers, OfExisting(handler[r]),
         NEW events \in SUBSET {"edited"}, Note(r, events)
  PROVE  LET p == handler[r].check IN
           /\ hist' \in [Paychecks -> SUBSET {"edited", "collided"}]
           /\ \A x \in Paychecks : x # p => hist'[x] = hist[x]
           /\ hist[p] \subseteq hist'[p] /\ events \subseteq hist'[p]
           /\ "collided" \notin hist'[p] => ~Colliding(r)
<1>1. handler[r].check \in Paychecks
  BY AtWork
<1> QED
  BY <1>1 DEF Note, BaseInv, ChecksTypeOK

LEMMA EditCommitBase ==
  ASSUME BaseInv, NEW r \in Handlers, EditCommit(r)
  PROVE  LET p == handler[r].check IN
           /\ BaseInv'
           /\ handler[r].op = "save"
           /\ p \in Paychecks /\ check[p].status # "None"
           /\ Commits(r, p) /\ Note(r, {"edited"})
           /\ handler[r].pay \in Pay /\ handler[r].date \in CheckDates
           /\ Live(p) => /\ check'[p] \in CheckRow
                         /\ check'[p].status = check[p].status
                         /\ check'[p].employee = check[p].employee
                         /\ check'[p].date = handler[r].date
                         /\ check'[p].pay = handler[r].pay
                         /\ check'[p].number = check[p].number
           /\ ~Live(p) => check' = check
           /\ \E n \in 1..MaxEntries :
                gl'[p] = (gl[p] \ handler[r].old) \cup {[id |-> n, pay |-> handler[r].pay]}
<1> DEFINE p == handler[r].check
           pay == handler[r].pay
           old == handler[r].old
<1>1. handler[r].op = "save" /\ OfExisting(handler[r])
  BY DEF EditCommit, Working, OfExisting
<1>2. handler[r] \in Handler /\ p \in Paychecks /\ check[p].status # "None"
  BY <1>1, AtWork
<1>3. handler[r].date \in CheckDates /\ pay \in Pay
  BY <1>1, <1>2, HandlerFields
<1>4. /\ check' = IF Live(p)
                  THEN [check EXCEPT ![p] = [@ EXCEPT !.date = handler[r].date, !.pay = pay]]
                  ELSE check
      /\ Replaced(r, p, old, pay)
      /\ handler' = [handler EXCEPT ![r] = IdleHandler]
      /\ Note(r, {"edited"})
  BY DEF EditCommit, Done
<1>5. /\ \E n \in 1..MaxEntries :
              gl' = [gl EXCEPT ![p] = (gl[p] \ old) \cup {[id |-> n, pay |-> pay]}]
      /\ gl' \in [Paychecks -> SUBSET Posting]
  BY <1>2, <1>3, <1>4, ReplacedPosts DEF BaseInv
<1>6. /\ \E n \in 1..MaxEntries : gl'[p] = (gl[p] \ old) \cup {[id |-> n, pay |-> pay]}
      /\ \A x \in Paychecks : x # p => gl'[x] = gl[x]
  BY <1>2, <1>5 DEF BaseInv, ChecksTypeOK
<1>7. /\ hist' \in [Paychecks -> SUBSET {"edited", "collided"}]
      /\ \A x \in Paychecks : x # p => hist'[x] = hist[x]
  BY <1>1, <1>4, NoteEffect
<1>8. Live(p) => /\ check'[p] \in CheckRow
                 /\ check'[p].status = check[p].status
                 /\ check'[p].employee = check[p].employee
                 /\ check'[p].date = handler[r].date
                 /\ check'[p].pay = handler[r].pay
                 /\ check'[p].number = check[p].number
  <2> SUFFICES ASSUME Live(p) PROVE <1>8!2
    OBVIOUS
  <2>1. check[p] \in CheckRow
    BY <1>2, CheckKinds DEF BaseInv
  <2>2. check'[p] = [check[p] EXCEPT !.date = handler[r].date, !.pay = pay]
    BY <1>2, <1>4 DEF BaseInv, ChecksTypeOK
  <2> QED
    BY <1>3, <2>1, <2>2 DEF CheckRow
<1>9. WritesRow(p)
  <2>1. Live(p) => check'[p] \in Check /\ check'[p].status # "None"
    BY <1>8, RowFields DEF Check
  <2>2. Live(p) => check' = [check EXCEPT ![p] = [@ EXCEPT !.date = handler[r].date, !.pay = pay]]
    BY <1>4
  <2>3. CASE Live(p)
    <3>1. check' \in [Paychecks -> Check] /\ \A x \in Paychecks : x # p => check'[x] = check[x]
      BY <1>2, <2>1, <2>2, <2>3 DEF BaseInv, ChecksTypeOK
    <3> QED
      BY <1>8, <2>1, <2>3, <3>1 DEF WritesRow
  <2>4. CASE ~Live(p)
    BY <1>2, <1>4, <2>4 DEF WritesRow, BaseInv, ChecksTypeOK
  <2> QED
    BY <2>3, <2>4
<1>10. Commits(r, p)
  BY <1>4, <1>5, <1>6, <1>7, <1>9 DEF Commits
<1>11. BaseInv'
  BY <1>1, <1>2, <1>10, CommitStep
<1> QED
  BY <1>1, <1>2, <1>3, <1>4, <1>6, <1>8, <1>10, <1>11

LEMMA RepostCommitBase ==
  ASSUME BaseInv, NEW r \in Handlers, RepostCommit(r)
  PROVE  LET p == handler[r].check IN
           /\ BaseInv'
           /\ handler[r].op = "replace"
           /\ p \in Paychecks
           /\ Commits(r, p) /\ Note(r, {}) /\ check' = check
           /\ \E n \in 1..MaxEntries :
                gl'[p] = (gl[p] \ handler[r].old) \cup {[id |-> n, pay |-> handler[r].pay]}
<1> DEFINE p == handler[r].check
           pay == handler[r].pay
           old == handler[r].old
<1>1. handler[r].op = "replace" /\ OfExisting(handler[r])
  BY DEF RepostCommit, Working, OfExisting
<1>2. handler[r] \in Handler /\ p \in Paychecks /\ check[p].status # "None"
  BY <1>1, AtWork
<1>3. pay \in Pay
  BY <1>1, <1>2, HandlerFields
<1>4. /\ check' = check
      /\ Replaced(r, p, old, pay)
      /\ handler' = [handler EXCEPT ![r] = IdleHandler]
      /\ Note(r, {})
  BY DEF RepostCommit, Done
<1>5. /\ \E n \in 1..MaxEntries :
              gl' = [gl EXCEPT ![p] = (gl[p] \ old) \cup {[id |-> n, pay |-> pay]}]
      /\ gl' \in [Paychecks -> SUBSET Posting]
  BY <1>2, <1>3, <1>4, ReplacedPosts DEF BaseInv
<1>6. /\ \E n \in 1..MaxEntries : gl'[p] = (gl[p] \ old) \cup {[id |-> n, pay |-> pay]}
      /\ \A x \in Paychecks : x # p => gl'[x] = gl[x]
  BY <1>2, <1>5 DEF BaseInv, ChecksTypeOK
<1>7. /\ hist' \in [Paychecks -> SUBSET {"edited", "collided"}]
      /\ \A x \in Paychecks : x # p => hist'[x] = hist[x]
  BY <1>1, <1>4, NoteEffect
<1>8. WritesRow(p)
  BY <1>2, <1>4 DEF WritesRow, BaseInv, ChecksTypeOK
<1>9. Commits(r, p)
  BY <1>4, <1>5, <1>6, <1>7, <1>8 DEF Commits
<1>10. BaseInv'
  BY <1>1, <1>2, <1>9, CommitStep
<1> QED
  BY <1>1, <1>2, <1>4, <1>6, <1>9, <1>10

LEMMA DeleteCommitBase ==
  ASSUME BaseInv, NEW r \in Handlers, DeleteCommit(r)
  PROVE  LET p == handler[r].check IN
           /\ BaseInv'
           /\ handler[r].op = "remove"
           /\ p \in Paychecks
           /\ Commits(r, p) /\ Note(r, {})
           /\ check'[p] = Deleted(check[p].employee)
           /\ gl'[p] = gl[p] \ handler[r].old
<1> DEFINE p == handler[r].check
<1>1. handler[r].op = "remove" /\ OfExisting(handler[r])
  BY DEF DeleteCommit, Working, OfExisting
<1>2. handler[r] \in Handler /\ p \in Paychecks /\ check[p].status # "None"
  BY <1>1, AtWork
<1>3. /\ check' = [check EXCEPT ![p] = Deleted(check[p].employee)]
      /\ gl' = [gl EXCEPT ![p] = gl[p] \ handler[r].old]
      /\ handler' = [handler EXCEPT ![r] = IdleHandler]
      /\ Note(r, {})
  BY DEF DeleteCommit, Done
<1>4. /\ gl'[p] = gl[p] \ handler[r].old
      /\ gl' \in [Paychecks -> SUBSET Posting]
      /\ \A x \in Paychecks : x # p => gl'[x] = gl[x]
  BY <1>2, <1>3 DEF BaseInv, ChecksTypeOK
<1>5. /\ hist' \in [Paychecks -> SUBSET {"edited", "collided"}]
      /\ \A x \in Paychecks : x # p => hist'[x] = hist[x]
  BY <1>1, <1>3, NoteEffect
<1>6. check[p].employee \in Employees
  BY <1>2, CheckKinds DEF BaseInv
<1>7. WritesRow(p) /\ check'[p] = Deleted(check[p].employee)
  <2>1. Deleted(check[p].employee) \in Check
    BY <1>6 DEF Check
  <2>2. /\ Deleted(check[p].employee).status = "Deleted"
        /\ Deleted(check[p].employee).employee = check[p].employee
    BY DEF Deleted
  <2>3. /\ check' \in [Paychecks -> Check] /\ check'[p] = Deleted(check[p].employee)
        /\ \A x \in Paychecks : x # p => check'[x] = check[x]
    BY <1>2, <1>3, <2>1 DEF BaseInv, ChecksTypeOK
  <2> QED
    BY <2>2, <2>3 DEF WritesRow
<1>8. Commits(r, p)
  BY <1>3, <1>4, <1>5, <1>7 DEF Commits
<1>9. BaseInv'
  BY <1>1, <1>2, <1>8, CommitStep
<1> QED
  BY <1>1, <1>2, <1>3, <1>4, <1>7, <1>8, <1>9

LEMMA MarkPrintedBase ==
  ASSUME BaseInv, NEW p \in Paychecks, MarkPrinted(p)
  PROVE  /\ BaseInv'
         /\ UNCHANGED <<gl, handler, hist>>
         /\ \A x \in Paychecks : x # p => check'[x] = check[x]
         /\ Live(p) /\ check'[p] \in CheckRow
         /\ check'[p].status = "Printed"
         /\ check'[p].employee = check[p].employee
         /\ check'[p].date = check[p].date
         /\ check'[p].pay = check[p].pay
         /\ check'[p].number = check[p].number
<1>1. Live(p) /\ check[p] \in CheckRow
  BY CheckKinds DEF MarkPrinted, Editable, Live, BaseInv
<1>2. check' = [check EXCEPT ![p] = [check[p] EXCEPT !.status = "Printed"]]
  BY DEF MarkPrinted
<1>3. /\ check'[p] = [check[p] EXCEPT !.status = "Printed"]
      /\ \A x \in Paychecks : x # p => check'[x] = check[x]
  BY <1>2 DEF BaseInv, ChecksTypeOK
<1>4. /\ check'[p] \in CheckRow
      /\ check'[p].status = "Printed"
      /\ check'[p].employee = check[p].employee
      /\ check'[p].date = check[p].date
      /\ check'[p].pay = check[p].pay
      /\ check'[p].number = check[p].number
  BY <1>1, <1>3 DEF CheckRow
<1>5. WritesRow(p)
  <2>1. check'[p] \in Check
    BY <1>4 DEF Check
  <2>2. check' \in [Paychecks -> Check]
    BY <1>2, <1>3, <2>1 DEF BaseInv, ChecksTypeOK
  <2> QED
    BY <1>3, <1>4, <2>2 DEF WritesRow
<1>6. UNCHANGED <<gl, handler, hist>>
  BY DEF MarkPrinted
<1>7. \A x \in Handlers : IsNew(handler'[x]) => handler'[x].check # p
  BY <1>1, <1>6 DEF BaseInv, HandlersLinked, LinksOK, Live
<1>8. BaseInv'
  BY <1>5, <1>6, <1>7, RowStep DEF BaseInv, ChecksTypeOK
<1> QED
  BY <1>1, <1>3, <1>4, <1>6, <1>8

-----------------------------------------------------------------------------
LEMMA BaseAtFirst == ChecksInit => BaseInv
<1> SUFFICES ASSUME ChecksInit PROVE BaseInv
  OBVIOUS
<1>1. ChecksTypeOK
  BY DEF ChecksInit, ChecksTypeOK, Check, Handler
<1>2. LiveChecks = {}
  BY DEF ChecksInit, LiveChecks, Live, NoCheck
<1>3. IsFiniteSet(LiveChecks)
  BY <1>2, FS_EmptySet
<1>4. \A r \in Handlers : handler[r] = IdleHandler
  BY DEF ChecksInit
<1>5. HandlersLinked /\ HandlersApart
  BY <1>4, IdleApart DEF HandlersLinked, HandlersApart
<1>6. NothingPosted
  BY DEF ChecksInit, NothingPosted
<1> QED
  BY <1>1, <1>3, <1>5, <1>6 DEF BaseInv

LEMMA BaseStays == BaseInv /\ [ChecksNext]_checkVars => BaseInv'
<1> SUFFICES ASSUME BaseInv, [ChecksNext]_checkVars PROVE BaseInv'
  OBVIOUS
<1>1. ASSUME NEW r \in Handlers, NEW p \in Paychecks, NEW d \in CheckDates, NEW w \in Wages,
             Edit(r, p, d, w) \/ \E e \in Employees : Create(r, p, e, d, w)
      PROVE  BaseInv'
  BY <1>1, EditBase, CreateBase
<1>2. ASSUME NEW r \in Handlers, NEW p \in Paychecks, Repost(r, p) \/ Delete(r, p)
      PROVE  BaseInv'
  BY <1>2, RepostBase, DeleteBase
<1>3. ASSUME NEW r \in Handlers,
             \/ Number(r) \/ CreateCommit(r)
             \/ EditLocked(r) \/ EditCommit(r)
             \/ RepostDelete(r) \/ RepostCommit(r)
             \/ DeleteEntries(r) \/ DeleteCommit(r)
             \/ RollBack(r)
      PROVE  BaseInv'
  BY <1>3, NumberBase, CreateCommitBase, EditLockedBase, EditCommitBase, RepostDeleteBase,
     RepostCommitBase, DeleteEntriesBase, DeleteCommitBase, RollBackBase
<1>4. ASSUME NEW p \in Paychecks, MarkPrinted(p) PROVE BaseInv'
  BY <1>4, MarkPrintedBase
<1>5. ASSUME UNCHANGED checkVars PROVE BaseInv'
  <2> USE <1>5 DEF checkVars
  <2>1. ChecksTypeOK' /\ NothingPosted'
    BY DEF BaseInv, ChecksTypeOK, NothingPosted
  <2>2. IsFiniteSet(LiveChecks)'
    BY DEF BaseInv, LiveChecks, Live
  <2>3. HandlersLinked' /\ HandlersApart'
    BY DEF BaseInv, HandlersLinked, HandlersApart, LinksOK, Apart, HoldsLock, IsNew, OfExisting
  <2> QED
    BY <2>1, <2>2, <2>3 DEF BaseInv
<1> QED
  BY <1>1, <1>2, <1>3, <1>4, <1>5 DEF ChecksNext

\* The type invariant of the paychecks, their entries and their handlers, for any
\* number of them: whatever overlaps, a row that is written is a whole row.
THEOREM ChecksTypeCorrect == ChecksSpec => []ChecksTypeOK
<1>1. BaseInv => ChecksTypeOK
  BY DEF BaseInv
<1> QED
  BY <1>1, BaseAtFirst, BaseStays, PTL DEF ChecksSpec

-----------------------------------------------------------------------------
(***************************************************************************)
(* The ledger: a handler that has removed the entries of a paycheck nobody *)
(* else wrote meanwhile still knows all its entries, and its figures       *)
(***************************************************************************)
EntriesOK(p) ==
  "collided" \notin hist[p] =>
    IF Live(p) THEN \E i \in 1..MaxEntries : gl[p] = {[id |-> i, pay |-> check[p].pay]}
    ELSE gl[p] = {}

FollowsOK(q) ==
  OfExisting(q) /\ "collided" \notin hist[q.check] =>
    /\ Live(q.check)
    /\ q.op \in {"save", "replace", "remove"} => q.old = gl[q.check]
    /\ q.op \in {"repost", "replace"} => q.pay = check[q.check].pay

EntriesInv ==
  /\ \A p \in Paychecks : EntriesOK(p)
  /\ \A r \in Handlers : FollowsOK(handler[r])

LEMMA EntriesSlot ==
  ASSUME BaseInv, EntriesInv, NEW r \in Handlers, NEW q,
         handler' = [handler EXCEPT ![r] = q],
         UNCHANGED <<check, gl, hist>>, FollowsOK(q)
  PROVE  EntriesInv'
<1>1. \A x \in Handlers : handler'[x] = IF x = r THEN q ELSE handler[x]
  BY DEF BaseInv, ChecksTypeOK
<1>2. ASSUME NEW x \in Handlers PROVE FollowsOK(handler[x])'
  <2>1. FollowsOK(handler'[x])
    BY <1>1 DEF EntriesInv
  <2> QED
    BY <2>1 DEF FollowsOK, OfExisting, Live
<1>3. ASSUME NEW p \in Paychecks PROVE EntriesOK(p)'
  BY DEF EntriesInv, EntriesOK, Live
<1> QED
  BY <1>2, <1>3 DEF EntriesInv

\* After a commit, the other handlers at work on its paycheck, if it counts as not
\* overlapped, can only be an edit that has read nothing yet.
LEMMA EntriesCommit ==
  ASSUME BaseInv, EntriesInv, NEW r \in Handlers, NEW p \in Paychecks,
         Commits(r, p), handler[r].check = p, IsNew(handler[r]) \/ OfExisting(handler[r]),
         EntriesOK(p)',
         \A x \in Handlers \ {r} :
           OfExisting(handler[x]) /\ handler[x].check = p /\ "collided" \notin hist'[p] =>
             handler[x].op = "edit" /\ Live(p)'
  PROVE  EntriesInv'
<1>1. \A x \in Handlers : handler'[x] = IF x = r THEN IdleHandler ELSE handler[x]
  BY CommitStep
<1>2. ASSUME NEW y \in Paychecks PROVE EntriesOK(y)'
  BY DEF EntriesInv, EntriesOK, Live, Commits, WritesRow
<1>3. ASSUME NEW x \in Handlers PROVE FollowsOK(handler[x])'
  <2> SUFFICES ASSUME x # r, OfExisting(handler[x]), "collided" \notin hist'[handler[x].check]
               PROVE  FollowsOK(handler[x])'
    BY <1>1 DEF FollowsOK, OfExisting, IdleHandler
  <2>1. handler'[x] = handler[x] /\ handler[x].check \in Paychecks
    BY <1>1, AtWork
  <2>2. FollowsOK(handler[x])
    BY DEF EntriesInv
  <2>3. CASE handler[x].check = p
    BY <2>1, <2>3 DEF FollowsOK
  <2>4. CASE handler[x].check # p
    BY <2>1, <2>2, <2>4 DEF FollowsOK, Commits, WritesRow, Live
  <2> QED
    BY <2>3, <2>4
<1> QED
  BY <1>2, <1>3 DEF EntriesInv

\* A commit that does not count as overlapped: who else may be at work.
LEMMA NotColliding ==
  ASSUME BaseInv, NEW r \in Handlers, OfExisting(handler[r]), ~Colliding(r),
         NEW x \in Handlers \ {r}, OfExisting(handler[x]), handler[x].check = handler[r].check
  PROVE  handler[r].op = "save" /\ handler[x].op = "edit"
<1> DEFINE e == check[handler[r].check].employee
<1>1. handler[r].op = "save" /\ handler[x].op \in {"edit", "save"}
  BY DEF Colliding, Working, OfExisting
<1>2. e \in Employees
  BY AtWork, CheckKinds DEF BaseInv
<1>3. HoldsLock(handler[r], e)
  BY <1>1 DEF HoldsLock
<1>4. ~HoldsLock(handler[x], e)
  BY <1>2, <1>3 DEF BaseInv, HandlersApart, Apart
<1> QED
  BY <1>1, <1>4 DEF HoldsLock

LEMMA EntriesStays == BaseInv /\ EntriesInv /\ [ChecksNext]_checkVars => EntriesInv'
<1> SUFFICES ASSUME BaseInv, EntriesInv, [ChecksNext]_checkVars PROVE EntriesInv'
  OBVIOUS
<1>1. ASSUME NEW r \in Handlers, NEW p \in Paychecks, NEW e \in Employees,
             NEW d \in CheckDates, NEW w \in Wages, Create(r, p, e, d, w)
      PROVE  EntriesInv'
  BY <1>1, EntriesSlot DEF Create, Begin, FollowsOK, OfExisting
<1>2. ASSUME NEW r \in Handlers, NEW p \in Paychecks, NEW d \in CheckDates, NEW w \in Wages,
             Edit(r, p, d, w)
      PROVE  EntriesInv'
  BY <1>2, EntriesSlot DEF Edit, Begin, Editable, FollowsOK, OfExisting, Live
<1>3. ASSUME NEW r \in Handlers, NEW p \in Paychecks, Repost(r, p) \/ Delete(r, p)
      PROVE  EntriesInv'
  BY <1>3, EntriesSlot DEF Repost, Delete, Begin, Editable, FollowsOK, OfExisting, Live
<1>4. ASSUME NEW r \in Handlers, Number(r) PROVE EntriesInv'
  BY <1>4, EntriesSlot DEF Number, Continue, FollowsOK, OfExisting
<1>5. ASSUME NEW r \in Handlers, EditLocked(r) PROVE EntriesInv'
  <2>1. FollowsOK(handler[r])
    BY DEF EntriesInv
  <2>2. PICK q \in Handler :
          /\ handler' = [handler EXCEPT ![r] = q]
          /\ q.op = "save" /\ q.check = handler[r].check /\ q.old = gl[q.check]
    BY <1>5, EditLockedBase
  <2>3. FollowsOK(q)
    BY <1>5, <2>1, <2>2, EditLockedBase DEF FollowsOK, OfExisting
  <2> QED
    BY <1>5, <2>2, <2>3, EntriesSlot DEF EditLocked
<1>6. ASSUME NEW r \in Handlers, RepostDelete(r) PROVE EntriesInv'
  <2>1. FollowsOK(handler[r]) /\ handler[r].op = "repost"
    BY <1>6 DEF EntriesInv, RepostDelete, Working
  <2>2. PICK q \in Handler :
          /\ handler' = [handler EXCEPT ![r] = q]
          /\ q.op = "replace" /\ q.check = handler[r].check
          /\ q.pay = handler[r].pay /\ q.old = gl[q.check]
    BY <1>6, RepostDeleteBase
  <2>3. FollowsOK(q)
    BY <2>1, <2>2 DEF FollowsOK, OfExisting
  <2> QED
    BY <1>6, <2>2, <2>3, EntriesSlot DEF RepostDelete
<1>7. ASSUME NEW r \in Handlers, DeleteEntries(r) PROVE EntriesInv'
  <2>1. FollowsOK(handler[r]) /\ handler[r].op = "delete"
    BY <1>7 DEF EntriesInv, DeleteEntries, Working
  <2>2. PICK q \in Handler :
          /\ handler' = [handler EXCEPT ![r] = q]
          /\ q.op = "remove" /\ q.check = handler[r].check /\ q.old = gl[q.check]
    BY <1>7, DeleteEntriesBase
  <2>3. FollowsOK(q)
    BY <2>1, <2>2 DEF FollowsOK, OfExisting
  <2> QED
    BY <1>7, <2>2, <2>3, EntriesSlot DEF DeleteEntries
<1>8. ASSUME NEW r \in Handlers, RollBack(r) PROVE EntriesInv'
  BY <1>8, EntriesSlot DEF RollBack, Done, FollowsOK, OfExisting, IdleHandler
<1>9. ASSUME NEW r \in Handlers, CreateCommit(r) PROVE EntriesInv'
  <2>0. PICK p \in Paychecks, row \in CheckRow : p = handler[r].check /\ row = handler[r].row
    BY <1>9, CreateCommitBase
  <2>1. /\ IsNew(handler[r]) /\ check[p].status = "None"
        /\ Commits(r, p) /\ check'[p] = row /\ row.status = "Created"
    BY <1>9, <2>0, CreateCommitBase DEF IsNew
  <2>2. PICK n \in 1..MaxEntries : gl'[p] = {[id |-> n, pay |-> row.pay]}
    BY <1>9, <2>0, CreateCommitBase
  <2>3. EntriesOK(p)'
    BY <2>1, <2>2 DEF EntriesOK, Live
  <2>4. \A x \in Handlers \ {r} : OfExisting(handler[x]) => handler[x].check # p
    BY <2>1, AtWork
  <2> QED
    BY <2>0, <2>1, <2>3, <2>4, EntriesCommit
<1>10. ASSUME NEW r \in Handlers, EditCommit(r) PROVE EntriesInv'
  <2>0. PICK p \in Paychecks : p = handler[r].check
    BY <1>10, EditCommitBase
  <2>1. /\ handler[r].op = "save" /\ OfExisting(handler[r])
        /\ Commits(r, p) /\ Note(r, {"edited"})
        /\ Live(p) => check'[p].status = check[p].status /\ check'[p].pay = handler[r].pay
    BY <1>10, <2>0, EditCommitBase DEF OfExisting
  <2>2. PICK n \in 1..MaxEntries :
          gl'[p] = (gl[p] \ handler[r].old) \cup {[id |-> n, pay |-> handler[r].pay]}
    BY <1>10, <2>0, EditCommitBase
  <2>3. "collided" \notin hist'[p] => "collided" \notin hist[p] /\ ~Colliding(r)
    BY <2>0, <2>1, NoteEffect
  <2>4. "collided" \notin hist'[p] =>
          /\ Live(p) /\ Live(p)' /\ handler[r].old = gl[p]
          /\ gl'[p] = {[id |-> n, pay |-> check'[p].pay]}
    BY <2>0, <2>1, <2>2, <2>3 DEF EntriesInv, FollowsOK, Live
  <2>5. EntriesOK(p)'
    BY <2>4 DEF EntriesOK
  <2>6. \A x \in Handlers \ {r} :
          OfExisting(handler[x]) /\ handler[x].check = p /\ "collided" \notin hist'[p] =>
            handler[x].op = "edit" /\ Live(p)'
    BY <2>0, <2>1, <2>3, <2>4, NotColliding
  <2> QED
    BY <2>0, <2>1, <2>5, <2>6, EntriesCommit
<1>11. ASSUME NEW r \in Handlers, RepostCommit(r) PROVE EntriesInv'
  <2>0. PICK p \in Paychecks : p = handler[r].check
    BY <1>11, RepostCommitBase
  <2>1. /\ handler[r].op = "replace" /\ OfExisting(handler[r])
        /\ Commits(r, p) /\ Note(r, {}) /\ check' = check
    BY <1>11, <2>0, RepostCommitBase DEF OfExisting
  <2>2. PICK n \in 1..MaxEntries :
          gl'[p] = (gl[p] \ handler[r].old) \cup {[id |-> n, pay |-> handler[r].pay]}
    BY <1>11, <2>0, RepostCommitBase
  <2>3. "collided" \notin hist'[p] => "collided" \notin hist[p] /\ ~Colliding(r)
    BY <2>0, <2>1, NoteEffect
  <2>4. "collided" \notin hist'[p] => gl'[p] = {[id |-> n, pay |-> check'[p].pay]} /\ Live(p)'
    BY <2>0, <2>1, <2>2, <2>3 DEF EntriesInv, FollowsOK, Live
  <2>5. EntriesOK(p)'
    BY <2>4 DEF EntriesOK
  <2>6. \A x \in Handlers \ {r} :
          OfExisting(handler[x]) /\ handler[x].check = p => "collided" \in hist'[p]
    BY <2>0, <2>1, <2>3, NotColliding
  <2> QED
    BY <2>0, <2>1, <2>5, <2>6, EntriesCommit
<1>12. ASSUME NEW r \in Handlers, DeleteCommit(r) PROVE EntriesInv'
  <2>0. PICK p \in Paychecks : p = handler[r].check
    BY <1>12, DeleteCommitBase
  <2>1. /\ handler[r].op = "remove" /\ OfExisting(handler[r])
        /\ Commits(r, p) /\ Note(r, {}) /\ check'[p] = Deleted(check[p].employee)
        /\ gl'[p] = gl[p] \ handler[r].old
    BY <1>12, <2>0, DeleteCommitBase DEF OfExisting
  <2>2. "collided" \notin hist'[p] => "collided" \notin hist[p] /\ ~Colliding(r)
    BY <2>0, <2>1, NoteEffect
  <2>3. "collided" \notin hist'[p] => gl'[p] = {}
    BY <2>0, <2>1, <2>2 DEF EntriesInv, FollowsOK
  <2>4. EntriesOK(p)'
    BY <2>0, <2>1, <2>3 DEF EntriesOK, Live, Deleted
  <2>5. \A x \in Handlers \ {r} :
          OfExisting(handler[x]) /\ handler[x].check = p => "collided" \in hist'[p]
    BY <2>0, <2>1, <2>2, NotColliding
  <2> QED
    BY <2>0, <2>1, <2>4, <2>5, EntriesCommit
<1>13. ASSUME NEW p \in Paychecks, MarkPrinted(p) PROVE EntriesInv'
  <2>1. /\ UNCHANGED <<gl, handler, hist>>
        /\ \A x \in Paychecks : x # p => check'[x] = check[x]
        /\ Live(p) /\ check'[p].status = "Printed" /\ check'[p].pay = check[p].pay
    BY <1>13, MarkPrintedBase
  <2>2. \A x \in Paychecks : (Live(x)' <=> Live(x)) /\ check'[x].pay = check[x].pay
    BY <2>1 DEF Live
  <2>3. ASSUME NEW x \in Paychecks PROVE EntriesOK(x)'
    BY <2>1, <2>2 DEF EntriesInv, EntriesOK
  <2>4. ASSUME NEW r \in Handlers PROVE FollowsOK(handler[r])'
    BY <2>1, <2>2, AtWork DEF EntriesInv, FollowsOK, OfExisting
  <2> QED
    BY <2>3, <2>4 DEF EntriesInv
<1>14. ASSUME UNCHANGED checkVars PROVE EntriesInv'
  BY <1>14 DEF checkVars, EntriesInv, EntriesOK, FollowsOK, OfExisting, Live
<1> QED
  BY <1>1, <1>2, <1>3, <1>4, <1>5, <1>6, <1>7, <1>8, <1>9, <1>10, <1>11, <1>12, <1>13, <1>14
  DEF ChecksNext

LEMMA EntriesAtFirst == ChecksInit => EntriesInv
  BY DEF ChecksInit, EntriesInv, EntriesOK, FollowsOK, OfExisting, IdleHandler, Live, NoCheck

\* A paycheck has one ledger entry, with its own figures, and a deleted one has
\* none, for any number of paychecks and handlers in flight: edits, reposts and
\* deletes read the paycheck before their transaction and delete the entries they
\* find, and only a commit that overlaps another of the paycheck can go wrong.
THEOREM LedgerFollows == ChecksSpec => []LedgerFollowsChecks
<1>1. EntriesInv => LedgerFollowsChecks
  BY DEF EntriesInv, EntriesOK, LedgerFollowsChecks
<1> QED
  BY <1>1, BaseAtFirst, BaseStays, EntriesAtFirst, EntriesStays, PTL DEF ChecksSpec

-----------------------------------------------------------------------------
(***************************************************************************)
(* Numbers and dates: what the handler that numbers, under the client's    *)
(* lock, and the handlers that create, under the employee's, have read is  *)
(* still so when they commit                                               *)
(***************************************************************************)
NoneDeleted == \A p \in Paychecks : check[p].status # "Deleted"

SetApart(p, q) ==
  p # q /\ Live(p) /\ Live(q) =>
    /\ NoneDeleted => check[p].number # check[q].number
    /\ check[p].employee = check[q].employee /\ "edited" \notin hist[p] \cup hist[q] =>
         check[p].date # check[q].date
WithinCount(p) == NoneDeleted /\ Live(p) => check[p].number <= Cardinality(LiveChecks)

NumberOK(q) == NoneDeleted /\ q.op = "insert" => q.row.number = 1 + Cardinality(LiveChecks)
DateOK(q) ==
  IsNew(q) =>
    \A p \in Paychecks :
      Live(p) /\ check[p].employee = q.row.employee /\ "edited" \notin hist[p] =>
        check[p].date # q.row.date

ApartInv ==
  /\ \A p, q \in Paychecks : SetApart(p, q)
  /\ \A p \in Paychecks : WithinCount(p)
  /\ \A r \in Handlers : NumberOK(handler[r]) /\ DateOK(handler[r])

\* A step that moves no date but as an edit.
KeepsRows ==
  \A p \in Paychecks :
    /\ Live(p)' <=> Live(p)
    /\ check'[p].status = "Deleted" <=> check[p].status = "Deleted"
    /\ hist[p] \subseteq hist'[p]
    /\ Live(p) => /\ check'[p].employee = check[p].employee
                  /\ check'[p].number = check[p].number
                  /\ check'[p].date = check[p].date \/ "edited" \in hist'[p]

LEMMA ApartKept ==
  ASSUME ApartInv, KeepsRows,
         \A r \in Handlers : NumberOK(handler'[r]) /\ DateOK(handler'[r])
  PROVE  ApartInv'
<1>1. NoneDeleted' <=> NoneDeleted
  BY DEF KeepsRows, NoneDeleted
<1>2. LiveChecks' = LiveChecks
  BY DEF KeepsRows, LiveChecks
<1>3. ASSUME NEW p \in Paychecks, NEW q \in Paychecks PROVE SetApart(p, q)'
  <2>1. SetApart(p, q)
    BY DEF ApartInv
  <2>2. /\ Live(p)' <=> Live(p)
        /\ Live(q)' <=> Live(q)
    BY DEF KeepsRows
  <2>3. p # q /\ Live(p) /\ Live(q) /\ NoneDeleted' => check'[p].number # check'[q].number
    BY <1>1, <2>1 DEF SetApart, KeepsRows
  <2>4. p # q /\ Live(p) /\ Live(q) /\ check'[p].employee = check'[q].employee
          /\ "edited" \notin hist'[p] \cup hist'[q] => check'[p].date # check'[q].date
    BY <2>1 DEF SetApart, KeepsRows
  <2> QED
    BY <2>2, <2>3, <2>4 DEF SetApart
<1>4. ASSUME NEW p \in Paychecks PROVE WithinCount(p)'
  BY <1>1, <1>2 DEF ApartInv, WithinCount, KeepsRows
<1>5. ASSUME NEW r \in Handlers PROVE NumberOK(handler[r])' /\ DateOK(handler[r])'
  <2>1. NumberOK(handler[r])'
    BY <1>1, <1>2 DEF NumberOK
  <2>2. DateOK(handler[r])'
    BY DEF DateOK, IsNew, KeepsRows
  <2> QED
    BY <2>1, <2>2
<1> QED
  BY <1>3, <1>4, <1>5 DEF ApartInv

LEMMA ApartSlot ==
  ASSUME BaseInv, ApartInv, NEW r \in Handlers, NEW q,
         handler' = [handler EXCEPT ![r] = q], UNCHANGED <<check, gl, hist>>,
         NumberOK(q), DateOK(q)
  PROVE  ApartInv'
<1>1. \A x \in Handlers : handler'[x] = IF x = r THEN q ELSE handler[x]
  BY DEF BaseInv, ChecksTypeOK
<1>2. KeepsRows
  BY DEF KeepsRows, Live
<1>3. \A x \in Handlers : NumberOK(handler'[x]) /\ DateOK(handler'[x])
  BY <1>1 DEF ApartInv
<1> QED
  BY <1>2, <1>3, ApartKept

LEMMA ApartCommit ==
  ASSUME BaseInv, ApartInv, NEW r \in Handlers, NEW p \in Paychecks, Commits(r, p),
         handler[r].check = p, IsNew(handler[r]) \/ OfExisting(handler[r]), KeepsRows
  PROVE  ApartInv'
<1>1. \A x \in Handlers : handler'[x] = IF x = r THEN IdleHandler ELSE handler[x]
  BY CommitStep
<1>2. NumberOK(IdleHandler) /\ DateOK(IdleHandler)
  BY DEF NumberOK, DateOK, IsNew, IdleHandler
<1>3. \A x \in Handlers : NumberOK(handler'[x]) /\ DateOK(handler'[x])
  BY <1>1, <1>2 DEF ApartInv
<1> QED
  BY <1>3, ApartKept

LEMMA ApartCreated ==
  ASSUME BaseInv, ApartInv, NEW r \in Handlers, CreateCommit(r)
  PROVE  ApartInv'
<1>1. PICK p \in Paychecks, row \in CheckRow : p = handler[r].check /\ row = handler[r].row
  BY CreateCommitBase
<1>2. /\ handler[r].op = "insert" /\ IsNew(handler[r])
      /\ check[p].status = "None" /\ row.status = "Created"
      /\ Commits(r, p) /\ check'[p] = row /\ hist' = hist
  BY <1>1, CreateCommitBase DEF IsNew
<1>3. \A x \in Handlers : handler'[x] = IF x = r THEN IdleHandler ELSE handler[x]
  BY <1>1, <1>2, CommitStep
<1>4. /\ ~Live(p) /\ Live(p)'
      /\ \A x \in Paychecks : x # p => check'[x] = check[x] /\ (Live(x)' <=> Live(x))
  BY <1>2 DEF Live, Commits, WritesRow
<1>5. NoneDeleted' => NoneDeleted
  BY <1>2, <1>4 DEF NoneDeleted
<1>6. /\ LiveChecks' = LiveChecks \cup {p}
      /\ Cardinality(LiveChecks) \in Nat
      /\ Cardinality(LiveChecks') = Cardinality(LiveChecks) + 1
  <2>1. LiveChecks' = LiveChecks \cup {p} /\ p \notin LiveChecks
    BY <1>4 DEF LiveChecks
  <2>2. IsFiniteSet(LiveChecks)
    BY DEF BaseInv
  <2> QED
    BY <2>1, <2>2, FS_AddElement, FS_CardinalityType
<1>7. NumberOK(handler[r]) /\ DateOK(handler[r])
  BY DEF ApartInv
<1>8. NoneDeleted => row.number = 1 + Cardinality(LiveChecks)
  BY <1>1, <1>2, <1>7 DEF NumberOK
<1>9. \A x \in Paychecks : NoneDeleted /\ Live(x) => check[x].number <= Cardinality(LiveChecks)
                                                     /\ check[x].number \in Nat
  BY CheckKinds, RowFields DEF ApartInv, WithinCount, BaseInv
<1>10. \A x \in Paychecks : x # p /\ Live(x) =>
         /\ NoneDeleted => check[x].number # row.number
         /\ check[x].employee = row.employee /\ "edited" \notin hist[x] =>
              check[x].date # row.date
  <2>1. \A x \in Paychecks : Live(x) /\ NoneDeleted => check[x].number # row.number
    BY <1>6, <1>8, <1>9
  <2>2. \A x \in Paychecks :
          Live(x) /\ check[x].employee = row.employee /\ "edited" \notin hist[x] =>
            check[x].date # row.date
    BY <1>1, <1>2, <1>7 DEF DateOK
  <2> QED
    BY <2>1, <2>2
<1>11. ASSUME NEW x \in Paychecks, NEW y \in Paychecks PROVE SetApart(x, y)'
  <2>1. SetApart(x, y)
    BY DEF ApartInv
  <2>2. CASE x # p /\ y # p
    BY <1>2, <1>4, <1>5, <2>1, <2>2 DEF SetApart
  <2>3. CASE x = p
    BY <1>2, <1>4, <1>5, <1>10, <2>3 DEF SetApart
  <2>4. CASE y = p
    BY <1>2, <1>4, <1>5, <1>10, <2>4 DEF SetApart
  <2> QED
    BY <2>2, <2>3, <2>4
<1>12. ASSUME NEW x \in Paychecks PROVE WithinCount(x)'
  <2>1. NoneDeleted' /\ Live(x)' => check'[x].number <= Cardinality(LiveChecks) + 1
    BY <1>2, <1>4, <1>5, <1>6, <1>8, <1>9
  <2> QED
    BY <1>6, <2>1 DEF WithinCount
<1>13. ASSUME NEW x \in Handlers PROVE NumberOK(handler[x])' /\ DateOK(handler[x])'
  <2> SUFFICES ASSUME x # r PROVE NumberOK(handler[x])' /\ DateOK(handler[x])'
    BY <1>3 DEF NumberOK, DateOK, IsNew, IdleHandler
  <2>1. handler'[x] = handler[x] /\ DateOK(handler[x]) /\ Apart(handler[r], handler[x])
    BY <1>3 DEF ApartInv, BaseInv, HandlersApart
  <2>2. handler[x].op # "insert"
    BY <1>2, <2>1 DEF Apart
  <2>3. IsNew(handler[x]) => handler[x].row.employee # row.employee
    BY <1>1, <1>2, <2>1, RowFields DEF Apart, HoldsLock
  <2>4. NumberOK(handler[x])'
    BY <2>1, <2>2 DEF NumberOK
  <2>5. DateOK(handler[x])'
    BY <1>2, <1>4, <2>1, <2>3 DEF DateOK, IsNew
  <2> QED
    BY <2>4, <2>5
<1> QED
  BY <1>11, <1>12, <1>13 DEF ApartInv

LEMMA ApartDeleted ==
  ASSUME BaseInv, ApartInv, NEW r \in Handlers, DeleteCommit(r)
  PROVE  ApartInv'
<1>1. PICK p \in Paychecks : p = handler[r].check
  BY DeleteCommitBase
<1>2. /\ handler[r].op = "remove" /\ OfExisting(handler[r])
      /\ Commits(r, p) /\ Note(r, {}) /\ check'[p] = Deleted(check[p].employee)
  BY <1>1, DeleteCommitBase DEF OfExisting
<1>3. \A x \in Handlers : handler'[x] = IF x = r THEN IdleHandler ELSE handler[x]
  BY <1>1, <1>2, CommitStep
<1>4. ~NoneDeleted' /\ ~Live(p)'
  BY <1>2 DEF NoneDeleted, Deleted, Live
<1>5. /\ \A x \in Paychecks : x # p => check'[x] = check[x] /\ (Live(x)' <=> Live(x))
      /\ \A x \in Paychecks : x # p => hist'[x] = hist[x]
  BY <1>2 DEF Live, Commits, WritesRow
<1>6. ASSUME NEW x \in Paychecks, NEW y \in Paychecks PROVE SetApart(x, y)'
  BY <1>4, <1>5 DEF SetApart, ApartInv
<1>7. ASSUME NEW x \in Paychecks PROVE WithinCount(x)'
  BY <1>4 DEF WithinCount
<1>8. ASSUME NEW x \in Handlers PROVE NumberOK(handler[x])' /\ DateOK(handler[x])'
  <2> SUFFICES ASSUME x # r PROVE DateOK(handler[x])'
    BY <1>3, <1>4 DEF NumberOK, DateOK, IsNew, IdleHandler
  <2>1. handler'[x] = handler[x] /\ DateOK(handler[x])
    BY <1>3 DEF ApartInv
  <2> QED
    BY <1>4, <1>5, <2>1 DEF DateOK, IsNew
<1> QED
  BY <1>6, <1>7, <1>8 DEF ApartInv

LEMMA ApartStays == BaseInv /\ ApartInv /\ [ChecksNext]_checkVars => ApartInv'
<1> SUFFICES ASSUME BaseInv, ApartInv, [ChecksNext]_checkVars PROVE ApartInv'
  OBVIOUS
<1>1. ASSUME NEW r \in Handlers, NEW p \in Paychecks, NEW e \in Employees,
             NEW d \in CheckDates, NEW w \in Wages, Create(r, p, e, d, w)
      PROVE  ApartInv'
  <2> DEFINE pay == Taxed(e, p, w)
             row == [status |-> "Created", employee |-> e, date |-> d, pay |-> pay, number |-> 0]
             q == [op |-> "create", check |-> p, row |-> row]
  <2>1. handler' = [handler EXCEPT ![r] = q] /\ UNCHANGED <<check, gl, hist>>
    BY <1>1 DEF Create, Begin
  <2> HIDE DEF pay
  <2>2. q.op = "create" /\ q.row.employee = e /\ q.row.date = d
    OBVIOUS
  <2> HIDE DEF q
  <2>3. ~TakenDate(e, d)
    BY <1>1 DEF Create
  <2>4. NumberOK(q)
    BY <2>2 DEF NumberOK
  <2>5. DateOK(q)
    BY <2>2, <2>3 DEF DateOK, TakenDate, LiveOf
  <2> QED
    BY <2>1, <2>4, <2>5, ApartSlot
<1>2. ASSUME NEW r \in Handlers, NEW p \in Paychecks, NEW d \in CheckDates, NEW w \in Wages,
             Edit(r, p, d, w)
      PROVE  ApartInv'
  BY <1>2, ApartSlot DEF Edit, Begin, NumberOK, DateOK, IsNew
<1>3. ASSUME NEW r \in Handlers, NEW p \in Paychecks, Repost(r, p) \/ Delete(r, p)
      PROVE  ApartInv'
  BY <1>3, ApartSlot DEF Repost, Delete, Begin, NumberOK, DateOK, IsNew
<1>4. ASSUME NEW r \in Handlers, Number(r) PROVE ApartInv'
  <2>1. PICK q \in Handler :
          /\ handler' = [handler EXCEPT ![r] = q]
          /\ q.op = "insert"
          /\ q.row.employee = handler[r].row.employee /\ q.row.date = handler[r].row.date
          /\ q.row.number = 1 + Cardinality(LiveChecks)
    BY <1>4, NumberBase
  <2>2. DateOK(handler[r]) /\ IsNew(handler[r])
    BY <1>4 DEF ApartInv, Number, Working, IsNew
  <2>3. NumberOK(q) /\ DateOK(q)
    BY <2>1, <2>2 DEF NumberOK, DateOK
  <2> QED
    BY <1>4, <2>1, <2>3, ApartSlot DEF Number
<1>5. ASSUME NEW r \in Handlers,
             EditLocked(r) \/ RepostDelete(r) \/ DeleteEntries(r) \/ RollBack(r)
      PROVE  ApartInv'
  BY <1>5, ApartSlot
  DEF EditLocked, RepostDelete, DeleteEntries, RollBack, Continue, Done, NumberOK, DateOK,
      IsNew, IdleHandler
<1>6. ASSUME NEW r \in Handlers, EditCommit(r) PROVE ApartInv'
  <2>1. PICK p \in Paychecks : p = handler[r].check
    BY <1>6, EditCommitBase
  <2>2. /\ OfExisting(handler[r]) /\ Commits(r, p) /\ Note(r, {"edited"})
        /\ Live(p) => /\ check'[p].status = check[p].status
                      /\ check'[p].employee = check[p].employee
                      /\ check'[p].number = check[p].number
        /\ ~Live(p) => check' = check
    BY <1>6, <2>1, EditCommitBase DEF OfExisting
  <2>3. "edited" \in hist'[p] /\ hist[p] \subseteq hist'[p]
    BY <2>1, <2>2, NoteEffect
  <2>4. KeepsRows
    BY <2>2, <2>3 DEF KeepsRows, Commits, WritesRow, Live
  <2> QED
    BY <2>1, <2>2, <2>4, ApartCommit
<1>7. ASSUME NEW r \in Handlers, RepostCommit(r) PROVE ApartInv'
  <2>1. PICK p \in Paychecks : p = handler[r].check
    BY <1>7, RepostCommitBase
  <2>2. /\ OfExisting(handler[r]) /\ Commits(r, p) /\ Note(r, {}) /\ check' = check
    BY <1>7, <2>1, RepostCommitBase DEF OfExisting
  <2>3. hist[p] \subseteq hist'[p]
    BY <2>1, <2>2, NoteEffect
  <2>4. KeepsRows
    BY <2>2, <2>3 DEF KeepsRows, Commits, Live
  <2> QED
    BY <2>1, <2>2, <2>4, ApartCommit
<1>8. ASSUME NEW p \in Paychecks, MarkPrinted(p) PROVE ApartInv'
  <2>1. KeepsRows /\ handler' = handler
    BY <1>8, MarkPrintedBase DEF KeepsRows, Live
  <2> QED
    BY <2>1, ApartKept DEF ApartInv
<1>9. ASSUME UNCHANGED checkVars PROVE ApartInv'
  <2>1. KeepsRows /\ handler' = handler
    BY <1>9 DEF checkVars, KeepsRows, Live
  <2> QED
    BY <2>1, ApartKept DEF ApartInv
<1> QED
  BY <1>1, <1>2, <1>3, <1>4, <1>5, <1>6, <1>7, <1>8, <1>9, ApartCreated, ApartDeleted
  DEF ChecksNext

LEMMA ApartAtFirst == ChecksInit => ApartInv
  BY DEF ChecksInit, ApartInv, SetApart, WithinCount, NumberOK, DateOK, IsNew, IdleHandler, Live,
         NoCheck

\* No two paychecks are taken for one another, for any number of creations in
\* flight: numbers are counted under the client's lock and dates tested under the
\* employee's, each held until the paycheck is committed.
THEOREM StayApart == ChecksSpec => []ChecksStayApart
<1>1. ApartInv => ChecksStayApart
  BY DEF ApartInv, SetApart, NoneDeleted, ChecksStayApart, NumbersDiffer, OneCheckPerDate, LiveOf
<1> QED
  BY <1>1, BaseAtFirst, BaseStays, ApartAtFirst, ApartStays, PTL DEF ChecksSpec

-----------------------------------------------------------------------------
(***************************************************************************)
(* Wages: under the employee's lock, what a creation in flight will add to *)
(* the taxed wages of the year still fits, and so does what an edit in     *)
(* flight will put in the place of its paycheck's figures                  *)
(***************************************************************************)
Figures == {"wages", "futa", "ss"}
Taxes == {"futa", "ss"}
Total(figure, e) == YearToDate(figure, LiveOf(e))
Rest(figure, e, p) == YearToDate(figure, LiveOf(e) \ {p})
Taxable(wages) == IF WageCap <= wages THEN WageCap ELSE wages

Untouched(e) ==
  \A p \in Paychecks : check[p] # Deleted(e) /\ (p \in LiveOf(e) => "edited" \notin hist[p])

Within(pay) == \A tax \in Taxes : pay[tax] <= pay.wages
CapOK(e) ==
  \A tax \in Taxes :
    /\ Total(tax, e) <= WageCap
    /\ Untouched(e) => Total(tax, e) = Taxable(Total("wages", e))

NewOK(q) ==
  IsNew(q) =>
    /\ Within(q.row.pay)
    /\ \A tax \in Taxes :
         /\ Total(tax, q.row.employee) + q.row.pay[tax] <= WageCap
         /\ Untouched(q.row.employee) =>
              Total(tax, q.row.employee) + q.row.pay[tax]
                = Taxable(Total("wages", q.row.employee) + q.row.pay.wages)
SaveOK(q) ==
  q.op = "save" =>
    /\ Within(q.pay)
    /\ \A tax \in Taxes :
         Rest(tax, check[q.check].employee, q.check) + q.pay[tax] <= WageCap

WagesInv ==
  /\ \A p \in Paychecks : Live(p) => Within(check[p].pay)
  /\ \A e \in Employees : CapOK(e)
  /\ \A r \in Handlers : NewOK(handler[r]) /\ SaveOK(handler[r])

LEMMA RestKept ==
  ASSUME NEW S, IsFiniteSet(S), NEW figure, NEW e, NEW q, (LiveOf(e) \ {q})' = S,
         \A p \in S : check'[p].pay = check[p].pay
  PROVE  Rest(figure, e, q)' = YearToDate(figure, S)
<1> DEFINE g == [p \in S |-> check'[p].pay[figure]]
           f == [p \in S |-> check[p].pay[figure]]
<1>1. \A p \in S : g[p] = f[p]
  OBVIOUS
<1>2. Rest(figure, e, q)' = SumFunctionOnSet(g, S)
  BY DEF Rest, YearToDate
<1> HIDE DEF g, f
<1>3. SumFunctionOnSet(g, S) = SumFunctionOnSet(f, S)
  BY <1>1, SumSame
<1> QED
  BY <1>2, <1>3 DEF YearToDate, f

\* The sums of an employee's year, with and without one paycheck.
LEMMA TotalFacts ==
  ASSUME BaseInv, NEW e, NEW figure \in Figures, NEW p
  PROVE  /\ Total(figure, e) \in Nat /\ Rest(figure, e, p) \in Nat
         /\ p \in LiveOf(e) => /\ check[p].pay[figure] \in Nat
                               /\ Total(figure, e) = check[p].pay[figure] + Rest(figure, e, p)
         /\ p \notin LiveOf(e) => Rest(figure, e, p) = Total(figure, e)
<1> DEFINE S == LiveOf(e)
<1>1. /\ IsFiniteSet(S) /\ IsFiniteSet(S \ {p})
      /\ \A q \in S : q \in Paychecks /\ Live(q)
  BY LiveOfFinite DEF BaseInv
<1>2. \A q \in S : check[q].pay[figure] \in Nat
  BY <1>1, LiveFigures DEF BaseInv, Figures
<1> HIDE DEF S
<1>3. YearToDate(figure, S) \in Nat /\ YearToDate(figure, S \ {p}) \in Nat
  BY <1>1, <1>2, YearToDateNat
<1>4. p \in S => YearToDate(figure, S) = check[p].pay[figure] + YearToDate(figure, S \ {p})
  BY <1>1, <1>2, YearToDateWithout
<1>5. p \notin S => S \ {p} = S
  OBVIOUS
<1> QED
  BY <1>2, <1>3, <1>4, <1>5 DEF Total, Rest, S

\* Never more is taxed than was earned.
LEMMA TaxedWithinWages ==
  ASSUME BaseInv, WagesInv, NEW e, NEW tax \in Taxes, NEW p
  PROVE  Total(tax, e) <= Total("wages", e) /\ Rest(tax, e, p) <= Rest("wages", e, p)
<1> DEFINE S == LiveOf(e)
<1>1. /\ IsFiniteSet(S) /\ IsFiniteSet(S \ {p})
      /\ \A q \in S : q \in Paychecks /\ Live(q)
  BY LiveOfFinite DEF BaseInv
<1>2. \A q \in S : /\ check[q].pay[tax] \in Nat /\ check[q].pay["wages"] \in Nat
                   /\ check[q].pay[tax] <= check[q].pay["wages"]
  BY <1>1, LiveFigures DEF BaseInv, Taxes, WagesInv, Within
<1> HIDE DEF S
<1>3. YearToDate(tax, S) <= YearToDate("wages", S)
  BY <1>1, <1>2, YearToDateLeq
<1>4. YearToDate(tax, S \ {p}) <= YearToDate("wages", S \ {p})
  BY <1>1, <1>2, YearToDateLeq
<1> QED
  BY <1>3, <1>4 DEF Total, Rest, S

\* What the taxes computed under the lock add to the year.
LEMMA TaxedFits ==
  ASSUME BaseInv, WagesInv, NEW e \in Employees, NEW p, NEW wages \in Wages
  PROVE  /\ Taxed(e, p, wages).wages = wages /\ Within(Taxed(e, p, wages))
         /\ \A tax \in Taxes :
              /\ Rest(tax, e, p) + Taxed(e, p, wages)[tax] <= WageCap
              /\ p \notin LiveOf(e) /\ Untouched(e) =>
                   Total(tax, e) + Taxed(e, p, wages)[tax]
                     = Taxable(Total("wages", e) + wages)
<1> DEFINE W == Rest("wages", e, p)
           F == Rest("futa", e, p)
           S == Rest("ss", e, p)
           futa == Capped(wages, W)
           ss == Capped(wages, S)
<1>1. wages \in Nat /\ wages > 0 /\ WageCap \in Nat
  BY WagesAssumption
<1>2. W \in Nat /\ F \in Nat /\ S \in Nat
  BY TotalFacts DEF Figures
<1>3. F <= W /\ S <= W
  BY TaxedWithinWages DEF Taxes
<1>4. F <= WageCap /\ S <= WageCap
  <2>1. \A tax \in Taxes : Total(tax, e) <= WageCap /\ Rest(tax, e, p) <= Total(tax, e)
    <3> SUFFICES ASSUME NEW tax \in Taxes
                 PROVE  Total(tax, e) <= WageCap /\ Rest(tax, e, p) <= Total(tax, e)
      OBVIOUS
    <3>1. tax \in Figures
      BY DEF Taxes, Figures
    <3>2. Total(tax, e) <= WageCap
      BY DEF WagesInv, CapOK
    <3>3. Rest(tax, e, p) <= Total(tax, e)
      BY <3>1, TotalFacts
    <3> QED
      BY <3>2, <3>3
  <2>2. \A tax \in Taxes : Total(tax, e) \in Nat /\ Rest(tax, e, p) \in Nat
    BY TotalFacts DEF Taxes, Figures
  <2> QED
    BY <1>1, <1>2, <2>1, <2>2 DEF Taxes
<1>5. Taxed(e, p, wages) = [wages |-> wages, futa |-> futa, ss |-> ss]
  BY DEF Taxed, Rest
<1>6. p \notin LiveOf(e) => /\ W = Total("wages", e) /\ F = Total("futa", e)
                            /\ S = Total("ss", e)
  BY TotalFacts DEF Figures
<1>7. p \notin LiveOf(e) /\ Untouched(e) => F = Taxable(W) /\ S = Taxable(W)
  BY <1>6 DEF WagesInv, CapOK, Taxes
<1> HIDE DEF W, F, S
<1>8. /\ futa \in Nat /\ futa <= wages
      /\ wages + W <= WageCap => futa = wages
      /\ wages + W > WageCap /\ W <= WageCap => futa = WageCap - W
      /\ W > WageCap => futa = 0
  BY <1>1, <1>2, CappedFacts
<1>9. /\ ss \in Nat /\ ss <= wages
      /\ wages + S <= WageCap => ss = wages
      /\ wages + S > WageCap /\ S <= WageCap => ss = WageCap - S
  BY <1>1, <1>2, CappedFacts
<1> HIDE DEF futa, ss
<1>10. F + futa <= WageCap /\ S + ss <= WageCap
  BY <1>1, <1>2, <1>3, <1>4, <1>8, <1>9
<1>11. F = Taxable(W) /\ S = Taxable(W) =>
         F + futa = Taxable(W + wages) /\ S + ss = Taxable(W + wages)
  BY <1>1, <1>2, <1>8, <1>9 DEF Taxable
<1> DEFINE pay == [wages |-> wages, futa |-> futa, ss |-> ss]
<1>12. /\ pay.wages = wages /\ pay["futa"] = futa /\ pay["ss"] = ss
  OBVIOUS
<1> HIDE DEF pay
<1>13. Within(pay)
  BY <1>8, <1>9, <1>12 DEF Within, Taxes
<1>14. \A tax \in Taxes : Rest(tax, e, p) + pay[tax] <= WageCap
  BY <1>10, <1>12 DEF Taxes, F, S
<1>15. p \notin LiveOf(e) /\ Untouched(e) =>
         \A tax \in Taxes : Total(tax, e) + pay[tax] = Taxable(Total("wages", e) + wages)
  BY <1>6, <1>7, <1>11, <1>12 DEF Taxes
<1> QED
  BY <1>5, <1>12, <1>13, <1>14, <1>15 DEF pay

-----------------------------------------------------------------------------
\* The sums stay for an employee whose paychecks keep their figures.
LEMMA TotalsKept ==
  ASSUME BaseInv, NEW e, LiveOf(e)' = LiveOf(e),
         \A x \in LiveOf(e) : check'[x].pay = check[x].pay
  PROVE  \A figure : /\ Total(figure, e)' = Total(figure, e)
                     /\ \A p : Rest(figure, e, p)' = Rest(figure, e, p)
<1> SUFFICES ASSUME NEW figure
             PROVE  /\ Total(figure, e)' = Total(figure, e)
                    /\ \A p : Rest(figure, e, p)' = Rest(figure, e, p)
  OBVIOUS
<1>1. IsFiniteSet(LiveOf(e)) /\ \A p : IsFiniteSet(LiveOf(e) \ {p})
  BY LiveOfFinite DEF BaseInv
<1>2. YearToDate(figure, LiveOf(e))' = YearToDate(figure, LiveOf(e))
  BY <1>1, YearToDateKept
<1>3. ASSUME NEW p PROVE Rest(figure, e, p)' = Rest(figure, e, p)
  <2>1. (LiveOf(e) \ {p})' = LiveOf(e) \ {p}
    OBVIOUS
  <2>2. Rest(figure, e, p)' = YearToDate(figure, LiveOf(e) \ {p})
    BY <1>1, <2>1, RestKept
  <2> QED
    BY <2>2 DEF Rest
<1> QED
  BY <1>2, <1>3 DEF Total

\* A step after which an employee's paychecks and their figures are as they were.
KeepsYear(e) ==
  /\ LiveOf(e)' = LiveOf(e)
  /\ \A x \in LiveOf(e) : check'[x].pay = check[x].pay
  /\ Untouched(e)' => Untouched(e)

LEMMA YearKept ==
  ASSUME BaseInv, WagesInv, NEW e, KeepsYear(e)
  PROVE  /\ e \in Employees => CapOK(e)'
         /\ \A q : NewOK(q) /\ (IsNew(q) => q.row.employee = e) => NewOK(q)'
         /\ \A q : SaveOK(q) /\ (q.op = "save" => /\ check[q.check].employee = e
                                                  /\ check'[q.check].employee = e)
                     => SaveOK(q)'
<1>1. \A figure : /\ Total(figure, e)' = Total(figure, e)
                  /\ \A p : Rest(figure, e, p)' = Rest(figure, e, p)
  BY TotalsKept DEF KeepsYear
<1>2. Untouched(e)' => Untouched(e)
  BY DEF KeepsYear
<1>3. e \in Employees => CapOK(e)'
  BY <1>1, <1>2 DEF WagesInv, CapOK
<1>4. ASSUME NEW q, NewOK(q), IsNew(q) => q.row.employee = e PROVE NewOK(q)'
  BY <1>1, <1>2, <1>4 DEF NewOK, IsNew
<1>5. ASSUME NEW q, SaveOK(q), q.op = "save" => /\ check[q.check].employee = e
                                                /\ check'[q.check].employee = e
      PROVE  SaveOK(q)'
  BY <1>1, <1>5 DEF SaveOK
<1> QED
  BY <1>3, <1>4, <1>5

LEMMA NewlyOK ==
  ASSUME BaseInv, WagesInv, NEW x, NEW e, NewOK(handler'[x]), SaveOK(handler'[x]),
         KeepsYear(e),
         IsNew(handler'[x]) => handler'[x].row.employee = e,
         handler'[x].op = "save" =>
           check[handler'[x].check].employee = e /\ check'[handler'[x].check].employee = e
  PROVE  NewOK(handler[x])' /\ SaveOK(handler[x])'
<1>1. \A q : /\ NewOK(q) /\ (IsNew(q) => q.row.employee = e) => NewOK(q)'
             /\ SaveOK(q) /\ (q.op = "save" => /\ check[q.check].employee = e
                                               /\ check'[q.check].employee = e)
                     => SaveOK(q)'
  BY YearKept
<1> QED
  BY <1>1 DEF IsNew

\* A step that keeps every paycheck's figures and employee.
KeepsFigures ==
  /\ \A x \in Paychecks : /\ Live(x)' <=> Live(x)
                          /\ Live(x) => check'[x].pay = check[x].pay
                          /\ check[x].status = "Deleted" => check'[x] = check[x]
                          /\ check[x].status # "None" => check'[x].employee = check[x].employee
                          /\ hist[x] \subseteq hist'[x]
  /\ \A r \in Handlers : handler'[r].op = "save" =>
       handler'[r].check \in Paychecks /\ check[handler'[r].check].status # "None"

LEMMA WagesKept ==
  ASSUME BaseInv, WagesInv, KeepsFigures,
         \A r \in Handlers : NewOK(handler'[r]) /\ SaveOK(handler'[r])
  PROVE  WagesInv'
<1>1. ASSUME NEW e PROVE KeepsYear(e)
  <2>1. LiveOf(e)' = LiveOf(e)
    BY DEF LiveOf, KeepsFigures, Live
  <2>2. \A x \in LiveOf(e) : check'[x].pay = check[x].pay
    BY DEF LiveOf, KeepsFigures
  <2>3. Untouched(e)' => Untouched(e)
    BY <2>1 DEF Untouched, KeepsFigures, Deleted
  <2> QED
    BY <2>1, <2>2, <2>3 DEF KeepsYear
<1>2. ASSUME NEW x \in Paychecks, Live(x)' PROVE Within(check[x].pay)'
  <2>1. Live(x) /\ check'[x].pay = check[x].pay
    BY <1>2 DEF KeepsFigures
  <2> QED
    BY <2>1 DEF WagesInv, Within
<1>3. ASSUME NEW e \in Employees PROVE CapOK(e)'
  BY <1>1, YearKept
<1>4. ASSUME NEW r \in Handlers PROVE NewOK(handler[r])' /\ SaveOK(handler[r])'
  <2>1. PICK e :
          /\ IsNew(handler'[r]) => handler'[r].row.employee = e
          /\ handler'[r].op = "save" =>
               check[handler'[r].check].employee = e /\ check'[handler'[r].check].employee = e
    BY DEF KeepsFigures, IsNew
  <2>2. KeepsYear(e)
    BY <1>1
  <2> QED
    BY <2>1, <2>2, NewlyOK
<1> QED
  BY <1>2, <1>3, <1>4 DEF WagesInv

LEMMA WagesSlot ==
  ASSUME BaseInv, WagesInv, NEW r \in Handlers, NEW q,
         handler' = [handler EXCEPT ![r] = q], UNCHANGED <<check, gl, hist>>,
         q.op = "save" => q.check \in Paychecks /\ check[q.check].status # "None",
         NewOK(q), SaveOK(q)
  PROVE  WagesInv'
<1>1. \A x \in Handlers : handler'[x] = IF x = r THEN q ELSE handler[x]
  BY DEF BaseInv, ChecksTypeOK
<1>2. \A x \in Handlers : handler[x].op = "save" =>
        handler[x].check \in Paychecks /\ check[handler[x].check].status # "None"
  BY AtWork DEF OfExisting
<1>3. KeepsFigures
  BY <1>1, <1>2 DEF KeepsFigures, Live
<1>4. \A x \in Handlers : NewOK(handler'[x]) /\ SaveOK(handler'[x])
  BY <1>1 DEF WagesInv
<1> QED
  BY <1>3, <1>4, WagesKept

\* The commit of one paycheck of employee e, for everybody else.
LEMMA WagesCommit ==
  ASSUME BaseInv, WagesInv, NEW r \in Handlers, NEW p \in Paychecks, NEW e, Commits(r, p),
         handler[r].check = p, IsNew(handler[r]) \/ OfExisting(handler[r]),
         check'[p].employee = e,
         Live(p)' => Within(check'[p].pay),
         CapOK(e)',
         \A x \in Handlers \ {r} :
           /\ IsNew(handler[x]) /\ handler[x].row.employee = e => NewOK(handler[x])'
           /\ handler[x].op = "save" /\ check[handler[x].check].employee = e =>
                SaveOK(handler[x])'
  PROVE  WagesInv'
<1>1. /\ \A x \in Paychecks : x # p => check'[x] = check[x] /\ hist'[x] = hist[x]
      /\ check'[p].status # "None"
      /\ check[p].status # "None" => check[p].employee = e
      /\ \A x \in Handlers : handler'[x] = IF x = r THEN IdleHandler ELSE handler[x]
  BY CommitStep DEF Commits, WritesRow
<1>2. ASSUME NEW f, f # e PROVE KeepsYear(f)
  <2>1. p \notin LiveOf(f) /\ p \notin LiveOf(f)'
    BY <1>1, <1>2 DEF LiveOf, Live
  <2>2. \A x \in Paychecks : x # p => (x \in LiveOf(f)' <=> x \in LiveOf(f))
    BY <1>1 DEF LiveOf, Live
  <2>3. LiveOf(f) \subseteq Paychecks /\ LiveOf(f)' \subseteq Paychecks
    BY DEF LiveOf
  <2>4. LiveOf(f)' = LiveOf(f)
    <3> DEFINE A == LiveOf(f)
               B == LiveOf(f)'
    <3>1. \A x : x \in B <=> x \in A
      BY <2>1, <2>2, <2>3
    <3> HIDE DEF A, B
    <3>2. B = A
      BY <3>1
    <3> QED
      BY <3>2 DEF A, B
  <2>5. \A x \in LiveOf(f) : check'[x].pay = check[x].pay
    BY <1>1, <2>1, <2>3
  <2>6. check[p] # Deleted(f)
    BY <1>1, <1>2 DEF Deleted
  <2>7. Untouched(f)' => Untouched(f)
    BY <1>1, <2>1, <2>4, <2>6 DEF Untouched, Deleted
  <2> QED
    BY <2>4, <2>5, <2>7 DEF KeepsYear
<1>3. ASSUME NEW x \in Paychecks, Live(x)' PROVE Within(check[x].pay)'
  BY <1>1, <1>3 DEF WagesInv, Within, Live
<1>4. ASSUME NEW f \in Employees PROVE CapOK(f)'
  <2>1. f # e => CapOK(f)'
    BY <1>2, YearKept
  <2> QED
    BY <2>1
<1>5. ASSUME NEW x \in Handlers PROVE NewOK(handler[x])' /\ SaveOK(handler[x])'
  <2>1. CASE x = r
    <3>1. handler'[x] = IdleHandler
      BY <1>1, <2>1
    <3> QED
      BY <3>1 DEF NewOK, SaveOK, IsNew, IdleHandler
  <2>2. CASE x # r
    <3>1. handler'[x] = handler[x] /\ NewOK(handler[x]) /\ SaveOK(handler[x])
      BY <1>1, <2>2 DEF WagesInv
    <3>2. handler[x].op = "save" =>
            /\ handler[x].check \in Paychecks
            /\ check'[handler[x].check].employee = check[handler[x].check].employee
      BY <1>1, AtWork DEF OfExisting
    <3>3. IsNew(handler[x]) => handler[x].op # "save"
      BY DEF IsNew
    <3>4. CASE IsNew(handler[x])
      <4>0. PICK f : f = handler[x].row.employee
        OBVIOUS
      <4>1. SaveOK(handler[x])'
        BY <3>1, <3>3, <3>4 DEF SaveOK
      <4>2. CASE f = e
        BY <2>2, <3>4, <4>0, <4>1, <4>2
      <4>3. CASE f # e
        <5>1. KeepsYear(f)
          BY <1>2, <4>3
        <5>2. NewOK(handler'[x]) /\ SaveOK(handler'[x]) /\ handler'[x].row.employee = f
              /\ handler'[x].op # "save"
          BY <3>1, <3>3, <3>4, <4>0
        <5> QED
          BY <5>1, <5>2, NewlyOK
      <4> QED
        BY <4>2, <4>3
    <3>5. CASE handler[x].op = "save"
      <4>0. PICK f : f = check[handler[x].check].employee
        OBVIOUS
      <4>1. NewOK(handler[x])'
        BY <3>1, <3>5 DEF NewOK, IsNew
      <4>2. CASE f = e
        BY <2>2, <3>5, <4>0, <4>1, <4>2
      <4>3. CASE f # e
        <5>1. KeepsYear(f)
          BY <1>2, <4>3
        <5>2. NewOK(handler'[x]) /\ SaveOK(handler'[x]) /\ ~IsNew(handler'[x])
          BY <3>1, <3>5 DEF IsNew
        <5>3. check[handler'[x].check].employee = f /\ check'[handler'[x].check].employee = f
          BY <3>1, <3>2, <3>5, <4>0
        <5> QED
          BY <5>1, <5>2, <5>3, NewlyOK
      <4> QED
        BY <4>2, <4>3
    <3>6. CASE ~IsNew(handler[x]) /\ handler[x].op # "save"
      BY <3>1, <3>6 DEF NewOK, SaveOK, IsNew
    <3> QED
      BY <3>4, <3>5, <3>6
  <2> QED
    BY <2>1, <2>2
<1> QED
  BY <1>3, <1>4, <1>5 DEF WagesInv

-----------------------------------------------------------------------------
\* Nobody else holds the employee's lock.
LEMMA OneHolder ==
  ASSUME BaseInv, NEW r \in Handlers, NEW e \in Employees, HoldsLock(handler[r], e)
  PROVE  \A x \in Handlers \ {r} :
           /\ ~(IsNew(handler[x]) /\ handler[x].row.employee = e)
           /\ ~(handler[x].op = "save" /\ check[handler[x].check].employee = e)
<1> SUFFICES ASSUME NEW x \in Handlers \ {r} PROVE ~HoldsLock(handler[x], e)
  BY DEF HoldsLock
<1>1. Apart(handler[r], handler[x])
  BY DEF BaseInv, HandlersApart
<1> QED
  BY <1>1 DEF Apart

LEMMA WagesCreated ==
  ASSUME BaseInv, WagesInv, NEW r \in Handlers, CreateCommit(r)
  PROVE  WagesInv'
<1>1. PICK p \in Paychecks, row \in CheckRow : p = handler[r].check /\ row = handler[r].row
  BY CreateCommitBase
<1>2. /\ IsNew(handler[r]) /\ check[p].status = "None" /\ row.status = "Created"
      /\ Commits(r, p) /\ check'[p] = row /\ hist' = hist
  BY <1>1, CreateCommitBase DEF IsNew
<1>3. PICK e \in Employees : e = row.employee
  BY RowFields
<1>4. /\ Within(row.pay)
      /\ \A tax \in Taxes :
           /\ Total(tax, e) + row.pay[tax] <= WageCap
           /\ Untouched(e) => Total(tax, e) + row.pay[tax]
                                = Taxable(Total("wages", e) + row.pay["wages"])
  <2>1. NewOK(handler[r])
    BY DEF WagesInv
  <2> QED
    BY <1>1, <1>2, <1>3, <2>1 DEF NewOK
<1>5. \A x \in Paychecks : x # p => check'[x] = check[x] /\ hist'[x] = hist[x]
  BY <1>2 DEF Commits, WritesRow
<1>6. PICK S : S = LiveOf(e)
  OBVIOUS
<1>7. /\ p \notin S /\ LiveOf(e)' = S \cup {p}
      /\ IsFiniteSet(S)
      /\ \A x \in S : x \in Paychecks /\ Live(x) /\ x # p /\ check'[x].pay = check[x].pay
  <2>1. p \notin S /\ LiveOf(e)' = S \cup {p}
    BY <1>2, <1>3, <1>5, <1>6 DEF LiveOf, Live
  <2>2. IsFiniteSet(S) /\ \A x \in S : x \in Paychecks /\ Live(x)
    BY <1>6, LiveOfFinite DEF BaseInv
  <2> QED
    BY <1>5, <2>1, <2>2
<1>8. \A figure \in Figures : row.pay[figure] \in Nat
  BY RowFields, PayFields DEF Figures
<1>9. \A figure \in Figures : Total(figure, e)' = Total(figure, e) + row.pay[figure]
  <2> SUFFICES ASSUME NEW figure \in Figures
               PROVE  Total(figure, e)' = Total(figure, e) + row.pay[figure]
    OBVIOUS
  <2>1. \A x \in S : check'[x].pay = check[x].pay /\ check[x].pay[figure] \in Nat
    BY <1>7, LiveFigures DEF BaseInv, Figures
  <2>2. check'[p].pay[figure] \in Nat
    BY <1>2, <1>8
  <2>3. YearToDate(figure, LiveOf(e))' = YearToDate(figure, S) + check'[p].pay[figure]
    BY <1>7, <2>1, <2>2, YearToDateWith
  <2> QED
    BY <1>2, <1>6, <2>3 DEF Total
<1>10. Untouched(e)' => Untouched(e)
  <2>1. check[p] # Deleted(e)
    BY <1>2 DEF Deleted
  <2>2. \A x \in LiveOf(e) : x \in LiveOf(e)' /\ x # p
    BY <1>6, <1>7
  <2> QED
    BY <1>5, <2>1, <2>2 DEF Untouched, Deleted
<1>11. CapOK(e)'
  <2> SUFFICES ASSUME NEW tax \in Taxes
               PROVE  /\ Total(tax, e)' <= WageCap
                      /\ Untouched(e)' => Total(tax, e)' = Taxable(Total("wages", e)')
    BY DEF CapOK, Taxable
  <2>1. tax \in Figures /\ "wages" \in Figures
    BY DEF Taxes, Figures
  <2> QED
    BY <1>4, <1>9, <1>10, <2>1
<1>12. HoldsLock(handler[r], e)
  BY <1>1, <1>2, <1>3 DEF HoldsLock
<1>13. check'[p].employee = e /\ (Live(p)' => Within(check'[p].pay))
  BY <1>2, <1>3, <1>4
<1>14. \A x \in Handlers \ {r} :
         /\ ~(IsNew(handler[x]) /\ handler[x].row.employee = e)
         /\ ~(handler[x].op = "save" /\ check[handler[x].check].employee = e)
  BY <1>12, OneHolder
<1> QED
  BY <1>1, <1>2, <1>11, <1>13, <1>14, WagesCommit

LEMMA WagesEdited ==
  ASSUME BaseInv, WagesInv, NEW r \in Handlers, EditCommit(r)
  PROVE  WagesInv'
<1>1. PICK p \in Paychecks, pay \in Pay : p = handler[r].check /\ pay = handler[r].pay
  BY EditCommitBase
<1>2. /\ handler[r].op = "save" /\ OfExisting(handler[r]) /\ check[p].status # "None"
      /\ Commits(r, p) /\ Note(r, {"edited"})
      /\ Live(p) => /\ check'[p].status = check[p].status
                    /\ check'[p].employee = check[p].employee
                    /\ check'[p].pay = pay
      /\ ~Live(p) => check' = check
  BY <1>1, EditCommitBase DEF OfExisting
<1>3. PICK e \in Employees : e = check[p].employee
  BY <1>2, CheckKinds DEF BaseInv
<1>4. /\ Within(pay)
      /\ \A tax \in Taxes : Rest(tax, e, p) + pay[tax] <= WageCap
  <2>1. SaveOK(handler[r])
    BY DEF WagesInv
  <2> QED
    BY <1>1, <1>2, <1>3, <2>1 DEF SaveOK
<1>5. "edited" \in hist'[p] /\ hist[p] \subseteq hist'[p]
  BY <1>1, <1>2, NoteEffect
<1>6. \A x \in Paychecks : x # p => check'[x] = check[x] /\ hist'[x] = hist[x]
  BY <1>2 DEF Commits, WritesRow
<1>7. \A x \in Handlers : handler'[x] = IF x = r THEN IdleHandler ELSE handler[x]
  BY <1>1, <1>2, CommitStep
<1>8. CASE ~Live(p)
  <2>1. \A x \in Handlers : NewOK(handler'[x]) /\ SaveOK(handler'[x])
    BY <1>7 DEF WagesInv, NewOK, SaveOK, IsNew, IdleHandler
  <2>2. \A x \in Handlers : handler'[x].op = "save" =>
          handler'[x].check \in Paychecks /\ check[handler'[x].check].status # "None"
    BY <1>7, AtWork DEF OfExisting, IdleHandler
  <2>3. KeepsFigures
    BY <1>2, <1>5, <1>6, <1>8, <2>2 DEF KeepsFigures, Live
  <2> QED
    BY <2>1, <2>3, WagesKept
<1>9. CASE Live(p)
  <2>1. PICK S : S = LiveOf(e) \ {p}
    OBVIOUS
  <2>2. LiveOf(e) = S \cup {p} /\ LiveOf(e)' = S \cup {p}
    <3>1. p \in LiveOf(e)
      BY <1>3, <1>9 DEF LiveOf
    <3>2. LiveOf(e)' = LiveOf(e)
      BY <1>2, <1>6, <1>9 DEF LiveOf, Live
    <3> QED
      BY <2>1, <3>1, <3>2
  <2>3. /\ p \notin S /\ IsFiniteSet(S)
        /\ \A x \in S : x \in Paychecks /\ Live(x) /\ x # p
    BY <2>1, LiveOfFinite DEF BaseInv
  <2>4. \A figure \in Figures : pay[figure] \in Nat
    BY PayFields DEF Figures
  <2>5. \A figure \in Figures : Total(figure, e)' = Rest(figure, e, p) + pay[figure]
    <3> SUFFICES ASSUME NEW figure \in Figures
                 PROVE  Total(figure, e)' = Rest(figure, e, p) + pay[figure]
      OBVIOUS
    <3>1. \A x \in S : check'[x].pay = check[x].pay /\ check[x].pay[figure] \in Nat
      BY <1>6, <2>3, LiveFigures DEF BaseInv, Figures
    <3>2. check'[p].pay[figure] \in Nat
      BY <1>2, <1>9, <2>4
    <3>3. YearToDate(figure, LiveOf(e))' = YearToDate(figure, S) + check'[p].pay[figure]
      BY <2>2, <2>3, <3>1, <3>2, YearToDateWith
    <3> QED
      BY <1>2, <1>9, <2>1, <3>3 DEF Total, Rest
  <2>6. ~Untouched(e)'
    BY <1>5, <2>2 DEF Untouched
  <2>7. CapOK(e)'
    <3>1. \A tax \in Taxes : Total(tax, e)' <= WageCap
      BY <1>4, <2>5 DEF Taxes, Figures
    <3> QED
      BY <2>6, <3>1 DEF CapOK
  <2>8. HoldsLock(handler[r], e)
    BY <1>1, <1>2, <1>3 DEF HoldsLock
  <2>9. \A x \in Handlers \ {r} :
          /\ ~(IsNew(handler[x]) /\ handler[x].row.employee = e)
          /\ ~(handler[x].op = "save" /\ check[handler[x].check].employee = e)
    BY <2>8, OneHolder
  <2>10. check'[p].employee = e /\ (Live(p)' => Within(check'[p].pay))
    BY <1>2, <1>3, <1>4, <1>9
  <2> QED
    BY <1>1, <1>2, <2>7, <2>9, <2>10, WagesCommit
<1> QED
  BY <1>8, <1>9

\* Deleting only lowers what the year has so far, with or without a paycheck.
LEMMA WagesDeleted ==
  ASSUME BaseInv, WagesInv, NEW r \in Handlers, DeleteCommit(r)
  PROVE  WagesInv'
<1>1. PICK p \in Paychecks : p = handler[r].check
  BY DeleteCommitBase
<1>2. /\ OfExisting(handler[r]) /\ check[p].status # "None"
      /\ Commits(r, p) /\ check'[p] = Deleted(check[p].employee)
  BY <1>1, DeleteCommitBase, AtWork DEF OfExisting
<1>3. PICK e \in Employees : e = check[p].employee
  BY <1>2, CheckKinds DEF BaseInv
<1>4. \A x \in Paychecks : x # p => check'[x] = check[x] /\ hist'[x] = hist[x]
  BY <1>2 DEF Commits, WritesRow
<1>5. ~Live(p)' /\ check'[p].employee = e /\ ~Untouched(e)'
  BY <1>2, <1>3 DEF Live, Deleted, Untouched
<1>6. PICK S : S = LiveOf(e)
  OBVIOUS
<1>7. /\ LiveOf(e)' = S \ {p} /\ IsFiniteSet(S)
      /\ \A x \in S : x \in Paychecks /\ Live(x)
  <2>1. LiveOf(e)' = S \ {p}
    BY <1>4, <1>5, <1>6 DEF LiveOf, Live
  <2> QED
    BY <1>6, <2>1, LiveOfFinite DEF BaseInv
<1>8. \A figure \in Figures : Total(figure, e)' = Rest(figure, e, p)
  <2> SUFFICES ASSUME NEW figure \in Figures PROVE Total(figure, e)' = Rest(figure, e, p)
    OBVIOUS
  <2>1. IsFiniteSet(S \ {p}) /\ \A x \in S \ {p} : check'[x].pay = check[x].pay
    BY <1>4, <1>7, FS_RemoveElement
  <2>2. YearToDate(figure, LiveOf(e))' = YearToDate(figure, S \ {p})
    BY <1>7, <2>1, YearToDateKept
  <2> QED
    BY <1>6, <2>2 DEF Total, Rest
<1>9. \A figure \in Figures : \A q : Rest(figure, e, q)' <= Rest(figure, e, q)
  <2> SUFFICES ASSUME NEW figure \in Figures, NEW q
               PROVE  Rest(figure, e, q)' <= Rest(figure, e, q)
    OBVIOUS
  <2>1. PICK R : R = S \ {q}
    OBVIOUS
  <2>2. /\ IsFiniteSet(R) /\ IsFiniteSet(R \ {p})
        /\ \A x \in R : x \in Paychecks /\ Live(x)
        /\ (LiveOf(e) \ {q})' = R \ {p}
    BY <1>7, <2>1, FS_RemoveElement
  <2>3. Rest(figure, e, q)' = YearToDate(figure, R \ {p})
    BY <1>4, <2>2, RestKept
  <2>4. \A x \in R : check[x].pay[figure] \in Nat
    BY <2>2, LiveFigures DEF BaseInv, Figures
  <2>5. YearToDate(figure, R) \in Nat /\ YearToDate(figure, R \ {p}) \in Nat
    BY <2>2, <2>4, YearToDateNat
  <2>6. p \in R => YearToDate(figure, R) = check[p].pay[figure] + YearToDate(figure, R \ {p})
    BY <2>2, <2>4, YearToDateWithout
  <2>7. p \notin R => R \ {p} = R
    OBVIOUS
  <2>8. YearToDate(figure, R \ {p}) <= YearToDate(figure, R)
    BY <2>4, <2>5, <2>6, <2>7
  <2> QED
    BY <1>6, <2>1, <2>3, <2>8 DEF Rest
<1>10. \A tax \in Taxes :
         /\ tax \in Figures /\ WageCap \in Nat
         /\ Total(tax, e)' \in Nat /\ Total(tax, e) \in Nat
         /\ Total(tax, e)' <= Total(tax, e) /\ Total(tax, e) <= WageCap
  <2> SUFFICES ASSUME NEW tax \in Taxes
               PROVE  /\ tax \in Figures /\ WageCap \in Nat
                      /\ Total(tax, e)' \in Nat /\ Total(tax, e) \in Nat
                      /\ Total(tax, e)' <= Total(tax, e) /\ Total(tax, e) <= WageCap
    OBVIOUS
  <2>1. tax \in Figures /\ WageCap \in Nat
    BY WagesAssumption DEF Taxes, Figures
  <2>2. Total(tax, e) <= WageCap
    BY DEF WagesInv, CapOK
  <2> QED
    BY <1>8, <2>1, <2>2, TotalFacts
<1>11. CapOK(e)'
  <2>1. \A tax \in Taxes : Total(tax, e)' <= WageCap
    BY <1>10
  <2> QED
    BY <1>5, <2>1 DEF CapOK
<1>12. \A x \in Handlers : handler'[x] = IF x = r THEN IdleHandler ELSE handler[x]
  BY <1>1, <1>2, CommitStep
<1>13. ASSUME NEW x \in Handlers \ {r}, IsNew(handler[x]), handler[x].row.employee = e
       PROVE  NewOK(handler[x])'
  <2>1. handler'[x] = handler[x] /\ NewOK(handler[x])
    BY <1>12 DEF WagesInv
  <2>2. PICK row \in CheckRow : row = handler[x].row
    BY <1>13, HandlerFields DEF BaseInv, ChecksTypeOK
  <2>3. \A tax \in Taxes : row.pay[tax] \in Nat
    BY RowFields, PayFields DEF Taxes
  <2>4. \A tax \in Taxes : Total(tax, e) + row.pay[tax] <= WageCap
    BY <1>13, <2>1, <2>2 DEF NewOK
  <2>5. \A tax \in Taxes : Total(tax, e)' + row.pay[tax] <= WageCap
    BY <1>10, <2>3, <2>4
  <2> QED
    BY <1>5, <1>13, <2>1, <2>2, <2>5 DEF NewOK, IsNew, Within
<1>14. ASSUME NEW x \in Handlers \ {r}, handler[x].op = "save",
              check[handler[x].check].employee = e
       PROVE  SaveOK(handler[x])'
  <2>1. handler'[x] = handler[x] /\ SaveOK(handler[x])
    BY <1>12 DEF WagesInv
  <2>2. PICK q \in Paychecks, pay \in Pay : q = handler[x].check /\ pay = handler[x].pay
    BY <1>14, AtWork, HandlerFields DEF OfExisting
  <2>3. check[q].employee = e /\ check'[q].employee = e
    BY <1>4, <1>5, <1>14, <2>2
  <2>4. Within(pay) /\ \A tax \in Taxes : Rest(tax, e, q) + pay[tax] <= WageCap
    BY <1>14, <2>1, <2>2 DEF SaveOK
  <2>5. \A tax \in Taxes : /\ pay[tax] \in Nat /\ Rest(tax, e, q) \in Nat
                           /\ Rest(tax, e, q)' <= Rest(tax, e, q)
    BY <1>9, PayFields, TotalFacts DEF Taxes, Figures
  <2>6. \A tax \in Taxes : Rest(tax, e, q)' \in Int
    <3> SUFFICES ASSUME NEW tax \in Taxes PROVE Rest(tax, e, q)' \in Int
      OBVIOUS
    <3>1. PICK R : R = S \ {q}
      OBVIOUS
    <3>2. /\ IsFiniteSet(R \ {p})
          /\ \A y \in R : y \in Paychecks /\ Live(y)
          /\ (LiveOf(e) \ {q})' = R \ {p}
      BY <1>7, <3>1, FS_RemoveElement
    <3>3. Rest(tax, e, q)' = YearToDate(tax, R \ {p})
      BY <1>4, <3>2, RestKept
    <3>4. \A y \in R \ {p} : check[y].pay[tax] \in Nat
      BY <3>2, LiveFigures DEF BaseInv, Taxes
    <3> QED
      BY <3>2, <3>3, <3>4, YearToDateNat
  <2>7. \A tax \in Taxes : Rest(tax, e, q)' + pay[tax] <= WageCap
    BY <1>10, <2>4, <2>5, <2>6
  <2> QED
    BY <1>14, <2>1, <2>2, <2>3, <2>4, <2>7 DEF SaveOK, Within
<1> QED
  BY <1>1, <1>2, <1>5, <1>11, <1>13, <1>14, WagesCommit

LEMMA WagesStays == BaseInv /\ WagesInv /\ [ChecksNext]_checkVars => WagesInv'
<1> SUFFICES ASSUME BaseInv, WagesInv, [ChecksNext]_checkVars PROVE WagesInv'
  OBVIOUS
<1>1. ASSUME NEW r \in Handlers, NEW p \in Paychecks, NEW e \in Employees,
             NEW d \in CheckDates, NEW w \in Wages, Create(r, p, e, d, w)
      PROVE  WagesInv'
  <2> DEFINE pay == Taxed(e, p, w)
             row == [status |-> "Created", employee |-> e, date |-> d, pay |-> pay, number |-> 0]
             q == [op |-> "create", check |-> p, row |-> row]
  <2>1. handler' = [handler EXCEPT ![r] = q] /\ UNCHANGED <<check, gl, hist>>
    BY <1>1 DEF Create, Begin
  <2>2. p \notin LiveOf(e)
    BY <1>1 DEF Create, LiveOf, Live
  <2>3. /\ pay.wages = w /\ Within(pay)
        /\ \A tax \in Taxes :
             /\ Rest(tax, e, p) + pay[tax] <= WageCap
             /\ Untouched(e) => Total(tax, e) + pay[tax] = Taxable(Total("wages", e) + w)
    BY <2>2, TaxedFits
  <2>4. \A tax \in Taxes : Rest(tax, e, p) = Total(tax, e)
    BY <2>2, TotalFacts DEF Taxes, Figures
  <2> HIDE DEF pay
  <2>5. q.op = "create" /\ q.row.employee = e /\ q.row.pay = pay
    OBVIOUS
  <2> HIDE DEF q
  <2>6. NewOK(q) /\ SaveOK(q)
    BY <2>3, <2>4, <2>5 DEF NewOK, SaveOK, IsNew
  <2> QED
    BY <2>1, <2>5, <2>6, WagesSlot
<1>2. ASSUME NEW r \in Handlers, NEW p \in Paychecks, NEW d \in CheckDates, NEW w \in Wages,
             Edit(r, p, d, w)
      PROVE  WagesInv'
  BY <1>2, WagesSlot DEF Edit, Begin, NewOK, SaveOK, IsNew
<1>3. ASSUME NEW r \in Handlers, NEW p \in Paychecks, Repost(r, p) \/ Delete(r, p)
      PROVE  WagesInv'
  BY <1>3, WagesSlot DEF Repost, Delete, Begin, NewOK, SaveOK, IsNew
<1>4. ASSUME NEW r \in Handlers, Number(r) PROVE WagesInv'
  <2>1. PICK q \in Handler :
          /\ handler' = [handler EXCEPT ![r] = q]
          /\ q.op = "insert"
          /\ q.row.employee = handler[r].row.employee /\ q.row.pay = handler[r].row.pay
    BY <1>4, NumberBase
  <2>2. NewOK(handler[r]) /\ IsNew(handler[r])
    BY <1>4 DEF WagesInv, Number, Working, IsNew
  <2>3. NewOK(q) /\ SaveOK(q)
    BY <2>1, <2>2 DEF NewOK, SaveOK
  <2> QED
    BY <1>4, <2>1, <2>3, WagesSlot DEF Number
<1>5. ASSUME NEW r \in Handlers, EditLocked(r) PROVE WagesInv'
  <2>1. PICK q \in Handler :
          /\ handler' = [handler EXCEPT ![r] = q]
          /\ q.op = "save" /\ q.check = handler[r].check
          /\ q.pay = Taxed(check[q.check].employee, q.check, handler[r].wages)
    BY <1>5, EditLockedBase
  <2>2. /\ q.check \in Paychecks /\ check[q.check].status # "None"
        /\ handler[r].wages \in Wages
    BY <1>5, <2>1, EditLockedBase, AtWork
  <2>3. check[q.check].employee \in Employees
    BY <2>2, CheckKinds DEF BaseInv
  <2>4. /\ Within(q.pay)
        /\ \A tax \in Taxes :
             Rest(tax, check[q.check].employee, q.check) + q.pay[tax] <= WageCap
    BY <2>1, <2>2, <2>3, TaxedFits
  <2>5. NewOK(q) /\ SaveOK(q)
    BY <2>1, <2>4 DEF NewOK, SaveOK, IsNew
  <2> QED
    BY <1>5, <2>1, <2>2, <2>5, WagesSlot DEF EditLocked
<1>6. ASSUME NEW r \in Handlers, RepostDelete(r) \/ DeleteEntries(r) \/ RollBack(r)
      PROVE  WagesInv'
  BY <1>6, WagesSlot
  DEF RepostDelete, DeleteEntries, RollBack, Continue, Done, NewOK, SaveOK, IsNew, IdleHandler
<1>7. ASSUME NEW r \in Handlers, RepostCommit(r) PROVE WagesInv'
  <2>1. PICK p \in Paychecks : p = handler[r].check
    BY <1>7, RepostCommitBase
  <2>2. /\ OfExisting(handler[r]) /\ Commits(r, p) /\ Note(r, {}) /\ check' = check
    BY <1>7, <2>1, RepostCommitBase DEF OfExisting
  <2>3. hist[p] \subseteq hist'[p]
    BY <2>1, <2>2, NoteEffect
  <2>4. \A x \in Handlers : handler'[x] = IF x = r THEN IdleHandler ELSE handler[x]
    BY <2>1, <2>2, CommitStep
  <2>5. \A x \in Handlers : handler'[x].op = "save" =>
          handler'[x].check \in Paychecks /\ check[handler'[x].check].status # "None"
    BY <2>4, AtWork DEF OfExisting, IdleHandler
  <2>6. KeepsFigures
    BY <2>2, <2>3, <2>5 DEF KeepsFigures, Commits, Live
  <2>7. \A x \in Handlers : NewOK(handler'[x]) /\ SaveOK(handler'[x])
    BY <2>4 DEF WagesInv, NewOK, SaveOK, IsNew, IdleHandler
  <2> QED
    BY <2>6, <2>7, WagesKept
<1>8. \A x \in Handlers : handler[x].op = "save" =>
        handler[x].check \in Paychecks /\ check[handler[x].check].status # "None"
  BY AtWork DEF OfExisting
<1>9. ASSUME NEW p \in Paychecks, MarkPrinted(p) PROVE WagesInv'
  <2>1. KeepsFigures /\ handler' = handler
    BY <1>8, <1>9, MarkPrintedBase DEF KeepsFigures, Live
  <2> QED
    BY <2>1, WagesKept DEF WagesInv
<1>10. ASSUME UNCHANGED checkVars PROVE WagesInv'
  <2>1. KeepsFigures /\ handler' = handler
    BY <1>8, <1>10 DEF checkVars, KeepsFigures, Live
  <2> QED
    BY <2>1, WagesKept DEF WagesInv
<1> QED
  BY <1>1, <1>2, <1>3, <1>4, <1>5, <1>6, <1>7, <1>9, <1>10, WagesCreated, WagesEdited,
     WagesDeleted
  DEF ChecksNext

LEMMA WagesAtFirst == ChecksInit => WagesInv
<1> SUFFICES ASSUME ChecksInit PROVE WagesInv
  OBVIOUS
<1>1. \A p \in Paychecks : ~Live(p)
  BY DEF ChecksInit, Live, NoCheck
<1>2. \A r \in Handlers : NewOK(handler[r]) /\ SaveOK(handler[r])
  BY DEF ChecksInit, NewOK, SaveOK, IsNew, IdleHandler
<1>3. ASSUME NEW e \in Employees PROVE CapOK(e)
  <2>1. LiveOf(e) = {}
    BY <1>1 DEF LiveOf
  <2>2. \A figure : Total(figure, e) = 0
    BY <2>1, SumEmpty DEF Total, YearToDate
  <2> QED
    BY <2>2, WagesAssumption DEF CapOK, Taxable
<1> QED
  BY <1>1, <1>2, <1>3 DEF WagesInv

\* However the creations and edits of an employee's paychecks overlap, no more
\* than the wage base of the year is taxed, and exactly that much of the wages
\* while none was edited or deleted: for any number of paychecks, any wages and
\* any wage base.
THEOREM WageCapKept == ChecksSpec => []WageCapHolds
<1>1. BaseInv /\ WagesInv => WageCapHolds
  <2> SUFFICES ASSUME BaseInv, WagesInv, NEW e \in Employees, NEW tax \in Taxes
               PROVE  /\ Total(tax, e) <= WageCap
                      /\ Untouched(e) => Total(tax, e) = Min({WageCap, Total("wages", e)})
    BY DEF WageCapHolds, Taxes, Total, Untouched
  <2>1. Total("wages", e) \in Nat /\ WageCap \in Nat
    BY TotalFacts, WagesAssumption DEF Figures
  <2>2. Min({WageCap, Total("wages", e)}) = Taxable(Total("wages", e))
    BY <2>1, MinOfTwo DEF Taxable
  <2> QED
    BY <2>2 DEF WagesInv, CapOK
<1> QED
  BY <1>1, BaseAtFirst, BaseStays, WagesAtFirst, WagesStays, PTL DEF ChecksSpec

-----------------------------------------------------------------------------
(***************************************************************************)
(* The payroll agent                                                       *)
(***************************************************************************)
(***************************************************************************)
(* OnePaycheckPerDraft is not inductive: that an approval in flight may    *)
(* still create its paycheck rests on nobody having done so, which rests   *)
(* on the draft having been Pending when it was claimed, and on there      *)
(* being no second claim.                                                  *)
(***************************************************************************)
Undecided(s, d) == draft[s][d] \in {"None", "Pending"}
ClaimsOK ==
  \A s \in Schedules, d \in Dates :
    /\ made[s][d] \in {0, 1}
    /\ Undecided(s, d) => made[s][d] = 0
    /\ \A r \in Requests : Approving(r, s, d) =>
         /\ made[s][d] = 0
         /\ ~Undecided(s, d)
         /\ \A x \in Requests : Approving(x, s, d) => x = r

(***************************************************************************)
(* NoPayDateLost is not inductive either: a sweep will write a date it      *)
(* computes from what it read.  What it read was the row's date and step   *)
(* then; the dates of the plan before it were settled, a settled date      *)
(* stays settled, and only enabling the schedule changes plan and step.    *)
(***************************************************************************)
\* A schedule that exists and was not enabled under a sweep that had read it.
Planned(s) == Exists(s) /\ ~raced[s]

\* The dates of the plan before d are settled.
Passed(s, d) == \A x \in plan[s] : x < d => x \in settled[s]

\* The plan's dates are the row's step apart, and go on up to the horizon.
Spaced(s) ==
  \A x \in plan[s] :
    /\ \A y \in plan[s] : x < y => x + sched[s].step <= y
    /\ x + sched[s].step <= MaxDate => x + sched[s].step \in plan[s]

\* A date and step that may be advanced from once the date is settled.
Covers(s, read) ==
  Planned(s) =>
    /\ read.date \in plan[s]
    /\ read.step = sched[s].step
    /\ Passed(s, read.date)

RowsKept ==
  \A s \in Schedules :
    Planned(s) => Spaced(s) /\ sched[s].next \in plan[s] /\ Kept(s)
SweepKept(q) ==
  /\ q.stage # "idle" => \A s \in q.todo : Covers(s, q.read[s])
  /\ q.stage \in {"draft", "pass", "advance"} => Covers(q.at, q.read[q.at])
  /\ q.stage = "advance" => (Planned(q.at) => q.read[q.at].date \in settled[q.at])
SweepsKept == \A w \in Sweeps, q \in Sweep : q = sweep[w] => SweepKept(q)

-----------------------------------------------------------------------------
LEMMA DatesFacts ==
  /\ MaxDate \in Nat \ {0} /\ 0 \in Dates /\ NoReading \in Reading
  /\ \A d \in Dates : d \in Nat /\ d <= MaxDate
  /\ \A read \in Reading :
       /\ read.date \in Dates /\ read.date \in Nat /\ read.step \in 1..MaxDate
       /\ DateAfter(read) = read.date + read.step /\ DateAfter(read) \in Dates
  /\ PayDates \subseteq Dates
  BY DatesAssumption DEF Dates, Reading, NoReading, DateAfter

LEMMA SweepFields ==
  ASSUME NEW q \in Sweep, q.stage # "idle"
  PROVE  /\ q.stage \in {"next", "draft", "pass", "advance"}
         /\ q.todo \subseteq Schedules
         /\ q.at \in Schedules
         /\ q.read \in [Schedules -> Reading]
  BY DEF Sweep, IdleSweep

LEMMA RequestFields ==
  ASSUME NEW q \in Request, q.op # "idle"
  PROVE  /\ q.op \in ApprovalSteps \cup {"dismiss"}
         /\ q.sched \in Schedules
         /\ q.date \in PayDates
         /\ q.date \in Dates
  BY DatesFacts DEF Request, Idle

LEMMA IdleTypes ==
  /\ IdleSweep \in Sweep /\ IdleSweep.stage = "idle"
  /\ Idle \in Request /\ Idle.op = "idle"
  BY DEF IdleSweep, Sweep, Idle, Request

\* A sweep that takes a step: its new state is of the right type and shape.
LEMMA SweepSteps ==
  ASSUME NEW q \in Sweep, q.stage # "idle"
  PROVE  /\ Rested(q) \in Sweep
         /\ Rested(q).stage \in {"idle", "next"}
         /\ Rested(q).stage # "idle" => Rested(q).todo = q.todo /\ Rested(q).read = q.read
         /\ [q EXCEPT !.stage = "advance"] \in Sweep
         /\ \A s \in Schedules, stage \in {"draft", "pass"} :
              [q EXCEPT !.todo = @ \ {s}, !.at = s, !.stage = stage] \in Sweep
<1>1. q \in [stage: {"next", "draft", "pass", "advance"}, todo: SUBSET Schedules,
             at: Schedules, read: [Schedules -> Reading]]
  BY DEF Sweep, IdleSweep
<1>2. [q EXCEPT !.stage = "next"] \in Sweep /\ [q EXCEPT !.stage = "advance"] \in Sweep
  BY <1>1 DEF Sweep
<1>3. \A s \in Schedules, stage \in {"draft", "pass"} :
        [q EXCEPT !.todo = @ \ {s}, !.at = s, !.stage = stage] \in Sweep
  BY <1>1 DEF Sweep
<1>4. CASE q.todo = {}
  BY <1>2, <1>3, <1>4, IdleTypes DEF Rested
<1>5. CASE q.todo # {}
  BY <1>1, <1>2, <1>3, <1>5 DEF Rested
<1> QED
  BY <1>4, <1>5

\* What a sweep reads when it starts.
LEMMA SweepRead ==
  ASSUME TypeOK, NEW w \in Sweeps, NEW day, NEW rows \in SUBSET DueOn(day),
         SweepStart(w, rows)
  PROVE  /\ sweep'[w] \in Sweep
         /\ sweep'[w].stage = "next"
         /\ \A s \in sweep'[w].todo : /\ s \in Schedules /\ WithinHorizon(s)
                                      /\ sweep'[w].read[s] = ReadingOf(s)
         /\ sweep' = [sweep EXCEPT ![w] = sweep'[w]]
         /\ UNCHANGED <<sched, eligible, autoRun, draft, paid, made, plan, raced, settled,
                        today, req>>
<1> DEFINE read == [s \in Schedules |-> IF s \in rows THEN ReadingOf(s) ELSE NoReading]
           at == CHOOSE s \in rows : TRUE
           q == [stage |-> "next", todo |-> rows, at |-> at, read |-> read]
<1>1. sweep' = [sweep EXCEPT ![w] = q] /\ rows # {}
        /\ UNCHANGED <<sched, eligible, autoRun, draft, paid, made, plan, raced, settled,
                       today, req>>
  BY DEF SweepStart, staffData, checks, enabled
<1>2. \A s \in rows : s \in Schedules /\ WithinHorizon(s) /\ ReadingOf(s) \in Reading
  BY DEF DueOn, TypeOK, Row, ReadingOf, WithinHorizon, Reading
<1>3. at \in Schedules
  BY <1>1, <1>2
<1>4. read \in [Schedules -> Reading] /\ \A s \in rows : read[s] = ReadingOf(s)
  BY <1>2, DatesFacts
<1> HIDE DEF read, at
<1>5. q \in Sweep
  BY <1>2, <1>3, <1>4 DEF Sweep
<1>6. sweep'[w] = q /\ q.stage = "next" /\ q.todo = rows /\ q.read = read
  BY <1>1 DEF TypeOK
<1> HIDE DEF q
<1> QED
  BY <1>1, <1>2, <1>4, <1>5, <1>6

\* One draft changes its status.
LEMMA DraftUpdate ==
  ASSUME TypeOK, NEW s \in Schedules, NEW d \in Dates, NEW v \in DraftStatus,
         draft' = [draft EXCEPT ![s][d] = v]
  PROVE  /\ draft' \in [Schedules -> [Dates -> DraftStatus]]
         /\ \A x \in Schedules, y \in Dates :
              draft'[x][y] = IF x = s /\ y = d THEN v ELSE draft[x][y]
  BY DEF TypeOK

-----------------------------------------------------------------------------
(***************************************************************************)
(* TypeOK                                                                  *)
(***************************************************************************)
LEMMA InitType == Init => TypeOK
<1> SUFFICES ASSUME Init
             PROVE  TypeOK
  OBVIOUS
<1>1. NoRow \in Row
  BY DatesFacts DEF NoRow, Row
<1> QED
  BY <1>1, IdleTypes, DatesFacts DEF Init, TypeOK, DraftStatus

\* The row that enabling a schedule writes, and the dates it stands for.
LEMMA EnableFacts ==
  ASSUME NEW s \in Schedules, NEW d \in Dates, NEW days \in Steps,
         EnableSchedule(s, d, days)
  PROVE  /\ [status |-> "Active", next |-> d, step |-> days] \in Row
         /\ d \in Nat /\ days \in Nat \ {0} /\ d <= MaxDate
         /\ PlanFrom(d, days, MaxDate) \subseteq Dates
         /\ d \in PlanFrom(d, days, MaxDate)
         /\ \A x \in PlanFrom(d, days, MaxDate) :
              /\ x \in Nat /\ d <= x
              /\ x + days <= MaxDate => x + days \in PlanFrom(d, days, MaxDate)
              /\ \A y \in PlanFrom(d, days, MaxDate) : x < y => x + days <= y
<1>1. d \in Nat /\ d <= MaxDate /\ days \in Nat \ {0} /\ d + days <= MaxDate /\ MaxDate \in Nat
  BY DatesAssumption, DatesFacts DEF EnableSchedule
<1>2. [status |-> "Active", next |-> d, step |-> days] \in Row
  BY <1>1 DEF Row
<1>3. /\ PlanFrom(d, days, MaxDate) \subseteq Dates
      /\ d \in PlanFrom(d, days, MaxDate)
  BY <1>1, PlanStarts DEF Dates
<1>4. \A x \in PlanFrom(d, days, MaxDate) :
        /\ x \in Nat /\ d <= x
        /\ x + days <= MaxDate => x + days \in PlanFrom(d, days, MaxDate)
        /\ \A y \in PlanFrom(d, days, MaxDate) : x < y => x + days <= y
  BY <1>1, PlanSpaced
<1> QED
  BY <1>1, <1>2, <1>3, <1>4

LEMMA StaffType ==
  ASSUME TypeOK, Staff
  PROVE  TypeOK'
<1>1. CASE \E s \in Schedules, d \in Dates, days \in Steps : EnableSchedule(s, d, days)
  <2> PICK s \in Schedules, d \in Dates, days \in Steps : EnableSchedule(s, d, days)
    BY <1>1
  <2> DEFINE first == PlanFrom(d, days, MaxDate)
             old == {x \in Dates : draft[s][x] # "None"}
  <2>1. [status |-> "Active", next |-> d, step |-> days] \in Row /\ first \subseteq Dates
    BY EnableFacts
  <2>2. InFlightOn(s) \in BOOLEAN /\ old \subseteq Dates
    BY DEF InFlightOn
  <2>3. /\ plan' = [plan EXCEPT ![s] = first] /\ raced' = [raced EXCEPT ![s] = InFlightOn(s)]
        /\ settled' = [settled EXCEPT ![s] = old]
    BY DEF EnableSchedule
  <2> HIDE DEF first, old
  <2>4. /\ plan' \in [Schedules -> SUBSET Dates] /\ raced' \in [Schedules -> BOOLEAN]
        /\ settled' \in [Schedules -> SUBSET Dates]
    BY <2>1, <2>2, <2>3 DEF TypeOK
  <2> QED
    BY <2>1, <2>4 DEF EnableSchedule, TypeOK, staffData, checks
<1>2. CASE \E s \in Schedules, status \in {"Active", "Stopped"} : SetStatus(s, status)
  <2> PICK s \in Schedules, status \in {"Active", "Stopped"} : SetStatus(s, status)
    BY <1>2
  <2>1. sched' \in [Schedules -> Row]
    <3> DEFINE row == [sched[s] EXCEPT !.status = status]
    <3>1. row \in Row /\ sched' = [sched EXCEPT ![s] = row]
      BY DEF SetStatus, TypeOK, Row
    <3> HIDE DEF row
    <3> QED
      BY <3>1 DEF TypeOK
  <2> QED
    BY <2>1 DEF SetStatus, TypeOK, staffData, checks, enabled
<1>3. CASE \E s \in Schedules : EditEmployee(s)
  BY <1>3 DEF EditEmployee, TypeOK, checks, enabled
<1>4. CASE \E s \in Schedules, d \in PayDates : OtherPaycheck(s, d) \/ RemovePaycheck(s, d)
  <2> PICK s \in Schedules, d \in PayDates : OtherPaycheck(s, d) \/ RemovePaycheck(s, d)
    BY <1>4
  <2>1. d \in Dates
    BY DatesFacts
  <2>2. paid' \in [Schedules -> SUBSET Dates]
    <3>1. CASE OtherPaycheck(s, d)
      BY <2>1, <3>1 DEF OtherPaycheck, TypeOK
    <3>2. CASE RemovePaycheck(s, d)
      BY <2>1, <3>2 DEF RemovePaycheck, TypeOK
    <3> QED
      BY <3>1, <3>2
  <2>3. UNCHANGED <<sched, eligible, autoRun, draft, made, plan, raced, settled, today, sweep, req>>
    BY DEF OtherPaycheck, RemovePaycheck, staffData, enabled
  <2> QED
    BY <2>2, <2>3 DEF TypeOK
<1>5. CASE SetAutoRun
  BY <1>5 DEF SetAutoRun, TypeOK, checks, enabled
<1> QED
  BY <1>1, <1>2, <1>3, <1>4, <1>5 DEF Staff

LEMMA SweepType ==
  ASSUME TypeOK, NEW w \in Sweeps, Sweeping(w)
  PROVE  TypeOK'
<1> PICK q \in Sweep : q = sweep[w]
  BY DEF TypeOK
<1>1. CASE JobBegin(w) \/ RunBegin(w)
  <2> PICK day \in Dates : \E rows \in SUBSET DueOn(day) : SweepStart(w, rows)
    BY <1>1 DEF JobBegin, RunBegin, TypeOK
  <2> PICK rows \in SUBSET DueOn(day) : SweepStart(w, rows)
    OBVIOUS
  <2> QED
    BY SweepRead DEF TypeOK
<1>2. CASE \E s \in Schedules : SweepEmployee(w, s)
  <2> PICK s \in Schedules : SweepEmployee(w, s)
    BY <1>2
  <2> DEFINE stage == IF s \in eligible THEN "draft" ELSE "pass"
             n == [q EXCEPT !.todo = @ \ {s}, !.at = s, !.stage = stage]
  <2>1. q.stage = "next" /\ sweep' = [sweep EXCEPT ![w] = n]
          /\ UNCHANGED <<sched, eligible, autoRun, draft, paid, made, plan, raced, settled,
                         today, req>>
    BY DEF SweepEmployee, staffData, checks, enabled
  <2>2. n \in Sweep
    BY <2>1, SweepSteps
  <2> HIDE DEF n
  <2> QED
    BY <2>1, <2>2 DEF TypeOK
<1>3. CASE SweepDraft(w)
  <2>1. q.stage = "draft"
    BY <1>3 DEF SweepDraft
  <2>2. q.at \in Schedules /\ q.read[q.at].date \in Dates
          /\ [q EXCEPT !.stage = "advance"] \in Sweep
    BY <2>1, SweepFields, SweepSteps, DatesFacts
  <2>3. draft' \in [Schedules -> [Dates -> DraftStatus]]
    BY <1>3, <2>2 DEF SweepDraft, TypeOK, DraftStatus
  <2>4. settled' \in [Schedules -> SUBSET Dates]
    BY <1>3, <2>2 DEF SweepDraft, TypeOK
  <2>5. sweep' \in [Sweeps -> Sweep]
    BY <1>3, <2>2 DEF SweepDraft, TypeOK
  <2> QED
    BY <1>3, <2>3, <2>4, <2>5 DEF SweepDraft, TypeOK, staffData, checks, enabled
<1>4. CASE SweepAdvance(w)
  <2>1. q.stage \in {"pass", "advance"}
    BY <1>4 DEF SweepAdvance
  <2>2. /\ q.at \in Schedules /\ q.read[q.at].date \in Dates
        /\ DateAfter(q.read[q.at]) \in Dates /\ Rested(q) \in Sweep
    BY <2>1, SweepFields, SweepSteps, DatesFacts
  <2>3. sched' \in [Schedules -> Row]
    <3> PICK d \in Dates : d = DateAfter(q.read[q.at])
      BY <2>2
    <3> DEFINE row == [sched[q.at] EXCEPT !.next = d]
    <3>1. row \in Row
      <4> PICK old \in Row : old = sched[q.at]
        BY <2>2 DEF TypeOK
      <4> QED
        BY DEF Row
    <3>2. sched' = [sched EXCEPT ![q.at] = row]
      BY <1>4 DEF SweepAdvance
    <3> HIDE DEF row
    <3> QED
      BY <2>2, <3>1, <3>2 DEF TypeOK
  <2>4. settled' \in [Schedules -> SUBSET Dates]
    BY <1>4, <2>2 DEF SweepAdvance, TypeOK
  <2>5. sweep' \in [Sweeps -> Sweep]
    BY <1>4, <2>2 DEF SweepAdvance, TypeOK
  <2> QED
    BY <1>4, <2>3, <2>4, <2>5 DEF SweepAdvance, TypeOK, staffData, checks, enabled
<1>5. CASE SweepFail(w)
  <2>1. q.stage # "idle" /\ sweep' = [sweep EXCEPT ![w] = Rested(q)]
    BY <1>5 DEF SweepFail
  <2>2. Rested(q) \in Sweep
    BY <2>1, SweepSteps
  <2> QED
    BY <1>5, <2>1, <2>2 DEF SweepFail, TypeOK, staffData, checks, enabled
<1> QED
  BY <1>1, <1>2, <1>3, <1>4, <1>5 DEF Sweeping

LEMMA DecideType ==
  ASSUME TypeOK, NEW r \in Requests, Deciding(r)
  PROVE  TypeOK'
<1> PICK q \in Request : q = req[r]
  BY DEF TypeOK
<1>1. CASE \E s \in Schedules, d \in PayDates : ApproveClaim(r, s, d) \/ DismissBegin(r, s, d)
  <2> PICK s \in Schedules, d \in PayDates : ApproveClaim(r, s, d) \/ DismissBegin(r, s, d)
    BY <1>1
  <2>1. /\ [op |-> "claimed", sched |-> s, date |-> d] \in Request
        /\ [op |-> "dismiss", sched |-> s, date |-> d] \in Request
    BY DEF Request, ApprovalSteps
  <2>2. req' \in [Requests -> Request]
    BY <2>1 DEF ApproveClaim, DismissBegin, TypeOK
  <2>3. draft' \in [Schedules -> [Dates -> DraftStatus]]
    <3>1. CASE ApproveClaim(r, s, d)
      BY <3>1, DraftUpdate, DatesFacts DEF ApproveClaim, DraftStatus
    <3>2. CASE DismissBegin(r, s, d)
      BY <3>2 DEF DismissBegin, TypeOK
    <3> QED
      BY <3>1, <3>2
  <2> QED
    BY <2>2, <2>3 DEF ApproveClaim, DismissBegin, TypeOK, staffData, checks, enabled
<1>2. CASE ApproveEmployee(r) \/ ApproveRefuse(r)
  <2>1. q.op \in {"claimed", "employed"}
    BY <1>2 DEF ApproveEmployee, ApproveRefuse
  <2>2. \A op \in ApprovalSteps : [q EXCEPT !.op = op] \in Request
    BY <2>1 DEF Request, Idle, ApprovalSteps
  <2>3. PICK op \in ApprovalSteps : req' = [req EXCEPT ![r] = [q EXCEPT !.op = op]]
    BY <1>2 DEF ApproveEmployee, ApproveRefuse, ApprovalSteps
  <2>4. req' \in [Requests -> Request]
    BY <2>2, <2>3 DEF TypeOK
  <2> QED
    BY <1>2, <2>4 DEF ApproveEmployee, ApproveRefuse, TypeOK, staffData, checks, enabled
<1>3. CASE ApproveCreate(r)
  <2>1. q.sched \in Schedules /\ q.date \in Dates
    BY <1>3, RequestFields DEF ApproveCreate
  <2>2. paid' \in [Schedules -> SUBSET Dates]
    BY <1>3, <2>1 DEF ApproveCreate, TypeOK
  <2>3. made' \in [Schedules -> [Dates -> Nat]]
    BY <1>3, <2>1 DEF ApproveCreate, TypeOK
  <2>4. req' \in [Requests -> Request]
    BY <1>3, IdleTypes DEF ApproveCreate, TypeOK
  <2> QED
    BY <1>3, <2>2, <2>3, <2>4 DEF ApproveCreate, TypeOK, staffData, enabled
<1>4. CASE ApproveRelease(r) \/ DismissCommit(r)
  <2>1. q.sched \in Schedules /\ q.date \in Dates
    BY <1>4, RequestFields DEF ApproveRelease, DismissCommit
  <2>2. PICK v \in DraftStatus : draft' = [draft EXCEPT ![q.sched][q.date] = v]
    BY <1>4 DEF ApproveRelease, DismissCommit, DraftStatus
  <2>4. draft' \in [Schedules -> [Dates -> DraftStatus]]
    BY <2>1, <2>2, DraftUpdate
  <2>3. req' \in [Requests -> Request]
    BY <1>4, IdleTypes DEF ApproveRelease, DismissCommit, TypeOK
  <2> QED
    BY <1>4, <2>3, <2>4 DEF ApproveRelease, DismissCommit, TypeOK, staffData, checks, enabled
<1>5. CASE ApproveThrow(r)
  BY <1>5, IdleTypes DEF ApproveThrow, TypeOK, staffData, checks, enabled
<1> QED
  BY <1>1, <1>2, <1>3, <1>4, <1>5 DEF Deciding

LEMMA NextType == TypeOK /\ [Next]_vars => TypeOK'
<1> SUFFICES ASSUME TypeOK, [Next]_vars
             PROVE  TypeOK'
  OBVIOUS
<1>1. CASE Restart
  BY <1>1, IdleTypes DEF Restart, TypeOK, staffData, checks, enabled
<1>2. CASE NextDay
  <2>1. today' \in Dates
    BY <1>2, DatesFacts DEF NextDay, TypeOK, Dates
  <2> QED
    BY <1>2, <2>1 DEF NextDay, TypeOK, staffData, checks, enabled
<1>3. CASE UNCHANGED vars
  BY <1>3 DEF vars, TypeOK
<1> QED
  BY <1>1, <1>2, <1>3, StaffType, SweepType, DecideType DEF Next

\* Schedules, drafts, paychecks, sweeps and requests keep their types, and no
\* sweep writes a pay date outside the horizon.
THEOREM TypeCorrect == Spec => []TypeOK
  BY InitType, NextType, PTL DEF Spec

-----------------------------------------------------------------------------
(***************************************************************************)
(* OnePaycheckPerDraft                                                     *)
(***************************************************************************)
\* One draft, its count of paychecks and its approvals are left alone.
LEMMA ClaimsStay ==
  ASSUME ClaimsOK, UNCHANGED <<draft, made, req>>
  PROVE  ClaimsOK'
  BY DEF ClaimsOK, Undecided, Approving

\* A request ends, and nothing else changes.
LEMMA ClaimEnds ==
  ASSUME TypeOK, ClaimsOK, NEW r \in Requests, req' = [req EXCEPT ![r] = Idle],
         UNCHANGED <<draft, made>>
  PROVE  ClaimsOK'
<1>1. \A x \in Requests, s \in Schedules, d \in Dates :
        Approving(x, s, d)' => x # r /\ Approving(x, s, d)
  BY DEF TypeOK, Approving, Idle, ApprovalSteps
<1> QED
  BY <1>1 DEF ClaimsOK, Undecided

LEMMA ClaimStep ==
  ASSUME TypeOK, ClaimsOK, NEW r \in Requests, NEW s \in Schedules, NEW d \in PayDates,
         ApproveClaim(r, s, d)
  PROVE  ClaimsOK'
<1>1. d \in Dates
  BY DatesFacts
<1>2. /\ draft[s][d] = "Pending"
      /\ draft' = [draft EXCEPT ![s][d] = "Approved"]
      /\ req' = [req EXCEPT ![r] = [op |-> "claimed", sched |-> s, date |-> d]]
      /\ UNCHANGED made
  BY DEF ApproveClaim, Claimable, checks
<1>3. made[s][d] = 0 /\ \A x \in Requests : ~Approving(x, s, d)
  BY <1>1, <1>2 DEF ClaimsOK, Undecided
<1>4. \A x \in Schedules, y \in Dates :
        draft'[x][y] = IF x = s /\ y = d THEN "Approved" ELSE draft[x][y]
  BY <1>1, <1>2 DEF TypeOK
<1>5. \A q \in Requests, x \in Schedules, y \in Dates :
        Approving(q, x, y)' => \/ q # r /\ Approving(q, x, y)
                               \/ q = r /\ x = s /\ y = d
  BY <1>2 DEF TypeOK, Approving
<1> SUFFICES ASSUME NEW x \in Schedules, NEW y \in Dates
             PROVE  /\ made[x][y] \in {0, 1}
                    /\ Undecided(x, y)' => made[x][y] = 0
                    /\ \A q \in Requests : Approving(q, x, y)' =>
                         /\ made[x][y] = 0
                         /\ ~Undecided(x, y)'
                         /\ \A z \in Requests : Approving(z, x, y)' => z = q
  BY <1>2 DEF ClaimsOK
<1>6. CASE x = s /\ y = d
  BY <1>3, <1>4, <1>5, <1>6 DEF ClaimsOK, Undecided
<1>7. CASE ~(x = s /\ y = d)
  <2>1. Undecided(x, y)' = Undecided(x, y)
    BY <1>4, <1>7 DEF Undecided
  <2>2. \A q \in Requests : Approving(q, x, y)' => Approving(q, x, y)
    BY <1>5, <1>7
  <2> QED
    BY <2>1, <2>2 DEF ClaimsOK
<1> QED
  BY <1>6, <1>7

LEMMA CreateStep ==
  ASSUME TypeOK, ClaimsOK, NEW r \in Requests, ApproveCreate(r)
  PROVE  ClaimsOK'
<1> PICK q \in Request : q = req[r]
  BY DEF TypeOK
<1> DEFINE s == q.sched
           d == q.date
<1>1. /\ q.op = "employed"
      /\ made' = [made EXCEPT ![s][d] = @ + 1]
      /\ req' = [req EXCEPT ![r] = Idle]
      /\ UNCHANGED draft
  BY DEF ApproveCreate
<1>2. s \in Schedules /\ d \in Dates
  BY <1>1, RequestFields
<1>3. Approving(r, s, d)
  BY <1>1 DEF Approving, ApprovalSteps
<1> HIDE DEF s, d
<1>4. made[s][d] = 0 /\ ~Undecided(s, d) /\ \A x \in Requests : Approving(x, s, d) => x = r
  BY <1>2, <1>3 DEF ClaimsOK
<1>5. \A x \in Schedules, y \in Dates :
        made'[x][y] = IF x = s /\ y = d THEN 1 ELSE made[x][y]
  BY <1>1, <1>2, <1>4 DEF TypeOK
<1>6. \A p \in Requests, x \in Schedules, y \in Dates :
        Approving(p, x, y)' => p # r /\ Approving(p, x, y)
  BY <1>1 DEF TypeOK, Approving, Idle, ApprovalSteps
<1> SUFFICES ASSUME NEW x \in Schedules, NEW y \in Dates
             PROVE  /\ made'[x][y] \in {0, 1}
                    /\ Undecided(x, y) => made'[x][y] = 0
                    /\ \A p \in Requests : Approving(p, x, y)' =>
                         /\ made'[x][y] = 0
                         /\ ~Undecided(x, y)
                         /\ \A z \in Requests : Approving(z, x, y)' => z = p
  BY <1>1 DEF ClaimsOK, Undecided
<1>7. CASE x = s /\ y = d
  BY <1>4, <1>5, <1>6, <1>7
<1>8. CASE ~(x = s /\ y = d)
  BY <1>5, <1>6, <1>8 DEF ClaimsOK
<1> QED
  BY <1>7, <1>8

\* The status of a draft is written, by a request that ends or by a sweep, so
\* that a draft that becomes undecided has no paycheck and no approval left.
LEMMA StatusWritten ==
  ASSUME TypeOK, ClaimsOK, NEW s \in Schedules, NEW d \in Dates, NEW v \in DraftStatus,
         draft' = [draft EXCEPT ![s][d] = v], UNCHANGED made,
         \A p \in Requests, x \in Schedules, y \in Dates :
           Approving(p, x, y)' => Approving(p, x, y),
         v \in {"None", "Pending"} =>
           made[s][d] = 0 /\ \A p \in Requests : ~Approving(p, s, d)'
  PROVE  ClaimsOK'
<1>1. \A x \in Schedules, y \in Dates :
        draft'[x][y] = IF x = s /\ y = d THEN v ELSE draft[x][y]
  BY DraftUpdate
<1> SUFFICES ASSUME NEW x \in Schedules, NEW y \in Dates
             PROVE  /\ made[x][y] \in {0, 1}
                    /\ Undecided(x, y)' => made[x][y] = 0
                    /\ \A p \in Requests : Approving(p, x, y)' =>
                         /\ made[x][y] = 0
                         /\ ~Undecided(x, y)'
                         /\ \A z \in Requests : Approving(z, x, y)' => z = p
  BY DEF ClaimsOK
<1>2. Undecided(x, y)' <=> IF x = s /\ y = d THEN v \in {"None", "Pending"}
                                            ELSE Undecided(x, y)
  BY <1>1 DEF Undecided
<1> QED
  BY <1>2 DEF ClaimsOK

LEMMA ReleaseStep ==
  ASSUME TypeOK, ClaimsOK, NEW r \in Requests, ApproveRelease(r) \/ DismissCommit(r)
  PROVE  ClaimsOK'
<1> PICK q \in Request : q = req[r]
  BY DEF TypeOK
<1>1. /\ q.op \in {"release", "dismiss"}
      /\ req' = [req EXCEPT ![r] = Idle]
      /\ UNCHANGED made
  BY DEF ApproveRelease, DismissCommit, checks
<1>2. q.sched \in Schedules /\ q.date \in Dates
  BY <1>1, RequestFields DEF ApproveRelease, DismissCommit
<1>3. \A p \in Requests, x \in Schedules, y \in Dates :
        Approving(p, x, y)' => p # r /\ Approving(p, x, y)
  BY <1>1 DEF TypeOK, Approving, Idle, ApprovalSteps
<1>4. CASE ApproveRelease(r)
  <2>1. draft' = [draft EXCEPT ![q.sched][q.date] = "Pending"]
          /\ Approving(r, q.sched, q.date)
    BY <1>4 DEF ApproveRelease, Approving, ApprovalSteps
  <2>2. /\ made[q.sched][q.date] = 0
        /\ \A p \in Requests : ~Approving(p, q.sched, q.date)'
    BY <1>2, <1>3, <2>1 DEF ClaimsOK
  <2>3. "Pending" \in DraftStatus
    BY DEF DraftStatus
  <2> QED
    BY <1>1, <1>2, <1>3, <2>1, <2>2, <2>3, StatusWritten
<1>5. CASE DismissCommit(r)
  <2>1. draft' = [draft EXCEPT ![q.sched][q.date] = "Dismissed"]
    BY <1>5 DEF DismissCommit
  <2>2. "Dismissed" \in DraftStatus
    BY DEF DraftStatus
  <2> QED
    BY <1>1, <1>2, <1>3, <2>1, <2>2, StatusWritten
<1> QED
  BY <1>4, <1>5

LEMMA DraftStep ==
  ASSUME TypeOK, ClaimsOK, NEW w \in Sweeps, SweepDraft(w)
  PROVE  ClaimsOK'
<1> PICK q \in Sweep : q = sweep[w]
  BY DEF TypeOK
<1> DEFINE s == q.at
           d == q.read[s].date
<1>1. /\ q.stage = "draft"
      /\ draft' = [draft EXCEPT ![s][d] = IF @ = "None" THEN "Pending" ELSE @]
      /\ UNCHANGED <<made, req>>
  BY DEF SweepDraft, checks
<1>2. s \in Schedules /\ d \in Dates
  BY <1>1, SweepFields, DatesFacts
<1> HIDE DEF s, d
<1>3. CASE draft[s][d] = "None"
  <2>1. draft' = [draft EXCEPT ![s][d] = "Pending"] /\ "Pending" \in DraftStatus
    BY <1>1, <1>2, <1>3 DEF TypeOK, DraftStatus
  <2>2. made[s][d] = 0 /\ \A p \in Requests : ~Approving(p, s, d)
    BY <1>2, <1>3 DEF ClaimsOK, Undecided
  <2>3. \A p \in Requests, x \in Schedules, y \in Dates :
          Approving(p, x, y)' <=> Approving(p, x, y)
    BY <1>1 DEF Approving
  <2> QED
    BY <1>1, <1>2, <2>1, <2>2, <2>3, StatusWritten
<1>4. CASE draft[s][d] # "None"
  <2>1. UNCHANGED draft
    BY <1>1, <1>2, <1>4 DEF TypeOK
  <2> QED
    BY <1>1, <2>1, ClaimsStay
<1> QED
  BY <1>3, <1>4

LEMMA NextClaims == TypeOK /\ ClaimsOK /\ [Next]_vars => ClaimsOK'
<1> SUFFICES ASSUME TypeOK, ClaimsOK, [Next]_vars
             PROVE  ClaimsOK'
  OBVIOUS
<1>1. CASE Staff \/ NextDay \/ UNCHANGED vars
  <2>1. UNCHANGED <<draft, made, req>>
    BY <1>1 DEF Staff, EnableSchedule, SetStatus, EditEmployee, SetAutoRun, OtherPaycheck,
       RemovePaycheck, NextDay, vars, checks
  <2> QED
    BY <2>1, ClaimsStay
<1>2. CASE \E w \in Sweeps : Sweeping(w)
  <2> PICK w \in Sweeps : Sweeping(w)
    BY <1>2
  <2>1. CASE SweepDraft(w)
    BY <2>1, DraftStep
  <2>2. CASE ~SweepDraft(w)
    <3>1. UNCHANGED <<draft, made, req>>
      BY <2>2 DEF Sweeping, JobBegin, RunBegin, SweepStart, SweepEmployee, SweepAdvance,
         SweepFail, checks
    <3> QED
      BY <3>1, ClaimsStay
  <2> QED
    BY <2>1, <2>2
<1>3. CASE \E r \in Requests : Deciding(r)
  <2> PICK r \in Requests : Deciding(r)
    BY <1>3
  <2>1. CASE \E s \in Schedules, d \in PayDates : ApproveClaim(r, s, d)
    BY <2>1, ClaimStep
  <2>2. CASE \E s \in Schedules, d \in PayDates : DismissBegin(r, s, d)
    <3>1. UNCHANGED <<draft, made>> /\ req[r] = Idle /\ req'[r].op = "dismiss"
            /\ \A x \in Requests : x # r => req'[x] = req[x]
      BY <2>2 DEF DismissBegin, TypeOK, checks
    <3>2. \A x \in Requests, s \in Schedules, d \in Dates :
            Approving(x, s, d)' => Approving(x, s, d)
      BY <3>1 DEF Approving, ApprovalSteps
    <3> QED
      BY <3>1, <3>2 DEF ClaimsOK, Undecided
  <2>3. CASE ApproveEmployee(r) \/ ApproveRefuse(r)
    <3>1. UNCHANGED <<draft, made>>
            /\ req[r].op \in ApprovalSteps
            /\ \E op \in ApprovalSteps : req' = [req EXCEPT ![r].op = op]
      BY <2>3 DEF ApproveEmployee, ApproveRefuse, ApprovalSteps, checks
    <3>2. req[r] \in [op: ApprovalSteps \cup {"dismiss"}, sched: Schedules, date: PayDates]
      BY <3>1 DEF TypeOK, Request, Idle, ApprovalSteps
    <3>3. \A x \in Requests : req'[x].sched = req[x].sched /\ req'[x].date = req[x].date
            /\ (req'[x].op \in ApprovalSteps <=> req[x].op \in ApprovalSteps)
      BY <3>1, <3>2 DEF TypeOK
    <3>4. \A x \in Requests, s \in Schedules, d \in Dates :
            Approving(x, s, d)' <=> Approving(x, s, d)
      BY <3>3 DEF Approving
    <3> QED
      BY <3>1, <3>4 DEF ClaimsOK, Undecided
  <2>4. CASE ApproveThrow(r)
    BY <2>4, ClaimEnds DEF ApproveThrow, checks
  <2> QED
    BY <2>1, <2>2, <2>3, <2>4, CreateStep, ReleaseStep DEF Deciding
<1>4. CASE Restart
  <2>1. UNCHANGED <<draft, made>> /\ \A x \in Requests : req'[x] = Idle
    BY <1>4 DEF Restart, checks
  <2> QED
    BY <2>1 DEF ClaimsOK, Undecided, Approving, Idle, ApprovalSteps
<1> QED
  BY <1>1, <1>2, <1>3, <1>4 DEF Next

LEMMA ClaimInvariant == Spec => [](TypeOK /\ ClaimsOK)
<1>1. Init => ClaimsOK
  BY DEF Init, ClaimsOK, Undecided, Approving, Idle, ApprovalSteps
<1> QED
  BY <1>1, InitType, NextType, NextClaims, PTL DEF Spec

\* However many requests approve, release, dismiss and approve again one draft,
\* whatever throws and whenever the process restarts, one paycheck comes of it.
THEOREM PaidOnce == Spec => []OnePaycheckPerDraft
<1>1. ClaimsOK => OnePaycheckPerDraft
  BY DEF ClaimsOK, OnePaycheckPerDraft
<1> QED
  BY <1>1, ClaimInvariant, PTL

\* No step of any sweep, request or member of staff re-opens or pays a draft
\* that was dismissed while nobody was approving it.
THEOREM DismissedStays == Spec => DismissalStands
<1> DEFINE Stands == \A s \in Schedules, d \in Dates :
       draft[s][d] = "Dismissed" /\ (\A r \in Requests : ~Approving(r, s, d))
         => draft'[s][d] = "Dismissed" /\ made'[s][d] = made[s][d]
<1>1. TypeOK /\ [Next]_vars => Stands
  <2> SUFFICES ASSUME TypeOK, [Next]_vars, NEW s \in Schedules, NEW d \in Dates,
                      draft[s][d] = "Dismissed", \A r \in Requests : ~Approving(r, s, d)
               PROVE  draft'[s][d] = "Dismissed" /\ made'[s][d] = made[s][d]
    OBVIOUS
  <2>1. CASE \E w \in Sweeps : SweepDraft(w)
    <3> PICK w \in Sweeps : SweepDraft(w)
      BY <2>1
    <3>1. sweep[w] \in Sweep /\ sweep[w].stage = "draft"
      BY DEF SweepDraft, TypeOK
    <3>2. sweep[w].at \in Schedules /\ sweep[w].read[sweep[w].at].date \in Dates
      BY <3>1, SweepFields, DatesFacts
    <3> QED
      BY <3>2 DEF SweepDraft, TypeOK, checks
  <2>2. CASE \E r \in Requests : ApproveCreate(r) \/ ApproveRelease(r) \/ DismissCommit(r)
    <3> PICK r \in Requests : ApproveCreate(r) \/ ApproveRelease(r) \/ DismissCommit(r)
      BY <2>2
    <3> PICK q \in Request : q = req[r]
      BY DEF TypeOK
    <3>1. q.op \in {"employed", "release", "dismiss"}
      BY DEF ApproveCreate, ApproveRelease, DismissCommit
    <3>2. q.sched \in Schedules /\ q.date \in Dates
      BY <3>1, RequestFields
    <3>3. CASE ApproveCreate(r)
      <4>1. q.sched # s \/ q.date # d
        BY <3>3 DEF ApproveCreate, Approving, ApprovalSteps
      <4> QED
        BY <3>2, <3>3, <4>1 DEF ApproveCreate, TypeOK
    <3>4. CASE ApproveRelease(r)
      <4>1. q.sched # s \/ q.date # d
        BY <3>4 DEF ApproveRelease, Approving, ApprovalSteps
      <4> QED
        BY <3>2, <3>4, <4>1 DEF ApproveRelease, TypeOK, checks
    <3>5. CASE DismissCommit(r)
      BY <3>2, <3>5 DEF DismissCommit, TypeOK, checks
    <3> QED
      BY <3>3, <3>4, <3>5
  <2>3. CASE \E r \in Requests, x \in Schedules, y \in PayDates : ApproveClaim(r, x, y)
    <3> PICK r \in Requests, x \in Schedules, y \in PayDates : ApproveClaim(r, x, y)
      BY <2>3
    <3>1. x # s \/ y # d
      BY DEF ApproveClaim, Claimable
    <3> QED
      BY <3>1, DatesFacts DEF ApproveClaim, TypeOK, checks
  <2>4. CASE ~ \/ \E w \in Sweeps : SweepDraft(w)
               \/ \E r \in Requests : ApproveCreate(r) \/ ApproveRelease(r) \/ DismissCommit(r)
               \/ \E r \in Requests, x \in Schedules, y \in PayDates : ApproveClaim(r, x, y)
    <3>1. UNCHANGED <<draft, made>>
      BY <2>4 DEF Next, Staff, EnableSchedule, SetStatus, EditEmployee, SetAutoRun,
         OtherPaycheck, RemovePaycheck, Sweeping, JobBegin, RunBegin, SweepStart,
         SweepEmployee, SweepAdvance, SweepFail, Deciding, DismissBegin, ApproveEmployee,
         ApproveRefuse, ApproveThrow, Restart, NextDay, vars, checks
    <3> QED
      BY <3>1
  <2> QED
    BY <2>1, <2>2, <2>3, <2>4
<1>2. TypeOK /\ [Next]_vars => [Stands]_vars
  BY <1>1
<1>3. DismissalStands <=> [][Stands]_vars
  BY DEF DismissalStands
<1> QED
  BY <1>2, <1>3, TypeCorrect, PTL DEF Spec

-----------------------------------------------------------------------------
(***************************************************************************)
(* NoPayDateLost                                                           *)
(***************************************************************************)
(***************************************************************************)
(* Steady(s): the step leaves the plan of s and its row's step, or takes s *)
(* out of account, and unsettles no date.                                  *)
(***************************************************************************)
Steady(s) ==
  Planned(s)' => /\ Planned(s)
                 /\ plan'[s] = plan[s]
                 /\ sched'[s].step = sched[s].step
                 /\ settled[s] \subseteq settled'[s]
AllSteady == \A s \in Schedules : Steady(s)

LEMMA SteadyKeeps ==
  ASSUME NEW s \in Schedules, Steady(s)
  PROVE  /\ Planned(s)' /\ Spaced(s) => Spaced(s)'
         /\ \A read : Covers(s, read) => Covers(s, read)'
<1>1. ASSUME NEW d, Planned(s)', Passed(s, d)
      PROVE  Passed(s, d)'
  BY <1>1 DEF Passed, Steady
<1>2. ASSUME Planned(s)', Spaced(s)
      PROVE  Spaced(s)'
  BY <1>2 DEF Spaced, Steady
<1>3. ASSUME NEW read, Covers(s, read)
      PROVE  Covers(s, read)'
  <2> SUFFICES ASSUME Planned(s)'
               PROVE  /\ read.date \in plan'[s]
                      /\ read.step = sched'[s].step
                      /\ Passed(s, read.date)'
    BY DEF Covers
  <2>1. /\ Planned(s) /\ plan'[s] = plan[s] /\ sched'[s].step = sched[s].step
    BY DEF Steady
  <2>2. Passed(s, read.date)
    BY <1>3, <2>1 DEF Covers
  <2> QED
    BY <1>1, <1>3, <2>1, <2>2 DEF Covers
<1> QED
  BY <1>2, <1>3

\* Schedules are steady when no row is touched and settled dates only grow.
LEMMA UntouchedSteady ==
  ASSUME UNCHANGED <<sched, plan, raced>>,
         \A s \in Schedules : settled[s] \subseteq settled'[s]
  PROVE  AllSteady
  BY DEF AllSteady, Steady, Planned, Exists

LEMMA QuietRows ==
  ASSUME RowsKept, AllSteady,
         \A s \in Schedules : Planned(s)' => sched'[s].next = sched[s].next
  PROVE  RowsKept'
<1> SUFFICES ASSUME NEW s \in Schedules, Planned(s)'
             PROVE  Spaced(s)' /\ sched'[s].next \in plan'[s] /\ Kept(s)'
  BY DEF RowsKept
<1>1. /\ Steady(s) /\ Planned(s) /\ plan'[s] = plan[s] /\ sched'[s].next = sched[s].next
      /\ settled[s] \subseteq settled'[s]
  BY DEF AllSteady, Steady
<1>2. Kept(s)'
  BY <1>1 DEF RowsKept, Kept
<1> QED
  BY <1>1, <1>2, SteadyKeeps DEF RowsKept

\* What a sweep holds stays kept while its schedules are steady.
LEMMA SweepStays ==
  ASSUME AllSteady, NEW q \in Sweep, SweepKept(q)
  PROVE  SweepKept(q)'
<1>1. q.stage # "idle" => q.todo \subseteq Schedules /\ q.at \in Schedules
  BY SweepFields
<1>2. q.stage # "idle" => \A s \in q.todo : Covers(s, q.read[s])'
  BY <1>1, SteadyKeeps DEF SweepKept, AllSteady
<1>3. q.stage \in {"draft", "pass", "advance"} => Covers(q.at, q.read[q.at])'
  BY <1>1, SteadyKeeps DEF SweepKept, AllSteady
<1>4. ASSUME q.stage = "advance", Planned(q.at)'
      PROVE  q.read[q.at].date \in settled'[q.at]
  <2>1. Steady(q.at)
    BY <1>1, <1>4 DEF AllSteady
  <2> QED
    BY <1>4, <2>1 DEF SweepKept, Steady
<1> QED
  BY <1>2, <1>3, <1>4 DEF SweepKept

LEMMA QuietSweeps ==
  ASSUME SweepsKept, UNCHANGED sweep, AllSteady
  PROVE  SweepsKept'
  BY SweepStays DEF SweepsKept

\* One sweep takes a step.
LEMMA OneSweep ==
  ASSUME TypeOK, SweepsKept, AllSteady, NEW w \in Sweeps, NEW q \in Sweep,
         sweep' = [sweep EXCEPT ![w] = q], SweepKept(q)'
  PROVE  SweepsKept'
<1>1. sweep'[w] = q /\ \A x \in Sweeps : x # w => sweep'[x] = sweep[x]
  BY DEF TypeOK
<1>2. ASSUME NEW x \in Sweeps, NEW n \in Sweep, n = sweep'[x]
      PROVE  SweepKept(n)'
  <2>1. CASE x = w
    <3>1. n = q
      BY <1>1, <1>2, <2>1
    <3> QED
      BY <3>1
  <2>2. CASE x # w
    BY <1>1, <1>2, <2>2, SweepStays DEF SweepsKept
  <2> QED
    BY <2>1, <2>2
<1> QED
  BY <1>2 DEF SweepsKept

\* Enabling changes plan and step: a sweep that has read the row makes it raced.
LEMMA EnableKept ==
  ASSUME TypeOK, RowsKept, SweepsKept, NEW s \in Schedules, NEW d \in Dates,
         NEW days \in Steps, EnableSchedule(s, d, days)
  PROVE  RowsKept' /\ SweepsKept'
<1> DEFINE first == PlanFrom(d, days, MaxDate)
           old == {x \in Dates : draft[s][x] # "None"}
           row == [status |-> "Active", next |-> d, step |-> days]
<1>1. /\ sched' = [sched EXCEPT ![s] = row]
      /\ plan' = [plan EXCEPT ![s] = first]
      /\ raced' = [raced EXCEPT ![s] = InFlightOn(s)]
      /\ settled' = [settled EXCEPT ![s] = old]
      /\ UNCHANGED sweep
  BY DEF EnableSchedule
<1>2. /\ row.next = d /\ row.step = days /\ d \in Nat
      /\ d \in first
      /\ \A x \in first :
           /\ x \in Nat /\ d <= x
           /\ x + days <= MaxDate => x + days \in first
           /\ \A y \in first : x < y => x + days <= y
  BY EnableFacts
<1> HIDE DEF first, old, row
<1>3. InFlightOn(s) \in BOOLEAN
  BY DEF InFlightOn
<1>4. /\ sched'[s] = row /\ plan'[s] = first /\ raced'[s] = InFlightOn(s)
      /\ \A x \in Schedules : x # s => /\ sched'[x] = sched[x] /\ plan'[x] = plan[x]
                                       /\ raced'[x] = raced[x] /\ settled'[x] = settled[x]
  BY <1>1 DEF TypeOK
<1>5. \A x \in Schedules : x # s => Steady(x) /\ (Planned(x)' => Planned(x))
  BY <1>4 DEF Steady, Planned, Exists
<1>6. RowsKept'
  <2> SUFFICES ASSUME NEW x \in Schedules, Planned(x)'
               PROVE  Spaced(x)' /\ sched'[x].next \in plan'[x] /\ Kept(x)'
    BY DEF RowsKept
  <2>1. CASE x = s
    <3>1. /\ plan'[x] = first /\ sched'[x] = row
      BY <1>4, <2>1
    <3>2. Spaced(x)'
      BY <1>2, <3>1 DEF Spaced
    <3>3. \A y \in first : ~(y < d)
      BY <1>2
    <3>4. Kept(x)'
      BY <1>2, <3>1, <3>3 DEF Kept
    <3> QED
      BY <1>2, <3>1, <3>2, <3>4
  <2>2. CASE x # s
    <3>1. /\ sched'[x] = sched[x] /\ plan'[x] = plan[x] /\ settled'[x] = settled[x]
      BY <1>4, <2>2
    <3>2. Spaced(x) /\ sched[x].next \in plan[x] /\ Kept(x)
      BY <1>5, <2>2 DEF RowsKept
    <3> QED
      BY <3>1, <3>2 DEF Spaced, Kept
  <2> QED
    BY <2>1, <2>2
<1>7. ASSUME NEW x \in Schedules, x = s => InFlightOn(s)
      PROVE  Planned(x)' => Planned(x) /\ settled'[x] = settled[x] /\ Steady(x)
  BY <1>4, <1>5, <1>7 DEF Planned
<1>8. SweepsKept'
  <2> SUFFICES ASSUME NEW w \in Sweeps, NEW q \in Sweep, q = sweep[w], SweepKept(q)
               PROVE  SweepKept(q)'
    BY <1>1 DEF SweepsKept
  <2>1. q.stage # "idle" => q.todo \subseteq Schedules /\ q.at \in Schedules /\ q # IdleSweep
    BY SweepFields, IdleTypes
  <2>2. /\ q.stage # "idle" /\ s \in q.todo => InFlightOn(s)
        /\ q.stage \in {"draft", "pass", "advance"} /\ q.at = s => InFlightOn(s)
    BY <2>1 DEF InFlightOn
  <2>3. ASSUME NEW x \in Schedules, NEW read, x = s => InFlightOn(s), Covers(x, read)
        PROVE  Covers(x, read)'
    <3>1. CASE Planned(x)'
      BY <1>7, <2>3, <3>1, SteadyKeeps
    <3>2. CASE ~Planned(x)'
      BY <3>2 DEF Covers
    <3> QED
      BY <3>1, <3>2
  <2>4. q.stage # "idle" => \A x \in q.todo : Covers(x, q.read[x])'
    BY <2>1, <2>2, <2>3 DEF SweepKept
  <2>5. q.stage \in {"draft", "pass", "advance"} => Covers(q.at, q.read[q.at])'
    BY <2>1, <2>2, <2>3 DEF SweepKept
  <2>6. q.stage = "advance" => (Planned(q.at)' => q.read[q.at].date \in settled'[q.at])
    BY <1>7, <2>1, <2>2 DEF SweepKept
  <2> QED
    BY <2>4, <2>5, <2>6 DEF SweepKept
<1> QED
  BY <1>6, <1>8

\* The row update of a sweep, from a date that is drafted or passed over.
LEMMA AdvanceKept ==
  ASSUME TypeOK, RowsKept, SweepsKept, NEW w \in Sweeps, SweepAdvance(w)
  PROVE  RowsKept' /\ SweepsKept'
<1> PICK q \in Sweep : q = sweep[w]
  BY DEF TypeOK
<1>1. q.stage \in {"pass", "advance"} /\ SweepKept(q)
  BY DEF SweepAdvance, SweepsKept
<1> PICK s \in Schedules, read \in Reading : s = q.at /\ read = q.read[s]
  BY <1>1, SweepFields
<1> DEFINE n == Rested(q)
           row == [sched[s] EXCEPT !.next = DateAfter(read)]
<1>2. /\ sched' = [sched EXCEPT ![s] = row]
      /\ settled' = [settled EXCEPT ![s] = IF q.stage = "pass" THEN @ \cup {read.date} ELSE @]
      /\ sweep' = [sweep EXCEPT ![w] = n]
      /\ UNCHANGED <<plan, raced>>
  BY DEF SweepAdvance, enabled
<1>3. /\ row.status = sched[s].status /\ row.step = sched[s].step
      /\ row.next = DateAfter(read)
  BY DEF TypeOK, Row
<1>4. n \in Sweep /\ n.stage \in {"idle", "next"}
        /\ (n.stage # "idle" => n.todo = q.todo /\ n.read = q.read)
  BY <1>1, SweepSteps
<1> HIDE DEF n, row
<1>5. /\ sched'[s] = row /\ \A x \in Schedules : x # s => sched'[x] = sched[x]
  BY <1>2 DEF TypeOK
<1>6. \A x \in Schedules : settled[x] \subseteq settled'[x]
  BY <1>2 DEF TypeOK
<1>7. \A x \in Schedules : (Planned(x)' <=> Planned(x)) /\ sched'[x].step = sched[x].step
  BY <1>2, <1>3, <1>5 DEF Planned, Exists
<1>8. AllSteady
  BY <1>2, <1>6, <1>7 DEF AllSteady, Steady
<1>9. Covers(s, read) /\ (Planned(s) => read.date \in settled'[s])
  BY <1>1, <1>2, <1>6 DEF SweepKept, TypeOK
<1>10. RowsKept'
  <2> SUFFICES ASSUME NEW x \in Schedules, Planned(x)'
               PROVE  Spaced(x)' /\ sched'[x].next \in plan'[x] /\ Kept(x)'
    BY DEF RowsKept
  <2>1. /\ Planned(x) /\ Spaced(x) /\ Kept(x) /\ sched[x].next \in plan[x]
        /\ plan'[x] = plan[x] /\ settled[x] \subseteq settled'[x]
    BY <1>2, <1>6, <1>7 DEF RowsKept
  <2>2. Spaced(x)'
    BY <1>8, <2>1, SteadyKeeps DEF AllSteady
  <2>3. CASE x # s
    <3>1. sched'[x].next = sched[x].next
      BY <1>5, <2>3
    <3>2. Kept(x)'
      BY <2>1, <3>1 DEF Kept
    <3> QED
      BY <2>1, <2>2, <3>1, <3>2
  <2>4. CASE x = s
    <3>1. /\ read.date \in plan[x] /\ read.step = sched[x].step /\ Passed(x, read.date)
          /\ read.date \in settled'[x]
      BY <1>9, <2>1, <2>4 DEF Covers
    <3>2. /\ sched'[x].next = read.date + sched[x].step
          /\ read.date \in Nat /\ sched'[x].next \in Dates
      BY <1>3, <1>5, <2>4, <3>1, DatesFacts
    <3>3. sched'[x].next \in plan[x]
      BY <2>1, <3>1, <3>2, DatesFacts DEF Spaced
    <3>4. ASSUME NEW y \in plan[x], y < sched'[x].next
          PROVE  y \in settled'[x]
      <4>1. y \in Nat /\ sched[x].step \in Nat
        BY DatesFacts DEF TypeOK, Row
      <4>2. ~(read.date < y)
        BY <2>1, <3>1, <3>2, <3>4, <4>1 DEF Spaced
      <4>3. y = read.date \/ y < read.date
        BY <3>2, <4>1, <4>2
      <4> QED
        BY <2>1, <3>1, <4>3 DEF Passed
    <3>5. Kept(x)'
      BY <2>1, <3>4 DEF Kept
    <3> QED
      BY <2>1, <2>2, <3>3, <3>5
  <2> QED
    BY <2>3, <2>4
<1>11. SweepKept(n)'
  <2>1. n.stage # "idle" => \A x \in n.todo : Covers(x, n.read[x])'
    BY <1>1, <1>4, <1>8, SweepFields, SteadyKeeps DEF SweepKept, AllSteady
  <2> QED
    BY <1>4, <2>1 DEF SweepKept
<1>12. SweepsKept'
  BY <1>2, <1>4, <1>8, <1>11, OneSweep
<1> QED
  BY <1>10, <1>12

LEMMA SweepingKept ==
  ASSUME TypeOK, RowsKept, SweepsKept, NEW w \in Sweeps, Sweeping(w)
  PROVE  RowsKept' /\ SweepsKept'
<1> PICK q \in Sweep : q = sweep[w]
  BY DEF TypeOK
<1>0. SweepKept(q)
  BY DEF SweepsKept
<1>1. CASE JobBegin(w) \/ RunBegin(w)
  <2> PICK day \in Dates : \E rows \in SUBSET DueOn(day) : SweepStart(w, rows)
    BY <1>1 DEF JobBegin, RunBegin, TypeOK
  <2> PICK rows \in SUBSET DueOn(day) : SweepStart(w, rows)
    OBVIOUS
  <2>1. UNCHANGED <<sched, plan, raced, settled>> /\ AllSteady
    BY SweepRead, UntouchedSteady
  <2> PICK n \in Sweep : n = sweep'[w]
    BY SweepRead
  <2>2. /\ n.stage = "next" /\ sweep' = [sweep EXCEPT ![w] = n]
        /\ \A s \in n.todo : s \in Schedules /\ n.read[s] = ReadingOf(s)
    BY SweepRead
  <2>3. \A s \in n.todo : Covers(s, n.read[s])
    <3> SUFFICES ASSUME NEW s \in n.todo
                 PROVE  Covers(s, n.read[s])
      OBVIOUS
    <3>1. /\ s \in Schedules /\ n.read[s].date = sched[s].next
          /\ n.read[s].step = sched[s].step
      <4>1. ReadingOf(s).date = sched[s].next /\ ReadingOf(s).step = sched[s].step
        BY DEF ReadingOf
      <4>2. s \in Schedules /\ n.read[s] = ReadingOf(s)
        BY <2>2
      <4> QED
        BY <4>1, <4>2
    <3> QED
      BY <3>1 DEF RowsKept, Covers, Kept, Passed
  <2>4. SweepKept(n)'
    <3>1. \A s \in n.todo : Covers(s, n.read[s])'
      BY <2>1, <2>2, <2>3, SteadyKeeps DEF AllSteady
    <3> QED
      BY <2>2, <3>1 DEF SweepKept
  <2>5. SweepsKept'
    BY <2>1, <2>2, <2>4, OneSweep
  <2> QED
    BY <2>1, <2>5, QuietRows
<1>2. CASE \E s \in Schedules : SweepEmployee(w, s)
  <2> PICK s \in Schedules : SweepEmployee(w, s)
    BY <1>2
  <2> PICK stage \in {"draft", "pass"} : stage = IF s \in eligible THEN "draft" ELSE "pass"
    OBVIOUS
  <2> DEFINE n == [q EXCEPT !.todo = @ \ {s}, !.at = s, !.stage = stage]
  <2>1. /\ q.stage = "next" /\ s \in q.todo /\ sweep' = [sweep EXCEPT ![w] = n]
        /\ UNCHANGED <<sched, plan, raced, settled>>
    BY DEF SweepEmployee, enabled
  <2>2. n \in Sweep /\ n.stage = stage /\ n.todo = q.todo \ {s} /\ n.at = s /\ n.read = q.read
    <3>1. q \in [stage: {"next", "draft", "pass", "advance"}, todo: SUBSET Schedules,
                 at: Schedules, read: [Schedules -> Reading]]
      BY <2>1 DEF Sweep, IdleSweep
    <3> QED
      BY <2>1, <3>1, SweepSteps
  <2> HIDE DEF n
  <2>3. AllSteady
    BY <2>1, UntouchedSteady
  <2>4. \A x \in q.todo : Covers(x, q.read[x])'
    BY <1>0, <2>1, <2>3, SweepFields, SteadyKeeps DEF SweepKept, AllSteady
  <2>5. SweepKept(n)'
    BY <2>1, <2>2, <2>4 DEF SweepKept
  <2>6. SweepsKept'
    BY <2>1, <2>2, <2>3, <2>5, OneSweep
  <2> QED
    BY <2>1, <2>3, <2>6, QuietRows
<1>3. CASE SweepDraft(w)
  <2>1. q.stage = "draft"
    BY <1>3 DEF SweepDraft
  <2> PICK s \in Schedules, d \in Dates : s = q.at /\ d = q.read[s].date
    BY <2>1, SweepFields, DatesFacts
  <2> DEFINE n == [q EXCEPT !.stage = "advance"]
  <2>2. /\ settled' = [settled EXCEPT ![s] = @ \cup {d}]
        /\ sweep' = [sweep EXCEPT ![w] = n]
        /\ UNCHANGED <<sched, plan, raced>>
    BY <1>3 DEF SweepDraft, enabled
  <2>3. /\ n \in Sweep /\ n.stage = "advance" /\ n.todo = q.todo /\ n.at = s /\ n.read = q.read
    BY <2>1, SweepSteps DEF Sweep, IdleSweep
  <2> HIDE DEF n
  <2>4. (\A x \in Schedules : settled[x] \subseteq settled'[x]) /\ d \in settled'[s]
    BY <2>2 DEF TypeOK
  <2>5. AllSteady
    BY <2>2, <2>4, UntouchedSteady
  <2>6. SweepKept(n)'
    <3>1. /\ \A x \in q.todo : Covers(x, q.read[x])'
          /\ Covers(s, q.read[s])'
      BY <1>0, <2>1, <2>5, SweepFields, SteadyKeeps DEF SweepKept, AllSteady
    <3> QED
      BY <2>3, <2>4, <3>1 DEF SweepKept
  <2>7. SweepsKept'
    BY <2>2, <2>3, <2>5, <2>6, OneSweep
  <2> QED
    BY <2>2, <2>5, <2>7, QuietRows
<1>4. CASE SweepFail(w)
  <2> DEFINE n == Rested(q)
  <2>1. /\ q.stage # "idle" /\ sweep' = [sweep EXCEPT ![w] = n]
        /\ UNCHANGED <<sched, plan, raced, settled>>
    BY <1>4 DEF SweepFail, enabled
  <2>2. n \in Sweep /\ n.stage \in {"idle", "next"}
          /\ (n.stage # "idle" => n.todo = q.todo /\ n.read = q.read)
    BY <2>1, SweepSteps
  <2> HIDE DEF n
  <2>3. AllSteady
    BY <2>1, UntouchedSteady
  <2>4. SweepKept(n)'
    <3>1. n.stage # "idle" => \A x \in n.todo : Covers(x, n.read[x])'
      BY <1>0, <2>1, <2>2, <2>3, SweepFields, SteadyKeeps DEF SweepKept, AllSteady
    <3> QED
      BY <2>2, <3>1 DEF SweepKept
  <2>5. SweepsKept'
    BY <2>1, <2>2, <2>3, <2>4, OneSweep
  <2> QED
    BY <2>1, <2>3, <2>5, QuietRows
<1> QED
  BY <1>1, <1>2, <1>3, <1>4, AdvanceKept DEF Sweeping

LEMMA NextKept ==
  ASSUME TypeOK, RowsKept, SweepsKept, [Next]_vars
  PROVE  RowsKept' /\ SweepsKept'
<1>1. CASE \E s \in Schedules, d \in Dates, days \in Steps : EnableSchedule(s, d, days)
  BY <1>1, EnableKept
<1>2. CASE \E s \in Schedules, status \in {"Active", "Stopped"} : SetStatus(s, status)
  <2> PICK s \in Schedules, status \in {"Active", "Stopped"} : SetStatus(s, status)
    BY <1>2
  <2>1. \A x \in Schedules :
          /\ sched'[x].next = sched[x].next /\ sched'[x].step = sched[x].step
          /\ Exists(x)' => Exists(x)
    BY DEF SetStatus, TypeOK, Row, Exists
  <2>2. UNCHANGED <<plan, raced, settled, sweep>>
    BY DEF SetStatus, enabled
  <2>3. AllSteady
    BY <2>1, <2>2 DEF AllSteady, Steady, Planned
  <2> QED
    BY <2>1, <2>2, <2>3, QuietRows, QuietSweeps
<1>3. CASE \E w \in Sweeps : Sweeping(w)
  BY <1>3, SweepingKept
<1>4. CASE Restart
  <2>1. UNCHANGED <<sched, plan, raced, settled>> /\ \A w \in Sweeps : sweep'[w] = IdleSweep
    BY <1>4 DEF Restart, enabled
  <2>2. AllSteady /\ SweepsKept'
    BY <2>1, IdleTypes, UntouchedSteady DEF SweepsKept, SweepKept
  <2> QED
    BY <2>1, <2>2, QuietRows
<1>5. CASE ~ \/ \E s \in Schedules, d \in Dates, days \in Steps : EnableSchedule(s, d, days)
             \/ \E s \in Schedules, status \in {"Active", "Stopped"} : SetStatus(s, status)
             \/ \E w \in Sweeps : Sweeping(w)
             \/ Restart
  <2>1. UNCHANGED <<sched, plan, raced, settled, sweep>>
    <3>1. CASE Staff \/ NextDay \/ UNCHANGED vars
      BY <1>5, <3>1 DEF Staff, EditEmployee, SetAutoRun, OtherPaycheck, RemovePaycheck,
         NextDay, vars, enabled
    <3>2. CASE \E r \in Requests : Deciding(r)
      BY <3>2 DEF Deciding, ApproveClaim, DismissBegin, ApproveEmployee, ApproveCreate,
         ApproveRefuse, ApproveRelease, ApproveThrow, DismissCommit, enabled
    <3> QED
      BY <1>5, <3>1, <3>2 DEF Next
  <2>2. AllSteady
    BY <2>1, UntouchedSteady
  <2> QED
    BY <2>1, <2>2, QuietRows, QuietSweeps
<1> QED
  BY <1>1, <1>2, <1>3, <1>4, <1>5

LEMMA KeptInvariant == Spec => [](TypeOK /\ RowsKept /\ SweepsKept)
<1>1. Init => RowsKept /\ SweepsKept
  BY IdleTypes DEF Init, RowsKept, SweepsKept, SweepKept, Planned, Exists, NoRow
<1>2. TypeOK /\ RowsKept /\ SweepsKept /\ [Next]_vars => RowsKept' /\ SweepsKept'
  BY NextKept
<1> QED
  BY <1>1, <1>2, InitType, NextType, PTL DEF Spec

\* For any number of overlapping sweeps, failures and restarts, and any dates
\* and frequencies enabled: a schedule never moves past a pay date of its own
\* that was not drafted, unless the employee could not be paid, or staff enabled
\* the schedule again under a sweep that had read it.
THEOREM NoDateIsLost == Spec => []NoPayDateLost
<1>1. RowsKept => NoPayDateLost
  BY DEF NoPayDateLost, RowsKept, Planned
<1> QED
  BY <1>1, KeptInvariant, PTL

-----------------------------------------------------------------------------
(***************************************************************************)
(* The connection pool: what a standstill looks like, for any pool and     *)
(* any callers                                                             *)
(***************************************************************************)
\* A caller is in a step of its kind; who is in the queue waits, and waits once;
\* who has the lock has a client, and is past the wait for the lock.
KindOfStep ==
  \A c \in Calls : step[c] \in {"locking", "working", "asking", "querying", "writing"}
                     => c \in Transactions
QueueWaits ==
  /\ \A i \in 1..Len(queue) : step[queue[i]] \in {"connecting", "asking"}
  /\ \A i, j \in 1..Len(queue) : queue[i] = queue[j] => i = j
OwnerBusy ==
  owner # NoCall => step[owner] \in {"working", "asking", "querying", "writing"}
Inv == PoolTypeOK /\ KindOfStep /\ QueueWaits /\ OwnerBusy

LEMMA InitInv == PoolInit => Inv
  BY DEF PoolInit, Inv, PoolTypeOK, KindOfStep, QueueWaits, OwnerBusy, CallSteps

\* A step of one caller that does not wait for a client: the lock stays with its
\* owner, whose step stays one of a lock's owner, or it goes.
LEMMA CallerSteps ==
  ASSUME Inv, NEW c \in Calls, NEW to \in CallSteps,
         step' = [step EXCEPT ![c] = to], UNCHANGED queue,
         step[c] \notin {"connecting", "asking"},
         to \in {"idle", "statement"} \/ c \in Transactions,
         owner' \in Transactions \cup {NoCall},
         owner' \in {owner, c, NoCall},
         owner' = c => to \in {"working", "asking", "querying", "writing"}
  PROVE  Inv'
<1>1. QueueWaits'
  BY DEF Inv, QueueWaits, PoolTypeOK
<1>2. KindOfStep'
  BY DEF Inv, KindOfStep, PoolTypeOK
<1>3. PoolTypeOK'
  BY DEF Inv, PoolTypeOK
<1>4. OwnerBusy'
  BY CallsAssumption DEF Inv, PoolTypeOK, OwnerBusy, Calls
<1> QED
  BY <1>1, <1>2, <1>3, <1>4 DEF Inv

\* A caller joins the queue, with the clients it holds.
LEMMA CallerWaits ==
  ASSUME Inv, NEW c \in Calls, NEW to \in {"connecting", "asking"},
         step' = [step EXCEPT ![c] = to], queue' = Append(queue, c), UNCHANGED owner,
         step[c] \notin {"connecting", "asking"},
         \/ to = "connecting" /\ step[c] = "idle"
         \/ to = "asking" /\ c \in Transactions
  PROVE  Inv'
<1>1. /\ Len(queue') = Len(queue) + 1
      /\ Len(queue) \in Nat
      /\ queue'[Len(queue) + 1] = c
      /\ \A i \in 1..Len(queue) : queue'[i] = queue[i] /\ queue[i] \in Calls
  BY DEF Inv, PoolTypeOK
<1>2. \A i \in 1..Len(queue) : queue[i] # c
  BY DEF Inv, QueueWaits
<1>3. QueueWaits'
  BY <1>1, <1>2 DEF Inv, QueueWaits, PoolTypeOK
<1>4. KindOfStep' /\ PoolTypeOK'
  BY DEF Inv, KindOfStep, PoolTypeOK, CallSteps, Borrowing
<1>5. OwnerBusy'
  BY CallsAssumption DEF Inv, PoolTypeOK, OwnerBusy, Calls
<1> QED
  BY <1>3, <1>4, <1>5 DEF Inv

\* The pool gives a client to the first in the queue.
LEMMA Granted ==
  ASSUME Inv, Grant
  PROVE  Inv'
<1> PICK c \in Calls : c = Head(queue)
  BY DEF Inv, PoolTypeOK, Grant
<1>1. /\ c = queue[1]
      /\ Len(queue) \in Nat \ {0}
      /\ Len(queue') = Len(queue) - 1
      /\ \A i \in 1..Len(queue') : queue'[i] = queue[i + 1]
      /\ queue' \in Seq(Calls)
  BY DEF Inv, PoolTypeOK, Grant
<1>2. step[c] \in {"connecting", "asking"}
  BY <1>1 DEF Inv, QueueWaits
<1>3. \A i \in 1..Len(queue') : queue'[i] # c
  BY <1>1 DEF Inv, QueueWaits
<1>4. QueueWaits'
  BY <1>1, <1>3 DEF Inv, QueueWaits, Grant, PoolTypeOK
<1>5. /\ Begun(c) \in CallSteps
      /\ Begun(c) = "statement" \/ c \in Transactions
      /\ step[c] = "asking" => Begun(c) = "querying"
  BY <1>2, CallsAssumption
  DEF Inv, KindOfStep, Begun, Entered, CallSteps, Borrowing, Calls
<1>6. step' = [step EXCEPT ![c] = Begun(c)] /\ UNCHANGED owner
  BY DEF Grant
<1>7. KindOfStep' /\ PoolTypeOK'
  BY <1>1, <1>5, <1>6 DEF Inv, KindOfStep, PoolTypeOK
<1>8. OwnerBusy'
  BY <1>2, <1>5, <1>6, CallsAssumption DEF Inv, PoolTypeOK, OwnerBusy, Calls
<1> QED
  BY <1>4, <1>7, <1>8 DEF Inv

LEMMA NextInv == Inv /\ [PoolNext]_poolVars => Inv'
<1> SUFFICES ASSUME Inv, [PoolNext]_poolVars PROVE Inv'
  OBVIOUS
<1> USE DEF Moves
<1>0. /\ owner \in Transactions \cup {NoCall}
      /\ \A c \in Calls : step[c] \in {"idle", "statement", "locking"} => owner # c
  BY CallsAssumption DEF Inv, PoolTypeOK, OwnerBusy
<1>1. CASE Grant
  BY <1>1, Granted
<1>2. ASSUME NEW c \in Calls, Connect(c) PROVE Inv'
  BY <1>2, CallerWaits DEF Connect, Waits
<1>3. ASSUME NEW c \in Calls, Lock(c) PROVE Inv'
  <2>1. c \in Transactions
    BY <1>3 DEF Lock, Inv, KindOfStep
  <2>2. Entered(c) \in CallSteps /\ Entered(c) \in {"working", "writing"}
    BY DEF Entered, CallSteps, Borrowing
  <2> QED
    BY <1>3, <2>1, <2>2, CallerSteps DEF Lock
<1>4. ASSUME NEW c \in Calls, Finish(c) PROVE Inv'
  <2>1. "idle" \in CallSteps
    BY DEF CallSteps
  <2> QED
    BY <1>0, <1>4, <2>1, CallerSteps DEF Finish
<1>5. ASSUME NEW c \in Calls, Ask(c) PROVE Inv'
  <2>1. c \in Transactions
    BY <1>5 DEF Ask, Inv, KindOfStep
  <2> QED
    BY <1>5, <2>1, CallerWaits DEF Ask, Waits
<1>6. ASSUME NEW c \in Calls, Answer(c) PROVE Inv'
  <2>1. c \in Transactions
    BY <1>6 DEF Answer, Inv, KindOfStep
  <2>2. "writing" \in CallSteps
    BY DEF CallSteps, Borrowing
  <2> QED
    BY <1>0, <1>6, <2>1, <2>2, CallerSteps DEF Answer
<1>7. ASSUME NEW c \in Calls, Commit(c) \/ PoolRollBack(c) PROVE Inv'
  <2>1. /\ "idle" \in CallSteps
        /\ step' = [step EXCEPT ![c] = "idle"] /\ UNCHANGED queue
        /\ step[c] \in {"working", "querying", "writing"}
        /\ owner' = IF owner = c THEN NoCall ELSE owner
    BY <1>7 DEF Commit, PoolRollBack, Unlocked, CallSteps
  <2>2. owner' # c /\ owner' \in {owner, NoCall}
    BY <2>1, CallsAssumption
  <2> QED
    BY <1>0, <2>1, <2>2, CallerSteps
<1>8. CASE UNCHANGED poolVars
  BY <1>8 DEF poolVars, Inv, PoolTypeOK, KindOfStep, QueueWaits, OwnerBusy
<1> QED
  BY <1>1, <1>2, <1>3, <1>4, <1>5, <1>6, <1>7, <1>8 DEF PoolNext, Work

\* Every reachable state of the pool is well typed, for any pool and callers.
THEOREM PoolTypeCorrect == PoolSpec => []PoolTypeOK
<1>1. Inv => PoolTypeOK
  BY DEF Inv
<1> QED
  BY <1>1, InitInv, NextInv, PTL DEF PoolSpec

\* For a pool of any size and any number of transactions: when withTransaction and
\* query come to a stop, each client is held by a transaction that waits for a
\* second one, or for the lock of one that does.
THEOREM NestingStopsThePool == PoolSpec => []OnlyNestingStops
<1>1. Inv => OnlyNestingStops
  <2> SUFFICES ASSUME Inv, Standstill, NEW c \in At(Borrowing), step[c] # "asking"
               PROVE  owner # NoCall /\ step[owner] = "asking"
    BY DEF OnlyNestingStops
  <2>1. c \in Calls /\ step[c] \in Borrowing /\ ~CanGoOn(c)
    BY DEF At, Standstill
  <2>2. step[c] = "locking" /\ owner # NoCall
    BY <2>1 DEF CanGoOn, Borrowing
  <2>3. owner \in Calls /\ ~CanGoOn(owner)
    BY <2>2 DEF Inv, PoolTypeOK, Calls, Standstill
  <2> QED
    BY <2>2, <2>3 DEF CanGoOn, Inv, OwnerBusy
<1> QED
  BY <1>1, InitInv, NextInv, PTL DEF PoolSpec
=============================================================================
