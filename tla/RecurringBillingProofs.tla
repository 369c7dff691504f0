------------------------ MODULE RecurringBillingProofs ------------------------
(***************************************************************************)
(* Proofs about RecurringBilling for any number of schedules, overlapping  *)
(* sweeps and requests, and any horizon of dates; and about RecurringDates *)
(* for any first date and any span of years.                               *)
(***************************************************************************)
EXTENDS RecurringBilling, RecurringDates, SetSums, TLAPS

\* A schedule that exists and was not saved under a run or skip of it.
Live(s) == Exists(s) /\ ~raced[s]

\* The dates of the plan before d are settled.
Passed(s, d) == \A x \in plan[s] : x < d => x \in settled[s]

\* The plan's dates are the row's step apart, and go on up to the horizon.
Spaced(s) ==
  \A x \in plan[s] :
    /\ \A y \in plan[s] : x < y => x + sched[s].step <= y
    /\ x + sched[s].step <= MaxDate => x + sched[s].step \in plan[s]

\* A date and step that may be advanced from once the date is settled.
Covers(s, read) ==
  Live(s) =>
    /\ read.date \in plan[s]
    /\ read.step = sched[s].step
    /\ Passed(s, read.date)
Billed(s, read) == Covers(s, read) /\ (Live(s) => read.date \in settled[s])

(***************************************************************************)
(* NoDateLost is not inductive: a sweep or request in flight will write a  *)
(* date it computes from what it read earlier.  What it read was the row's *)
(* date and step then; the dates of the plan before it were settled, a     *)
(* settled date stays settled, and only a save changes plan and step.      *)
(***************************************************************************)
AtMostOne == \A s \in Schedules, d \in Dates : standing[s][d] \in {0, 1}
RowsKept ==
  \A s \in Schedules :
    Live(s) => Spaced(s) /\ sched[s].next \in plan[s] /\ Kept(s)
SweepKept(q) ==
  /\ \A s \in q.todo : Covers(s, q.read[s])
  /\ q.at # NoSchedule => Billed(q.at, q.read[q.at])
SweepsKept == \A w \in Sweeps, q \in Sweep : q = sweep[w] => SweepKept(q)
RequestKept(q) ==
  /\ q.op \in {"run", "skip"} => Covers(q.sched, q.read)
  /\ q.op = "advance" => Billed(q.sched, q.read)
RequestsKept == \A r \in Requests, q \in Request : q = req[r] => RequestKept(q)

Inv == TypeOK /\ AtMostOne /\ RowsKept /\ SweepsKept /\ RequestsKept

-----------------------------------------------------------------------------
LEMMA DatesFacts ==
  /\ MaxDate \in Nat \ {0} /\ 0 \in Dates /\ NoReading \in Reading
  /\ \A d \in Dates : d \in Nat /\ d <= MaxDate
  /\ \A read \in Reading :
       /\ read.date \in Dates /\ read.date \in Nat /\ read.step \in 1..MaxDate
       /\ DateAfter(read) = read.date + read.step /\ DateAfter(read) \in Dates
  BY DatesAssumption DEF Dates, Reading, NoReading, DateAfter

LEMMA RequestFields ==
  ASSUME NEW q \in Request, q.op # "idle"
  PROVE  q.op \in {"run", "advance", "skip"} /\ q.sched \in Schedules /\ q.read \in Reading
  BY DEF Request, Idle

LEMMA SweepFields ==
  ASSUME NEW q \in Sweep
  PROVE  /\ q.todo \subseteq Schedules
         /\ q.at \in Schedules \cup {NoSchedule}
         /\ q.read \in [Schedules -> Reading]
  BY DEF Sweep

\* What a row within the horizon reads as.
LEMMA ReadingFacts ==
  ASSUME TypeOK, RowsKept, NEW s \in Schedules, WithinHorizon(s)
  PROVE  ReadingOf(s) \in Reading /\ Covers(s, ReadingOf(s))
<1>1. sched[s].next \in Dates /\ sched[s].step \in 1..MaxDate
  BY DEF TypeOK, Row
<1>2. ReadingOf(s) \in Reading
  BY <1>1 DEF ReadingOf, Reading, WithinHorizon
<1>3. ReadingOf(s).date = sched[s].next /\ ReadingOf(s).step = sched[s].step
  BY DEF ReadingOf
<1> QED
  BY <1>2, <1>3 DEF RowsKept, Covers, Kept, Passed

(***************************************************************************)
(* Steady(s): the step leaves the plan of s and its row's step, or takes s *)
(* out of account, and unsettles no date.                                  *)
(***************************************************************************)
Steady(s) ==
  Live(s)' => /\ Live(s)
              /\ plan'[s] = plan[s]
              /\ sched'[s].step = sched[s].step
              /\ settled[s] \subseteq settled'[s]
AllSteady == \A s \in Schedules : Steady(s)

LEMMA SteadyKeeps ==
  ASSUME NEW s \in Schedules, Steady(s)
  PROVE  /\ \A d : Live(s)' /\ Passed(s, d) => Passed(s, d)'
         /\ Live(s)' /\ Spaced(s) => Spaced(s)'
         /\ \A read : Covers(s, read) => Covers(s, read)'
         /\ \A read : Billed(s, read) => Billed(s, read)'
<1>1. ASSUME NEW d, Live(s)', Passed(s, d)
      PROVE  Passed(s, d)'
  BY <1>1 DEF Passed, Steady
<1>2. ASSUME Live(s)', Spaced(s)
      PROVE  Spaced(s)'
  BY <1>2 DEF Spaced, Steady
<1>3. ASSUME NEW read, Covers(s, read)
      PROVE  Covers(s, read)'
  <2> SUFFICES ASSUME Live(s)'
               PROVE  /\ read.date \in plan'[s]
                      /\ read.step = sched'[s].step
                      /\ Passed(s, read.date)'
    BY DEF Covers
  <2>1. /\ Live(s) /\ plan'[s] = plan[s] /\ sched'[s].step = sched[s].step
    BY DEF Steady
  <2>2. Passed(s, read.date)
    BY <1>3, <2>1 DEF Covers
  <2> QED
    BY <1>1, <1>3, <2>1, <2>2 DEF Covers
<1>4. ASSUME NEW read, Billed(s, read)
      PROVE  Billed(s, read)'
  BY <1>3, <1>4 DEF Billed, Steady
<1> QED
  BY <1>1, <1>2, <1>3, <1>4

\* Schedules are steady when no row is touched and settled dates only grow.
LEMMA UntouchedSteady ==
  ASSUME UNCHANGED <<sched, plan, raced>>,
         \A s \in Schedules : settled[s] \subseteq settled'[s]
  PROVE  AllSteady
  BY DEF AllSteady, Steady, Live, Exists

LEMMA SweepStays ==
  ASSUME AllSteady, NEW q \in Sweep, SweepKept(q)
  PROVE  SweepKept(q)'
<1>1. q.todo \subseteq Schedules /\ q.at \in Schedules \cup {NoSchedule}
  BY SweepFields
<1>2. \A s \in q.todo : Covers(s, q.read[s])'
  BY <1>1, SteadyKeeps DEF SweepKept, AllSteady
<1>3. q.at # NoSchedule => Billed(q.at, q.read[q.at])'
  BY <1>1, SteadyKeeps DEF SweepKept, AllSteady
<1> QED
  BY <1>2, <1>3 DEF SweepKept

LEMMA RequestStays ==
  ASSUME AllSteady, NEW q \in Request, RequestKept(q)
  PROVE  RequestKept(q)'
<1>1. q.op # "idle" => q.sched \in Schedules
  BY RequestFields
<1>2. q.op \in {"run", "skip"} => Covers(q.sched, q.read)'
  BY <1>1, SteadyKeeps DEF RequestKept, AllSteady
<1>3. q.op = "advance" => Billed(q.sched, q.read)'
  BY <1>1, SteadyKeeps DEF RequestKept, AllSteady
<1> QED
  BY <1>2, <1>3 DEF RequestKept

LEMMA QuietSweeps ==
  ASSUME SweepsKept, UNCHANGED sweep, AllSteady
  PROVE  SweepsKept'
  BY SweepStays DEF SweepsKept

LEMMA QuietRequests ==
  ASSUME RequestsKept, UNCHANGED req, AllSteady
  PROVE  RequestsKept'
  BY RequestStays DEF RequestsKept

LEMMA QuietRows ==
  ASSUME RowsKept, AllSteady,
         \A s \in Schedules : Live(s)' => sched'[s].next = sched[s].next
  PROVE  RowsKept'
<1> SUFFICES ASSUME NEW s \in Schedules, Live(s)'
             PROVE  Spaced(s)' /\ sched'[s].next \in plan'[s] /\ Kept(s)'
  BY DEF RowsKept
<1>1. /\ Steady(s) /\ Live(s) /\ plan'[s] = plan[s] /\ sched'[s].next = sched[s].next
      /\ settled[s] \subseteq settled'[s]
  BY DEF AllSteady, Steady
<1>2. Kept(s)'
  BY <1>1 DEF RowsKept, Kept
<1> QED
  BY <1>1, <1>2, SteadyKeeps DEF RowsKept

LEMMA OneRequest ==
  ASSUME TypeOK, RequestsKept, AllSteady, NEW r \in Requests, NEW q \in Request,
         req' = [req EXCEPT ![r] = q], RequestKept(q)'
  PROVE  req' \in [Requests -> Request] /\ RequestsKept'
<1>1. req' \in [Requests -> Request] /\ req'[r] = q
        /\ \A x \in Requests : x # r => req'[x] = req[x]
  BY DEF TypeOK
<1>2. ASSUME NEW x \in Requests, NEW n \in Request, n = req'[x]
      PROVE  RequestKept(n)'
  <2>1. CASE x = r
    <3>1. n = q
      BY <1>1, <1>2, <2>1
    <3> QED
      BY <3>1
  <2>2. CASE x # r
    BY <1>1, <1>2, <2>2, RequestStays DEF RequestsKept
  <2> QED
    BY <2>1, <2>2
<1> QED
  BY <1>1, <1>2 DEF RequestsKept

LEMMA OneSweep ==
  ASSUME TypeOK, SweepsKept, AllSteady, NEW w \in Sweeps, NEW q \in Sweep,
         sweep' = [sweep EXCEPT ![w] = q], SweepKept(q)'
  PROVE  sweep' \in [Sweeps -> Sweep] /\ SweepsKept'
<1>1. sweep' \in [Sweeps -> Sweep] /\ sweep'[w] = q
        /\ \A x \in Sweeps : x # w => sweep'[x] = sweep[x]
  BY DEF TypeOK
<1>2. ASSUME NEW x \in Sweeps, NEW n \in Sweep, n = sweep'[x]
      PROVE  SweepKept(n)'
  <2>1. CASE x = w
    <3>1. n = q
      BY <1>1, <1>2, <2>1
    <3> QED
      BY <3>1
  <2>2. CASE x # w
    BY <1>1, <1>2, <2>2, SweepStays DEF SweepsKept
  <2> QED
    BY <2>1, <2>2
<1> QED
  BY <1>1, <1>2 DEF SweepsKept

\* The row update of skip, "Use Now" and the sweep, from a date that is settled.
LEMMA AdvanceKeeps ==
  ASSUME TypeOK, RowsKept, NEW s \in Schedules, NEW read \in Reading, Advance(s, read),
         UNCHANGED <<plan, raced>>,
         \A x \in Schedules : settled[x] \subseteq settled'[x],
         Covers(s, read), Live(s) => read.date \in settled'[s]
  PROVE  sched' \in [Schedules -> Row] /\ AllSteady /\ RowsKept'
<1>1. DateAfter(read) \in Dates /\ DateAfter(read) = read.date + read.step
        /\ read.date \in Nat
  BY DatesFacts
<1>2. sched' \in [Schedules -> Row]
  <2> DEFINE row == [sched[s] EXCEPT !.next = DateAfter(read)]
  <2>1. row \in Row
    BY <1>1 DEF TypeOK, Row
  <2>2. sched' = sched \/ sched' = [sched EXCEPT ![s] = row]
    BY DEF Advance
  <2> HIDE DEF row
  <2> QED
    BY <2>1, <2>2 DEF TypeOK
<1>3. \A x \in Schedules :
        /\ sched'[x].status = sched[x].status /\ sched'[x].step = sched[x].step
        /\ x # s => sched'[x].next = sched[x].next
        /\ x = s /\ Exists(x) => sched'[x].next = DateAfter(read)
  BY DEF TypeOK, Advance, Row
<1>4. \A x \in Schedules : Live(x)' <=> Live(x)
  BY <1>3 DEF Live, Exists
<1>5. AllSteady
  BY <1>3, <1>4 DEF AllSteady, Steady
<1>6. ASSUME NEW x \in Schedules, Live(x)'
      PROVE  Spaced(x)' /\ sched'[x].next \in plan'[x] /\ Kept(x)'
  <2>1. /\ Live(x) /\ Spaced(x) /\ Kept(x) /\ sched[x].next \in plan[x]
        /\ plan'[x] = plan[x] /\ settled[x] \subseteq settled'[x]
    BY <1>4, <1>6 DEF RowsKept
  <2>2. Spaced(x)'
    BY <1>5, <1>6, <2>1, SteadyKeeps DEF AllSteady
  <2>3. CASE x # s
    <3>1. sched'[x].next = sched[x].next
      BY <1>3, <2>3
    <3>2. Kept(x)'
      BY <2>1, <3>1 DEF Kept
    <3> QED
      BY <2>1, <2>2, <3>1, <3>2
  <2>4. CASE x = s
    <3>1. /\ read.date \in plan[x] /\ read.step = sched[x].step /\ Passed(x, read.date)
          /\ read.date \in settled'[x]
      BY <2>1, <2>4 DEF Covers
    <3>2. sched'[x].next = read.date + sched[x].step
      BY <1>1, <1>3, <2>1, <2>4, <3>1 DEF Live
    <3>3. sched'[x].next \in plan[x]
      BY <1>1, <2>1, <3>1, <3>2, DatesFacts DEF Spaced
    <3>4. ASSUME NEW y \in plan[x], y < sched'[x].next
          PROVE  y \in settled'[x]
      <4>1. y \in Nat /\ sched[x].step \in Nat
        BY DatesFacts DEF TypeOK, Row
      <4>2. ~(read.date < y)
        BY <1>1, <2>1, <3>1, <3>2, <3>4, <4>1 DEF Spaced
      <4>3. y = read.date \/ y < read.date
        BY <1>1, <4>1, <4>2
      <4> QED
        BY <2>1, <3>1, <4>3 DEF Passed
    <3>5. Kept(x)'
      BY <2>1, <3>4 DEF Kept
    <3> QED
      BY <2>1, <2>2, <3>3, <3>5
  <2> QED
    BY <2>3, <2>4
<1> QED
  BY <1>2, <1>5, <1>6 DEF RowsKept

\* The insert shared by both paths.
LEMMA InvoiceKeeps ==
  ASSUME TypeOK, AtMostOne, NEW s \in Schedules, NEW d \in Dates, InvoiceOnce(s, d)
  PROVE  /\ standing' \in [Schedules -> [Dates -> Nat]]
         /\ AtMostOne'
         /\ settled' \in [Schedules -> SUBSET Dates]
         /\ \A x \in Schedules : settled[x] \subseteq settled'[x]
         /\ d \in settled'[s]
<1>1. settled' \in [Schedules -> SUBSET Dates] /\ d \in settled'[s]
        /\ \A x \in Schedules : settled[x] \subseteq settled'[x]
  BY DEF TypeOK, InvoiceOnce
<1>2. standing' \in [Schedules -> [Dates -> Nat]]
  BY DEF TypeOK, InvoiceOnce
<1>3. AtMostOne'
  BY DEF TypeOK, InvoiceOnce, AtMostOne
<1> QED
  BY <1>1, <1>2, <1>3

LEMMA IdleTypes == IdleSweep \in Sweep /\ Idle \in Request
  BY DatesFacts DEF IdleSweep, Sweep, Idle, Request

-----------------------------------------------------------------------------
(***************************************************************************)
(* Inv, step by step                                                       *)
(***************************************************************************)
LEMMA InitInv == Init => Inv
<1> SUFFICES ASSUME Init
             PROVE  Inv
  OBVIOUS
<1>1. NoRow \in Row
  BY DatesFacts DEF NoRow, Row
<1>2. TypeOK
  BY <1>1, IdleTypes, DatesFacts, DatesAssumption DEF Init, TypeOK
<1>3. AtMostOne /\ RowsKept
  BY DEF Init, AtMostOne, RowsKept, Live, Exists, NoRow
<1>4. SweepsKept /\ RequestsKept
  BY DEF Init, SweepsKept, RequestsKept, SweepKept, RequestKept, IdleSweep, Idle
<1> QED
  BY <1>2, <1>3, <1>4 DEF Inv

\* A save changes plan and step: what is in flight on the schedule makes it raced.
LEMMA SaveInv ==
  ASSUME Inv, NEW s \in Schedules, NEW row \in Row, SaveSchedule(s, row)
  PROVE  Inv'
<1> USE DEF Inv
<1> DEFINE first == PlanFrom(row.next, row.step, MaxDate)
           old == {d \in Dates : standing[s][d] > 0}
<1>1. /\ sched' = [sched EXCEPT ![s] = row]
      /\ plan' = [plan EXCEPT ![s] = first]
      /\ raced' = [raced EXCEPT ![s] = InFlightOn(s)]
      /\ settled' = [settled EXCEPT ![s] = old]
      /\ skipped' = [skipped EXCEPT ![s] = @ \cap 0..(row.next - 1)]
      /\ changes' = changes + 1
      /\ UNCHANGED <<standing, today, sweep, req>>
  BY DEF SaveSchedule
<1>2. row.next \in Nat /\ row.next <= MaxDate /\ row.step \in Nat \ {0} /\ MaxDate \in Nat
  BY DatesFacts DEF Row, Dates
<1>3. first \subseteq Dates /\ row.next \in first /\ \A d \in first : d \in Nat /\ row.next <= d
  BY <1>2, PlanStarts, PlanSpaced DEF Dates
<1>4. /\ \A x \in first : x + row.step <= MaxDate => x + row.step \in first
      /\ \A x \in first, y \in first : x < y => x + row.step <= y
  BY <1>2, PlanSpaced
<1> HIDE DEF first, old
<1>5. InFlightOn(s) \in BOOLEAN /\ old \subseteq Dates
  BY DEF InFlightOn, old
<1>6. /\ sched' \in [Schedules -> Row] /\ sched'[s] = row
      /\ \A x \in Schedules : x # s => sched'[x] = sched[x]
  BY <1>1 DEF TypeOK
<1>7. /\ plan' \in [Schedules -> SUBSET Dates] /\ plan'[s] = first
      /\ \A x \in Schedules : x # s => plan'[x] = plan[x]
  BY <1>1, <1>3 DEF TypeOK
<1>8. /\ raced' \in [Schedules -> BOOLEAN] /\ raced'[s] = InFlightOn(s)
      /\ \A x \in Schedules : x # s => raced'[x] = raced[x]
  BY <1>1, <1>5 DEF TypeOK
<1>9. /\ settled' \in [Schedules -> SUBSET Dates]
      /\ \A x \in Schedules : x # s => settled'[x] = settled[x]
  BY <1>1, <1>5 DEF TypeOK
<1>10. skipped' \in [Schedules -> SUBSET Dates] /\ changes' \in Nat
  BY <1>1 DEF TypeOK
<1>11. TypeOK'
  BY <1>1, <1>6, <1>7, <1>8, <1>9, <1>10 DEF TypeOK
<1>12. \A x \in Schedules : x # s => Steady(x) /\ (Live(x)' => Live(x))
  BY <1>6, <1>7, <1>8, <1>9 DEF Steady, Live, Exists
<1>13. RowsKept'
  <2> SUFFICES ASSUME NEW x \in Schedules, Live(x)'
               PROVE  Spaced(x)' /\ sched'[x].next \in plan'[x] /\ Kept(x)'
    BY DEF RowsKept
  <2>1. CASE x = s
    <3>1. /\ plan'[x] = first /\ sched'[x] = row
      BY <1>6, <1>7, <2>1
    <3>2. Spaced(x)'
      BY <1>4, <3>1 DEF Spaced
    <3>3. Kept(x)'
      BY <1>2, <1>3, <3>1 DEF Kept
    <3> QED
      BY <1>3, <3>1, <3>2, <3>3
  <2>2. CASE x # s
    <3>1. /\ sched'[x] = sched[x] /\ plan'[x] = plan[x] /\ settled'[x] = settled[x]
      BY <1>6, <1>7, <1>9, <2>2
    <3>2. Spaced(x) /\ sched[x].next \in plan[x] /\ Kept(x)
      BY <1>12, <2>2 DEF RowsKept
    <3> QED
      BY <3>1, <3>2 DEF Spaced, Kept
  <2> QED
    BY <2>1, <2>2
<1>14. ASSUME NEW x \in Schedules, NEW read, x = s => InFlightOn(s)
       PROVE  /\ Covers(x, read) => Covers(x, read)'
              /\ Billed(x, read) => Billed(x, read)'
  <2>1. CASE x = s
    <3>1. ~Live(x)'
      BY <1>8, <1>14, <2>1 DEF Live
    <3> QED
      BY <3>1 DEF Covers, Billed
  <2>2. CASE x # s
    BY <1>12, <2>2, SteadyKeeps
  <2> QED
    BY <2>1, <2>2
<1>15. SweepsKept'
  <2> SUFFICES ASSUME NEW w \in Sweeps, NEW q \in Sweep, q = sweep[w], SweepKept(q)
               PROVE  SweepKept(q)'
    BY <1>1 DEF SweepsKept
  <2>1. q.todo \subseteq Schedules /\ q.at \in Schedules \cup {NoSchedule}
    BY SweepFields
  <2>2. s \in q.todo \/ q.at = s => InFlightOn(s)
    BY DEF InFlightOn
  <2>3. \A x \in q.todo : Covers(x, q.read[x])'
    BY <1>14, <2>1, <2>2 DEF SweepKept
  <2>4. q.at # NoSchedule => Billed(q.at, q.read[q.at])'
    BY <1>14, <2>1, <2>2 DEF SweepKept
  <2> QED
    BY <2>3, <2>4 DEF SweepKept
<1>16. RequestsKept'
  <2> SUFFICES ASSUME NEW r \in Requests, NEW q \in Request, q = req[r], RequestKept(q)
               PROVE  RequestKept(q)'
    BY <1>1 DEF RequestsKept
  <2>1. q.op # "idle" => q.sched \in Schedules /\ (q.sched = s => InFlightOn(s))
    BY RequestFields DEF InFlightOn, Idle
  <2>2. /\ q.op \in {"run", "skip"} => Covers(q.sched, q.read)'
        /\ q.op = "advance" => Billed(q.sched, q.read)'
    BY <1>14, <2>1 DEF RequestKept
  <2> QED
    BY <2>2 DEF RequestKept
<1>17. AtMostOne'
  BY <1>1 DEF AtMostOne
<1> QED
  BY <1>11, <1>13, <1>15, <1>16, <1>17

LEMMA SetStatusInv ==
  ASSUME Inv, NEW s \in Schedules, NEW status \in Status, SetStatus(s, status)
  PROVE  Inv'
<1> USE DEF Inv
<1>1. /\ Exists(s) /\ sched' = [sched EXCEPT ![s].status = status]
      /\ UNCHANGED <<standing, today, sweep, req, plan, raced, settled, skipped, changes>>
  BY DEF SetStatus, history, saved
<1>2. TypeOK' /\ AtMostOne'
  <2> DEFINE row == [sched[s] EXCEPT !.status = status]
  <2>1. row \in Row /\ sched' = [sched EXCEPT ![s] = row]
    BY <1>1 DEF TypeOK, Row
  <2> HIDE DEF row
  <2> QED
    BY <1>1, <2>1 DEF TypeOK, AtMostOne
<1>3. \A x \in Schedules : /\ sched'[x].next = sched[x].next /\ sched'[x].step = sched[x].step
                           /\ Exists(x)' => Exists(x)
  BY <1>1 DEF TypeOK, Row, Exists
<1>4. AllSteady
  BY <1>1, <1>3 DEF AllSteady, Steady, Live
<1> QED
  BY <1>1, <1>2, <1>3, <1>4, QuietRows, QuietSweeps, QuietRequests

LEMMA DeleteInv ==
  ASSUME Inv, NEW s \in Schedules, DeleteSchedule(s)
  PROVE  Inv'
<1> USE DEF Inv
<1>1. /\ sched' = [sched EXCEPT ![s] = NoRow]
      /\ skipped' = [skipped EXCEPT ![s] = {}]
      /\ UNCHANGED <<standing, today, sweep, req, plan, raced, settled, changes>>
  BY DEF DeleteSchedule, saved
<1>2. NoRow \in Row /\ NoRow.status = "None"
  BY DatesFacts DEF NoRow, Row
<1>3. TypeOK' /\ AtMostOne'
  BY <1>1, <1>2 DEF TypeOK, AtMostOne
<1>4. \A x \in Schedules : Exists(x)' => Exists(x) /\ sched'[x] = sched[x]
  BY <1>1, <1>2 DEF TypeOK, Exists
<1>5. AllSteady /\ \A x \in Schedules : Live(x)' => sched'[x].next = sched[x].next
  BY <1>1, <1>4 DEF AllSteady, Steady, Live
<1> QED
  BY <1>1, <1>3, <1>5, QuietRows, QuietSweeps, QuietRequests

LEMMA CancelInv ==
  ASSUME Inv, NEW s \in Schedules, NEW d \in Dates, CancelInvoice(s, d)
  PROVE  Inv'
<1> USE DEF Inv
<1>1. /\ standing[s][d] > 0 /\ changes' = changes + 1
      /\ standing' = [standing EXCEPT ![s][d] = @ - 1]
      /\ UNCHANGED <<sched, today, sweep, req, plan, raced, settled, skipped>>
  BY DEF CancelInvoice, history, saved
<1> DEFINE row == [standing[s] EXCEPT ![d] = @ - 1]
<1>2. standing' \in [Schedules -> [Dates -> Nat]] /\ changes' \in Nat
  <2>1. standing[s] \in [Dates -> Nat] /\ standing[s][d] - 1 \in Nat
    BY <1>1 DEF TypeOK
  <2>2. row \in [Dates -> Nat]
    BY <2>1
  <2>3. standing' = [standing EXCEPT ![s] = row]
    BY <1>1
  <2> HIDE DEF row
  <2> QED
    BY <1>1, <2>2, <2>3 DEF TypeOK
<1>3. AtMostOne'
  <2>1. standing'[s][d] = 0
    BY <1>1 DEF TypeOK, AtMostOne
  <2>2. \A x \in Schedules, y \in Dates :
          x # s \/ y # d => standing'[x][y] = standing[x][y]
    BY <1>1 DEF TypeOK
  <2> QED
    BY <2>1, <2>2 DEF AtMostOne
<1>4. TypeOK' /\ AllSteady
  BY <1>1, <1>2, UntouchedSteady DEF TypeOK
<1> QED
  BY <1>1, <1>3, <1>4, QuietRows, QuietSweeps, QuietRequests

LEMMA ReadRowInv ==
  ASSUME Inv, NEW r \in Requests, NEW op \in {"run", "skip"}, NEW s \in Schedules,
         ReadRow(r, op, s)
  PROVE  Inv'
<1> USE DEF Inv
<1>1. /\ WithinHorizon(s)
      /\ UNCHANGED <<sched, standing, today, sweep, plan, raced, settled, skipped, changes>>
  BY DEF ReadRow, history, saved
<1>2. ReadingOf(s) \in Reading /\ Covers(s, ReadingOf(s))
  BY <1>1, ReadingFacts
<1> PICK read \in Reading : read = ReadingOf(s)
  BY <1>2
<1> DEFINE q == [op |-> op, sched |-> s, read |-> read]
<1>3. q \in Request /\ req' = [req EXCEPT ![r] = q]
  BY DEF Request, ReadRow
<1>4. AllSteady
  BY <1>1, UntouchedSteady
<1>5. Covers(s, read)'
  BY <1>2, <1>4, SteadyKeeps DEF AllSteady
<1>6. RequestKept(q)'
  BY <1>5 DEF RequestKept
<1> HIDE DEF q
<1>7. req' \in [Requests -> Request] /\ RequestsKept'
  BY <1>3, <1>4, <1>6, OneRequest
<1>8. TypeOK' /\ AtMostOne'
  BY <1>1, <1>7 DEF TypeOK, AtMostOne
<1> QED
  BY <1>1, <1>4, <1>7, <1>8, QuietRows, QuietSweeps

LEMMA RequestIdle ==
  ASSUME TypeOK, RequestsKept, AllSteady, NEW r \in Requests,
         req' = [req EXCEPT ![r] = Idle]
  PROVE  req' \in [Requests -> Request] /\ RequestsKept'
<1>1. Idle \in Request /\ RequestKept(Idle)'
  BY IdleTypes DEF Idle, RequestKept
<1> HIDE DEF Idle
<1> QED
  BY <1>1, OneRequest

LEMMA SkipCommitInv ==
  ASSUME Inv, NEW r \in Requests, SkipCommit(r)
  PROVE  Inv'
<1> USE DEF Inv
<1> PICK q \in Request : q = req[r]
  BY DEF TypeOK
<1>1. /\ q.op = "skip" /\ Advance(q.sched, q.read)
      /\ settled' = [settled EXCEPT ![q.sched] = @ \cup {q.read.date}]
      /\ skipped' = [skipped EXCEPT ![q.sched] =
                       IF Exists(q.sched) THEN @ \cup {q.read.date} ELSE @]
      /\ req' = [req EXCEPT ![r] = Idle]
      /\ UNCHANGED <<standing, today, sweep, plan, raced, changes>>
  BY DEF SkipCommit, saved
<1>2. q.sched \in Schedules /\ q.read \in Reading /\ q.read.date \in Dates
  BY <1>1, RequestFields, DatesFacts
<1>3. settled' \in [Schedules -> SUBSET Dates] /\ skipped' \in [Schedules -> SUBSET Dates]
  BY <1>1, <1>2 DEF TypeOK
<1>4. /\ \A x \in Schedules : settled[x] \subseteq settled'[x]
      /\ q.read.date \in settled'[q.sched]
  BY <1>1, <1>2 DEF TypeOK
<1>5. Covers(q.sched, q.read)
  BY <1>1 DEF RequestsKept, RequestKept
<1>6. sched' \in [Schedules -> Row] /\ AllSteady /\ RowsKept'
  BY <1>1, <1>2, <1>4, <1>5, AdvanceKeeps
<1>7. req' \in [Requests -> Request] /\ RequestsKept'
  BY <1>1, <1>6, RequestIdle
<1>8. TypeOK' /\ AtMostOne'
  BY <1>1, <1>3, <1>6, <1>7 DEF TypeOK, AtMostOne
<1> QED
  BY <1>1, <1>6, <1>7, <1>8, QuietSweeps

LEMMA RunNowRefuseInv ==
  ASSUME Inv, NEW r \in Requests, RunNowRefuse(r)
  PROVE  Inv'
<1> USE DEF Inv
<1>1. /\ req' = [req EXCEPT ![r] = Idle]
      /\ UNCHANGED <<sched, standing, today, sweep, plan, raced, settled, skipped, changes>>
  BY DEF RunNowRefuse, history, saved
<1>2. AllSteady
  BY <1>1, UntouchedSteady
<1>3. req' \in [Requests -> Request] /\ RequestsKept'
  BY <1>1, <1>2, RequestIdle
<1>4. TypeOK' /\ AtMostOne'
  BY <1>1, <1>3 DEF TypeOK, AtMostOne
<1> QED
  BY <1>1, <1>2, <1>3, <1>4, QuietRows, QuietSweeps

LEMMA RunNowInvoiceInv ==
  ASSUME Inv, NEW r \in Requests, RunNowInvoice(r)
  PROVE  Inv'
<1> USE DEF Inv
<1> PICK q \in Request : q = req[r]
  BY DEF TypeOK
<1>1. /\ q.op = "run" /\ InvoiceOnce(q.sched, q.read.date)
      /\ req' = [req EXCEPT ![r].op = "advance"]
      /\ UNCHANGED <<sched, today, sweep, plan, raced, skipped, changes>>
  BY DEF RunNowInvoice, saved
<1>2. q.sched \in Schedules /\ q.read \in Reading /\ q.read.date \in Dates
  BY <1>1, RequestFields, DatesFacts
<1>3. /\ standing' \in [Schedules -> [Dates -> Nat]] /\ AtMostOne'
      /\ settled' \in [Schedules -> SUBSET Dates]
      /\ \A x \in Schedules : settled[x] \subseteq settled'[x]
      /\ q.read.date \in settled'[q.sched]
  BY <1>1, <1>2, InvoiceKeeps
<1>4. AllSteady
  BY <1>1, <1>3, UntouchedSteady
<1>5. Billed(q.sched, q.read)'
  <2>1. Covers(q.sched, q.read)'
    BY <1>1, <1>2, <1>4, SteadyKeeps DEF RequestsKept, RequestKept, AllSteady
  <2> QED
    BY <1>3, <2>1 DEF Billed
<1> DEFINE n == [op |-> "advance", sched |-> q.sched, read |-> q.read]
<1>6. [q EXCEPT !.op = "advance"] = n
  <2>1. q \in [op: {"run", "advance", "skip"}, sched: Schedules, read: Reading]
    BY <1>1 DEF Request, Idle
  <2> QED
    BY <2>1
<1>7. n \in Request /\ req' = [req EXCEPT ![r] = n]
  <2>1. n \in Request
    BY <1>2 DEF Request
  <2>2. req' = [req EXCEPT ![r] = [q EXCEPT !.op = "advance"]]
    BY <1>1
  <2> QED
    BY <1>6, <2>1, <2>2
<1>8. RequestKept(n)'
  BY <1>5 DEF RequestKept
<1> HIDE DEF n
<1>9. req' \in [Requests -> Request] /\ RequestsKept'
  BY <1>4, <1>7, <1>8, OneRequest
<1>10. TypeOK'
  BY <1>1, <1>3, <1>9 DEF TypeOK
<1> QED
  BY <1>1, <1>3, <1>4, <1>9, <1>10, QuietRows, QuietSweeps

LEMMA RunNowAdvanceInv ==
  ASSUME Inv, NEW r \in Requests, RunNowAdvance(r)
  PROVE  Inv'
<1> USE DEF Inv
<1> PICK q \in Request : q = req[r]
  BY DEF TypeOK
<1>1. /\ q.op = "advance" /\ Advance(q.sched, q.read)
      /\ req' = [req EXCEPT ![r] = Idle]
      /\ UNCHANGED <<standing, today, sweep, plan, raced, settled, skipped, changes>>
  BY DEF RunNowAdvance, history, saved
<1>2. q.sched \in Schedules /\ q.read \in Reading
  BY <1>1, RequestFields
<1>3. Covers(q.sched, q.read) /\ (Live(q.sched) => q.read.date \in settled[q.sched])
  BY <1>1 DEF RequestsKept, RequestKept, Billed
<1>4. sched' \in [Schedules -> Row] /\ AllSteady /\ RowsKept'
  BY <1>1, <1>2, <1>3, AdvanceKeeps
<1>5. req' \in [Requests -> Request] /\ RequestsKept'
  BY <1>1, <1>4, RequestIdle
<1>6. TypeOK' /\ AtMostOne'
  BY <1>1, <1>4, <1>5 DEF TypeOK, AtMostOne
<1> QED
  BY <1>1, <1>4, <1>5, <1>6, QuietSweeps

\* A sweep that has nothing left to do is idle: no obligation stays with it.
LEMMA RestedSweep ==
  ASSUME NEW q \in Sweep
  PROVE  /\ Rested(q) \in Sweep
         /\ Rested(q).todo = q.todo
         /\ Rested(q).at = q.at
         /\ Rested(q).todo # {} \/ Rested(q).at # NoSchedule => Rested(q) = q
  BY IdleTypes DEF Rested, IdleSweep

LEMMA SweepStartInv ==
  ASSUME Inv, NEW w \in Sweeps, NEW day, NEW mine \in SUBSET Schedules,
         SweepStart(w, day, mine)
  PROVE  Inv'
<1> USE DEF Inv
<1> DEFINE due == {s \in mine : DueOn(s, day)}
           read == [s \in Schedules |-> IF s \in due THEN ReadingOf(s) ELSE NoReading]
<1>1. /\ sweep' = [sweep EXCEPT ![w] = [todo |-> due, at |-> NoSchedule, read |-> read]]
      /\ UNCHANGED <<sched, standing, today, req, plan, raced, settled, skipped, changes>>
  BY DEF SweepStart, history, saved
<1>2. \A s \in due : s \in Schedules /\ ReadingOf(s) \in Reading /\ Covers(s, ReadingOf(s))
  BY ReadingFacts DEF DueOn
<1>3. read \in [Schedules -> Reading] /\ \A s \in due : Covers(s, read[s])
  BY <1>2, DatesFacts
<1>4. due \subseteq Schedules
  OBVIOUS
<1> HIDE DEF read, due
<1>5. [todo |-> due, at |-> NoSchedule, read |-> read] \in Sweep
  BY <1>3, <1>4 DEF Sweep
<1> PICK q \in Sweep : q = [todo |-> due, at |-> NoSchedule, read |-> read]
  BY <1>5
<1>6. sweep' = [sweep EXCEPT ![w] = q] /\ q.at = NoSchedule
  BY <1>1
<1>7. AllSteady
  BY <1>1, UntouchedSteady
<1>8. SweepKept(q)'
  <2>1. \A s \in q.todo : Covers(s, q.read[s])'
    BY <1>3, <1>4, <1>7, SteadyKeeps DEF AllSteady
  <2> QED
    BY <1>6, <2>1 DEF SweepKept
<1>9. sweep' \in [Sweeps -> Sweep] /\ SweepsKept'
  BY <1>6, <1>7, <1>8, OneSweep
<1>10. TypeOK' /\ AtMostOne'
  BY <1>1, <1>9 DEF TypeOK, AtMostOne
<1> QED
  BY <1>1, <1>7, <1>9, <1>10, QuietRows, QuietRequests

LEMMA SweepInvoiceInv ==
  ASSUME Inv, NEW w \in Sweeps, NEW s \in Schedules, SweepInvoice(w, s)
  PROVE  Inv'
<1> USE DEF Inv
<1> PICK q \in Sweep : q = sweep[w]
  BY DEF TypeOK
<1> DEFINE n == [q EXCEPT !.todo = @ \ {s}, !.at = s]
<1>1. /\ s \in q.todo /\ InvoiceOnce(s, q.read[s].date)
      /\ sweep' = [sweep EXCEPT ![w] = n]
      /\ UNCHANGED <<sched, today, req, plan, raced, skipped, changes>>
  BY DEF SweepInvoice, saved
<1>2. q.read[s] \in Reading /\ q.read[s].date \in Dates
  BY SweepFields, DatesFacts
<1>3. /\ standing' \in [Schedules -> [Dates -> Nat]] /\ AtMostOne'
      /\ settled' \in [Schedules -> SUBSET Dates]
      /\ \A x \in Schedules : settled[x] \subseteq settled'[x]
      /\ q.read[s].date \in settled'[s]
  BY <1>1, <1>2, InvoiceKeeps
<1>4. AllSteady
  BY <1>1, <1>3, UntouchedSteady
<1>5. \A x \in q.todo : x \in Schedules /\ Covers(x, q.read[x])'
  BY <1>4, SweepFields, SteadyKeeps DEF SweepsKept, SweepKept, AllSteady
<1>6. n \in Sweep /\ n.todo = q.todo \ {s} /\ n.at = s /\ n.read = q.read
  BY DEF Sweep
<1> HIDE DEF n
<1>7. \A x \in n.todo : Covers(x, n.read[x])'
  BY <1>5, <1>6
<1>8. SweepKept(n)'
  <2>1. Billed(n.at, n.read[n.at])'
    BY <1>1, <1>3, <1>5, <1>6 DEF Billed
  <2> QED
    BY <1>7, <2>1 DEF SweepKept
<1>9. sweep' \in [Sweeps -> Sweep] /\ SweepsKept'
  BY <1>1, <1>4, <1>6, <1>8, OneSweep
<1>10. TypeOK'
  BY <1>1, <1>3, <1>9 DEF TypeOK
<1> QED
  BY <1>1, <1>3, <1>4, <1>9, <1>10, QuietRows, QuietRequests

LEMMA SweepFailInv ==
  ASSUME Inv, NEW w \in Sweeps, NEW s \in Schedules, SweepFail(w, s)
  PROVE  Inv'
<1> USE DEF Inv
<1> PICK q \in Sweep : q = sweep[w]
  BY DEF TypeOK
<1> DEFINE left == [q EXCEPT !.todo = @ \ {s}]
           n == Rested(left)
<1>1. /\ q.at = NoSchedule
      /\ sweep' = [sweep EXCEPT ![w] = n]
      /\ UNCHANGED <<sched, standing, today, req, plan, raced, settled, skipped, changes>>
  BY DEF SweepFail, history, saved
<1>2. left \in Sweep /\ left.todo = q.todo \ {s} /\ left.at = q.at
        /\ left.read = q.read
  BY DEF Sweep
<1> HIDE DEF left
<1>3. n \in Sweep /\ n.at = NoSchedule /\ n.todo = q.todo \ {s}
        /\ (n.todo # {} => n.read = q.read)
  BY <1>1, <1>2, RestedSweep
<1> HIDE DEF n
<1>4. AllSteady
  BY <1>1, UntouchedSteady
<1>5. \A x \in n.todo : Covers(x, n.read[x])'
  BY <1>3, <1>4, SweepFields, SteadyKeeps DEF SweepsKept, SweepKept, AllSteady
<1>5a. SweepKept(n)'
  BY <1>3, <1>5 DEF SweepKept
<1>6. sweep' \in [Sweeps -> Sweep] /\ SweepsKept'
  BY <1>1, <1>3, <1>4, <1>5a, OneSweep
<1>7. TypeOK' /\ AtMostOne'
  BY <1>1, <1>6 DEF TypeOK, AtMostOne
<1> QED
  BY <1>1, <1>4, <1>6, <1>7, QuietRows, QuietRequests

LEMMA SweepAdvanceInv ==
  ASSUME Inv, NEW w \in Sweeps, SweepAdvance(w)
  PROVE  Inv'
<1> USE DEF Inv
<1> PICK q \in Sweep : q = sweep[w]
  BY DEF TypeOK
<1> DEFINE done == [q EXCEPT !.at = NoSchedule]
           n == Rested(done)
<1>1. /\ q.at # NoSchedule
      /\ Advance(q.at, q.read[q.at])
      /\ sweep' = [sweep EXCEPT ![w] = n]
      /\ UNCHANGED <<standing, today, req, plan, raced, settled, skipped, changes>>
  BY DEF SweepAdvance, history, saved
<1>2. q.at \in Schedules /\ q.read[q.at] \in Reading
  BY <1>1, SweepFields
<1>3. done \in Sweep /\ done.todo = q.todo /\ done.at = NoSchedule
        /\ done.read = q.read
  BY DEF Sweep
<1> HIDE DEF done
<1>4. n \in Sweep /\ n.at = NoSchedule /\ n.todo = q.todo
        /\ (n.todo # {} => n.read = q.read)
  BY <1>3, RestedSweep
<1> HIDE DEF n
<1>5. Covers(q.at, q.read[q.at]) /\ (Live(q.at) => q.read[q.at].date \in settled[q.at])
  BY <1>1 DEF SweepsKept, SweepKept, Billed
<1>6. sched' \in [Schedules -> Row] /\ AllSteady /\ RowsKept'
  BY <1>1, <1>2, <1>5, AdvanceKeeps
<1>7. \A x \in n.todo : Covers(x, n.read[x])'
  BY <1>4, <1>6, SweepFields, SteadyKeeps DEF SweepsKept, SweepKept, AllSteady
<1>7a. SweepKept(n)'
  BY <1>4, <1>7 DEF SweepKept
<1>8. sweep' \in [Sweeps -> Sweep] /\ SweepsKept'
  BY <1>1, <1>4, <1>6, <1>7a, OneSweep
<1>9. TypeOK' /\ AtMostOne'
  BY <1>1, <1>6, <1>8 DEF TypeOK, AtMostOne
<1> QED
  BY <1>1, <1>6, <1>8, <1>9, QuietRequests

LEMMA NextInv == Inv /\ [Next]_vars => Inv'
<1> SUFFICES ASSUME Inv, [Next]_vars
             PROVE  Inv'
  OBVIOUS
<1>1. CASE Staff
  <2> PICK s \in Schedules :
        \/ \E status \in Status, next \in Dates, step \in Steps,
              end \in EndDates, auto \in BOOLEAN :
             SaveSchedule(s, [status |-> status, next |-> next, step |-> step,
                              end |-> end, auto |-> auto])
        \/ \E status \in Status : SetStatus(s, status)
        \/ DeleteSchedule(s)
        \/ \E d \in Dates : CancelInvoice(s, d)
        \/ \E r \in Requests : ReadRow(r, "skip", s) \/ ReadRow(r, "run", s)
    BY <1>1 DEF Staff, SkipBegin, RunNowBegin
  <2>1. ASSUME NEW status \in Status, NEW next \in Dates, NEW step \in Steps,
               NEW end \in EndDates, NEW auto \in BOOLEAN,
               SaveSchedule(s, [status |-> status, next |-> next, step |-> step,
                                end |-> end, auto |-> auto])
        PROVE  Inv'
    <3> DEFINE row == [status |-> status, next |-> next, step |-> step,
                       end |-> end, auto |-> auto]
    <3>1. step \in 1..MaxDate
      <4>1. next + step <= MaxDate
        BY <2>1 DEF SaveSchedule
      <4> QED
        BY <4>1, StepsAssumption, DatesFacts
    <3>2. row \in Row
      BY <3>1 DEF Row
    <3> HIDE DEF row
    <3> QED
      BY <2>1, <3>2, SaveInv DEF row
  <2> QED
    BY <2>1, SetStatusInv, DeleteInv, CancelInv, ReadRowInv
<1>2. CASE \E r \in Requests : InFlight(r)
  BY <1>2, SkipCommitInv, RunNowRefuseInv, RunNowInvoiceInv, RunNowAdvanceInv
  DEF InFlight
<1>3. CASE \E w \in Sweeps : Sweeping(w)
  <2> PICK w \in Sweeps : Sweeping(w)
    BY <1>3
  <2>1. CASE JobBegin(w) \/ RunBegin(w)
    BY <2>1, SweepStartInv DEF JobBegin, RunBegin
  <2> QED
    BY <2>1, SweepInvoiceInv, SweepFailInv, SweepAdvanceInv DEF Sweeping
<1>4. CASE Restart
  <2>1. /\ sweep' = [w \in Sweeps |-> IdleSweep] /\ req' = [r \in Requests |-> Idle]
        /\ UNCHANGED <<sched, standing, today, plan, raced, settled, skipped, changes>>
    BY <1>4 DEF Restart, history, saved
  <2>2. TypeOK' /\ AtMostOne' /\ AllSteady
    BY <2>1, IdleTypes, UntouchedSteady DEF Inv, TypeOK, AtMostOne
  <2>3. SweepsKept' /\ RequestsKept'
    BY <2>1 DEF SweepsKept, RequestsKept, SweepKept, RequestKept, IdleSweep, Idle
  <2> QED
    BY <2>1, <2>2, <2>3, QuietRows DEF Inv
<1>5. CASE NextDay \/ UNCHANGED vars
  <2>1. UNCHANGED <<sched, standing, sweep, req, plan, raced, settled, skipped, changes>>
    BY <1>5 DEF NextDay, vars, history, saved
  <2>2. today' \in Dates
    BY <1>5, DatesAssumption DEF NextDay, vars, Inv, TypeOK, Dates
  <2>3. TypeOK' /\ AtMostOne' /\ AllSteady
    BY <2>1, <2>2, UntouchedSteady DEF Inv, TypeOK, AtMostOne
  <2> QED
    BY <2>1, <2>3, QuietRows, QuietSweeps, QuietRequests DEF Inv
<1> QED
  BY <1>1, <1>2, <1>3, <1>4, <1>5 DEF Next

LEMMA Invariant == Spec => []Inv
<1>1. Init => Inv
  BY InitInv
<1>2. Inv /\ [Next]_vars => Inv'
  BY NextInv
<1> QED
  BY <1>1, <1>2, PTL DEF Spec

-----------------------------------------------------------------------------
\* Rows, sweeps and requests keep their types, and no handler reads or writes a
\* date outside the horizon.
THEOREM TypeCorrect == Spec => []TypeOK
<1>1. Inv => TypeOK
  BY DEF Inv
<1> QED
  BY <1>1, Invariant, PTL

\* For any number of overlapping sweeps, requests, failures and restarts, and
\* any dates and frequencies saved: a schedule never moves past a date of its own
\* that was neither invoiced nor skipped, unless it was saved under a run or skip.
THEOREM NoDateIsLost == Spec => []NoDateLost
<1>1. Inv => NoDateLost
  BY DEF NoDateLost, Inv, RowsKept, Live
<1> QED
  BY <1>1, Invariant, PTL

\* The whole of recurring billing, for any number of overlapping runs,
\* implements "at most one standing invoice per date of a schedule".
THEOREM ImplementsPeriodBilling == Spec => OneInvoicePerDate
<1>1. Init => PB!Init
  BY DEF Init, PB!Init
<1>2. ASSUME Inv, NEW s \in Schedules, NEW d \in Dates, InvoiceOnce(s, d)
      PROVE  [PB!Next]_standing
  <2>1. d \in Dates
    OBVIOUS
  <2>2. CASE standing[s][d] = 0
    BY <1>2, <2>1, <2>2 DEF InvoiceOnce, PB!Next, PB!Invoice
  <2>3. CASE standing[s][d] # 0
    BY <1>2, <2>1, <2>3 DEF InvoiceOnce, Inv, TypeOK
  <2> QED
    BY <2>2, <2>3
<1>3. ASSUME Inv, NEW s \in Schedules, NEW d \in Dates, CancelInvoice(s, d)
      PROVE  [PB!Next]_standing
  <2>1. standing[s][d] = 1
    BY <1>3 DEF CancelInvoice, Inv, AtMostOne
  <2>2. standing' = [standing EXCEPT ![s][d] = 0]
    BY <1>3, <2>1 DEF CancelInvoice
  <2> QED
    BY <2>1, <2>2 DEF PB!Next, PB!Cancel
<1>4. Inv /\ [Next]_vars => [PB!Next]_standing
  <2> SUFFICES ASSUME Inv, [Next]_vars
               PROVE  [PB!Next]_standing
    OBVIOUS
  <2>1. CASE \E s \in Schedules, d \in Dates : CancelInvoice(s, d)
    BY <1>3, <2>1
  <2>2. CASE \E r \in Requests : RunNowInvoice(r)
    <3> PICK r \in Requests : RunNowInvoice(r)
      BY <2>2
    <3>1. req[r] \in Request /\ req[r].op = "run" /\ InvoiceOnce(req[r].sched, req[r].read.date)
      BY DEF RunNowInvoice, Inv, TypeOK
    <3>2. req[r].sched \in Schedules /\ req[r].read.date \in Dates
      BY <3>1, RequestFields, DatesFacts
    <3> QED
      BY <1>2, <3>1, <3>2
  <2>3. CASE \E w \in Sweeps, s \in Schedules : SweepInvoice(w, s)
    <3> PICK w \in Sweeps, s \in Schedules : SweepInvoice(w, s)
      BY <2>3
    <3>1. sweep[w] \in Sweep /\ InvoiceOnce(s, sweep[w].read[s].date)
      BY DEF SweepInvoice, Inv, TypeOK
    <3>2. sweep[w].read[s].date \in Dates
      BY <3>1, SweepFields, DatesFacts
    <3> QED
      BY <1>2, <3>1, <3>2
  <2>4. CASE ~ \/ \E s \in Schedules, d \in Dates : CancelInvoice(s, d)
               \/ \E r \in Requests : RunNowInvoice(r)
               \/ \E w \in Sweeps, s \in Schedules : SweepInvoice(w, s)
    <3>1. CASE Staff
      BY <2>4, <3>1 DEF Staff, SaveSchedule, SetStatus, DeleteSchedule, SkipBegin,
         RunNowBegin, ReadRow
    <3>2. CASE \E r \in Requests : InFlight(r)
      BY <2>4, <3>2 DEF InFlight, SkipCommit, RunNowRefuse, RunNowAdvance
    <3>3. CASE \E w \in Sweeps : Sweeping(w)
      BY <2>4, <3>3 DEF Sweeping, JobBegin, RunBegin, SweepStart, SweepFail, SweepAdvance
    <3>4. CASE Restart \/ NextDay \/ UNCHANGED vars
      BY <3>4 DEF Restart, NextDay, vars
    <3> QED
      BY <3>1, <3>2, <3>3, <3>4 DEF Next
  <2> QED
    BY <2>1, <2>2, <2>3, <2>4
<1> QED
  BY <1>1, <1>4, Invariant, PTL DEF Spec, OneInvoicePerDate, PB!Spec

-----------------------------------------------------------------------------
(***************************************************************************)
(* Dates: one run ahead                                                    *)
(***************************************************************************)
LEMMA LengthOfMonth ==
  ASSUME NEW y \in Int, NEW m \in 0..11
  PROVE  MonthLength(y, m) \in 28..31
<1>1. MonthLength(y, m) = IF m \in {3, 5, 8, 10} THEN 30
                          ELSE IF m = 1 THEN IF IsLeap(y) THEN 29 ELSE 28
                          ELSE 31
  BY DEF MonthLength
<1> QED
  BY <1>1

\* Where the d-th day from the first of a month lands: in it or in the next.
Lands(year, month, d, c) ==
  /\ OnACalendar(c) /\ c.year \in Nat /\ c.year >= year
  /\ d <= MonthLength(year, month) => c = [year |-> year, month |-> month, day |-> d]
  /\ d > MonthLength(year, month) =>
       /\ c.day = d - MonthLength(year, month)
       /\ IF month = 11 THEN c.year = year + 1 /\ c.month = 0
          ELSE c.year = year /\ c.month = month + 1
  /\ MonthNumber(c) - (12 * year + month) \in {0, 1}
  /\ d <= 28 => MonthNumber(c) = 12 * year + month /\ c.day = d

\* A month and a day within what a schedule adds to them: the month is counted on
\* from January of year 0, and the day goes over the end of one month at most.
LEMMA OverflowFacts ==
  ASSUME NEW y \in Nat, NEW m \in Nat, NEW d \in 1..59,
         NEW year, year = y + m \div 12, NEW month, month = m % 12,
         d <= 28 + MonthLength(year, month)
  PROVE  /\ year \in Nat /\ year >= y /\ month \in 0..11
         /\ 12 * year + month = 12 * y + m
         /\ Lands(year, month, d, Overflow(y, m, d))
<1> DEFINE length == MonthLength(year, month)
           c == Overflow(y, m, d)
<1>1. year \in Nat /\ year >= y /\ month \in 0..11 /\ 12 * year + month = 12 * y + m
  OBVIOUS
<1>2. c = IF d <= length THEN [year |-> year, month |-> month, day |-> d]
          ELSE [year |-> year + (month + 1) \div 12, month |-> (month + 1) % 12,
                day |-> d - length]
  BY DEF Overflow
<1>0. d <= 28 + length
  OBVIOUS
<1> HIDE DEF length, c
<1>3. length \in 28..31
  BY <1>1, LengthOfMonth DEF length
<1>4. CASE d <= length
  <2>1. c = [year |-> year, month |-> month, day |-> d]
    BY <1>2, <1>4
  <2>2. c.year = year /\ c.month = month /\ c.day = d
    BY <2>1
  <2>3. OnACalendar(c) /\ MonthNumber(c) = 12 * year + month
    BY <1>1, <1>3, <1>4, <2>2 DEF OnACalendar, MonthNumber, length
  <2> QED
    BY <1>1, <1>3, <1>4, <2>1, <2>2, <2>3 DEF Lands, length, c
<1>5. CASE d > length
  <2>1. c = [year |-> year + (month + 1) \div 12, month |-> (month + 1) % 12,
             day |-> d - length]
    BY <1>2, <1>3, <1>5
  <2>2. c.year = year + (month + 1) \div 12 /\ c.month = (month + 1) % 12 /\ c.day = d - length
    BY <2>1
  <2>3. IF month = 11 THEN c.year = year + 1 /\ c.month = 0
        ELSE c.year = year /\ c.month = month + 1
    BY <1>1, <2>2
  <2>4. c.year \in Nat /\ c.month \in 0..11 /\ c.day \in 1..28 /\ c.day \in Nat
    BY <1>0, <1>1, <1>3, <1>5, <2>2, <2>3
  <2>5. MonthLength(c.year, c.month) \in 28..31
    BY <2>4, LengthOfMonth
  <2>6. OnACalendar(c)
    BY <2>4, <2>5 DEF OnACalendar
  <2>7. MonthNumber(c) = 12 * year + month + 1
    BY <1>1, <2>3 DEF MonthNumber
  <2>8. c.year >= year /\ MonthNumber(c) - (12 * year + month) = 1
    BY <1>1, <2>3, <2>7
  <2> QED
    BY <1>1, <1>3, <1>5, <2>2, <2>3, <2>4, <2>6, <2>8 DEF Lands, length, c
<1>6. d <= length \/ d > length
  BY <1>3
<1> QED
  BY <1>4, <1>5, <1>6

LEMMA PinnedFacts ==
  ASSUME NEW c \in [year: Nat, month: 0..11, day: 1..31], OnACalendar(c),
         NEW repeatOn \in Int
  PROVE  LET p == Pinned(c, repeatOn) IN
           /\ p \in [year: Nat, month: 0..11, day: 1..31]
           /\ OnACalendar(p) /\ p.year = c.year /\ p.month = c.month
           /\ MonthNumber(p) = MonthNumber(c)
           /\ repeatOn = 0 => p = c
           /\ repeatOn # 0 /\ repeatOn <= 28 =>
                p.day = IF repeatOn <= 0 THEN 1 ELSE repeatOn
<1> DEFINE last == MonthLength(c.year, c.month)
           day == IF repeatOn < 1 THEN 1 ELSE IF repeatOn < last THEN repeatOn ELSE last
           p == Pinned(c, repeatOn)
<1>1. c.year \in Nat /\ c.month \in 0..11 /\ c.day \in 1..31
  OBVIOUS
<1>2. last \in 28..31
  BY <1>1, LengthOfMonth
<1>3. p = IF repeatOn = 0 THEN c ELSE [c EXCEPT !.day = day]
  BY DEF Pinned
<1>4. CASE repeatOn = 0
  BY <1>3, <1>4
<1>5. CASE repeatOn # 0
  <2>1. p = [c EXCEPT !.day = day]
    BY <1>3, <1>5
  <2>2. day \in 1..last /\ day \in 1..31 /\ (repeatOn <= 28 => day = IF repeatOn <= 0 THEN 1 ELSE repeatOn)
    BY <1>2, <1>5
  <2> HIDE DEF day, p
  <2>3. p.year = c.year /\ p.month = c.month /\ p.day = day
        /\ p \in [year: Nat, month: 0..11, day: 1..31]
    BY <2>1, <2>2
  <2> QED
    BY <1>1, <1>5, <2>2, <2>3 DEF OnACalendar, MonthNumber, p
<1> QED
  BY <1>4, <1>5

-----------------------------------------------------------------------------
(***************************************************************************)
(* The days between two dates: the months before one are those before the  *)
(* other and the month it overflowed                                       *)
(***************************************************************************)
LEMMA MonthsFinite ==
  ASSUME NEW c, c.year \in Nat
  PROVE  /\ IsFiniteSet(MonthsBefore(c))
         /\ \A ym \in MonthsBefore(c) : ym[1] \in Nat /\ ym[2] \in 0..11
<1>1. FirstYear \in Nat
  BY YearsAssumption
<1>2. IsFiniteSet((FirstYear..c.year) \X (0..11))
  <2>1. IsFiniteSet(FirstYear..c.year) /\ IsFiniteSet(0..11)
    <3>1. FirstYear \in Int /\ c.year \in Int /\ 0 \in Int /\ 11 \in Int
      BY <1>1
    <3> QED
      BY <3>1, FS_Interval, Zenon
  <2> QED
    BY <2>1, FS_Product
<1>3. MonthsBefore(c) \in SUBSET ((FirstYear..c.year) \X (0..11))
  BY DEF MonthsBefore
<1> QED
  BY <1>1, <1>2, <1>3, FS_Subset

LEMMA MonthSum ==
  ASSUME NEW c, c.year \in Nat
  PROVE  SumFunctionOnSet([ym \in MonthsBefore(c) |-> MonthLength(ym[1], ym[2])],
                          MonthsBefore(c)) \in Int
<1> DEFINE f == [ym \in MonthsBefore(c) |-> MonthLength(ym[1], ym[2])]
<1>1. /\ IsFiniteSet(MonthsBefore(c))
      /\ \A ym \in MonthsBefore(c) : ym[1] \in Nat /\ ym[2] \in 0..11
  BY MonthsFinite
<1>2. \A ym \in MonthsBefore(c) : MonthLength(ym[1], ym[2]) \in 28..31
  BY <1>1, LengthOfMonth
<1>3. \A ym \in MonthsBefore(c) : f[ym] \in Int
  BY <1>2
<1> HIDE DEF f
<1>4. SumFunctionOnSet(f, MonthsBefore(c)) \in Int
  BY <1>1, <1>3, SumType
<1> QED
  BY <1>4 DEF f

LEMMA DayNumberType ==
  ASSUME NEW c, c.year \in Nat, c.day \in Int
  PROVE  DayNumber(c) \in Int
<1> DEFINE sum == SumFunctionOnSet([ym \in MonthsBefore(c) |-> MonthLength(ym[1], ym[2])],
                                   MonthsBefore(c))
<1>1. sum \in Int /\ DayNumber(c) = sum + c.day
  BY MonthSum DEF DayNumber
<1> HIDE DEF sum
<1> QED
  BY <1>1

LEMMA SameMonth ==
  ASSUME NEW b, NEW c, b.year \in Nat, b.day \in Int, c.day \in Int,
         c.year = b.year, c.month = b.month
  PROVE  DayNumber(c) - c.day = DayNumber(b) - b.day
<1> DEFINE sum == SumFunctionOnSet([ym \in MonthsBefore(b) |-> MonthLength(ym[1], ym[2])],
                                   MonthsBefore(b))
<1>1. MonthsBefore(c) = MonthsBefore(b)
  BY DEF MonthsBefore
<1>2. sum \in Int /\ DayNumber(b) = sum + b.day /\ DayNumber(c) = sum + c.day
  BY <1>1, MonthSum DEF DayNumber
<1> HIDE DEF sum
<1> QED
  BY <1>2

\* The first of the next month is a month's length after the first of a month.
LEMMA NextMonth ==
  ASSUME NEW b, NEW c, b.year \in Nat, b.year >= FirstYear, b.month \in 0..11,
         b.day \in Int, c.day \in Int,
         IF b.month = 11 THEN c.year = b.year + 1 /\ c.month = 0
         ELSE c.year = b.year /\ c.month = b.month + 1
  PROVE  DayNumber(c) - c.day = DayNumber(b) - b.day + MonthLength(b.year, b.month)
<1> DEFINE A == MonthsBefore(b)
           B == MonthsBefore(c)
           a == <<b.year, b.month>>
           g == [ym \in B |-> MonthLength(ym[1], ym[2])]
           f == [ym \in A |-> MonthLength(ym[1], ym[2])]
<1>1. FirstYear \in Nat /\ c.year \in Nat
  BY YearsAssumption
<1>2. /\ IsFiniteSet(A)
      /\ \A ym \in A : ym[1] \in Nat /\ ym[2] \in 0..11
  BY MonthsFinite
<1>3. B = A \cup {a} /\ a \notin A
  <2>1. \A y, m : <<y, m>> \in B <=> <<y, m>> \in A \/ <<y, m>> = a
    BY <1>1 DEF MonthsBefore
  <2>2. a \notin A
    BY <1>1 DEF MonthsBefore
  <2>3. /\ \A ym \in A : ym = <<ym[1], ym[2]>>
        /\ \A ym \in B : ym = <<ym[1], ym[2]>>
    BY DEF MonthsBefore
  <2> HIDE DEF A, B
  <2> QED
    BY <2>1, <2>2, <2>3 DEF a
<1>4. /\ \A ym \in B : g[ym] \in Int
      /\ \A ym \in A : g[ym] = f[ym]
      /\ g[a] = MonthLength(b.year, b.month) /\ g[a] \in Int
  <2>1. \A ym \in B : ym[1] \in Nat /\ ym[2] \in 0..11
    BY <1>1, MonthsFinite
  <2>2. \A ym \in B : MonthLength(ym[1], ym[2]) \in 28..31
    BY <2>1, LengthOfMonth
  <2> HIDE DEF A, B
  <2>3. \A ym \in B : g[ym] \in Int
    BY <2>2
  <2>4. \A ym \in A : g[ym] = f[ym]
    BY <1>3
  <2>5. a \in B /\ a[1] = b.year /\ a[2] = b.month
    BY <1>3
  <2>6. g[a] = MonthLength(a[1], a[2])
    BY <2>5
  <2> QED
    BY <2>3, <2>4, <2>5, <2>6
<1>5. /\ DayNumber(c) = SumFunctionOnSet(g, B) + c.day
      /\ DayNumber(b) = SumFunctionOnSet(f, A) + b.day
  BY DEF DayNumber
<1> HIDE DEF A, B, a, g, f
<1>6. SumFunctionOnSet(g, B) = SumFunctionOnSet(g, A) + g[a]
  BY <1>2, <1>3, <1>4, SumAdd
<1>7. SumFunctionOnSet(g, A) = SumFunctionOnSet(f, A)
  BY <1>2, <1>4, SumSame
<1>8. SumFunctionOnSet(f, A) \in Int
  BY <1>2, <1>3, <1>4, SumType
<1> QED
  BY <1>4, <1>5, <1>6, <1>7, <1>8

-----------------------------------------------------------------------------
LEMMA SchedulePeriods ==
  ASSUME NEW s \in Schedule
  PROVE  /\ Step(s.interval) = IntervalOf(s) /\ IntervalOf(s) \in Nat \ {0}
         /\ s.repeatOn \in Int /\ PinOf(s) = IF s.repeatOn <= 0 THEN 1 ELSE s.repeatOn
         /\ s.frequency # "weekly" =>
              /\ MonthsOf(s) = Step(s.interval) * MonthsPer(s.frequency)
              /\ MonthsOf(s) \in Nat \ {0}
<1>1. s.frequency \in Frequencies /\ s.interval \in Int /\ s.repeatOn \in Int
  BY IntervalsAssumption, RepeatDaysAssumption DEF Schedule
<1>2. Step(s.interval) = IntervalOf(s) /\ IntervalOf(s) \in Nat \ {0}
  BY <1>1 DEF Step, IntervalOf
<1>3. CASE s.frequency = "monthly"
  BY <1>1, <1>2, <1>3 DEF MonthsOf, MonthsPer, PinOf
<1>4. CASE s.frequency = "quarterly"
  BY <1>1, <1>2, <1>4 DEF MonthsOf, MonthsPer, PinOf
<1>5. CASE s.frequency = "annual"
  BY <1>1, <1>2, <1>5 DEF MonthsOf, MonthsPer, PinOf
<1>6. CASE s.frequency = "weekly"
  BY <1>1, <1>2, <1>6 DEF PinOf
<1> QED
  BY <1>1, <1>3, <1>4, <1>5, <1>6 DEF Frequencies

\* The fields of a date, its place on the calendar and, while every month has its
\* day, its distance from the first one.
DateRecord == [year: Nat, month: 0..11, day: 1..31]
DatesInv ==
  /\ date \in DateRecord /\ started \in DateRecord /\ schedule \in Schedule
  /\ OnACalendar(date) /\ OnACalendar(started)
  /\ date.year >= FirstYear
  /\ CommonDaysNeverDrift

\* A date some days on is a date, and that many days on.
OnFrom(b, days, c) ==
  /\ c \in DateRecord /\ OnACalendar(c) /\ c.year >= b.year
  /\ DayNumber(c) = DayNumber(b) + days

LEMMA OneWeek ==
  ASSUME NEW b \in DateRecord, OnACalendar(b), b.year >= FirstYear
  PROVE  OnFrom(b, 7, WeekLater(b))
<1> DEFINE y == b.year
           m == b.month
           d == b.day + 7
           length == MonthLength(y, m)
           c == Overflow(y, m, d)
<1>1. /\ y \in Nat /\ y >= FirstYear /\ FirstYear \in Nat /\ m \in 0..11 /\ m \in Nat
      /\ b.day \in 1..31 /\ b.day <= length
  BY YearsAssumption DEF DateRecord, OnACalendar
<1>3. WeekLater(b) = c
  BY DEF WeekLater
<1>4. y + m \div 12 = y /\ m % 12 = m
  BY <1>1
<1>5. length \in 28..31
  BY <1>1, LengthOfMonth
<1> HIDE DEF length
<1>6. d \in 1..59 /\ d <= 28 + length
  BY <1>1, <1>5
<1>7. d <= 28 + MonthLength(y, m)
  BY <1>6 DEF length
<1> HIDE DEF c, d, y, m
<1>8. Lands(y, m, d, c)
  BY <1>1, <1>4, <1>6, <1>7, OverflowFacts DEF c
<1>9. /\ OnACalendar(c) /\ c.year \in Nat /\ c.year >= y
      /\ d <= length => c = [year |-> y, month |-> m, day |-> d]
      /\ d > length =>
           /\ c.day = d - length
           /\ IF m = 11 THEN c.year = y + 1 /\ c.month = 0
              ELSE c.year = y /\ c.month = m + 1
  BY <1>8 DEF Lands, length
<1>10. c \in DateRecord
  <2>1. c.month \in 0..11 /\ c.day \in 1..31
    BY <1>9, LengthOfMonth DEF OnACalendar
  <2>2. c = [year |-> c.year, month |-> c.month, day |-> c.day]
    BY DEF c, Overflow
  <2> QED
    BY <1>9, <2>1, <2>2 DEF DateRecord
<1>11. DayNumber(c) = DayNumber(b) + 7
  <2>1. b.year = y /\ b.month = m /\ b.day \in Int /\ d = b.day + 7
    BY <1>1 DEF y, m, d
  <2>2. c.year \in Nat /\ c.day \in Int
    BY <1>10 DEF DateRecord
  <2>3. DayNumber(b) \in Int /\ DayNumber(c) \in Int
    BY <1>1, <2>1, <2>2, DayNumberType
  <2>4. CASE d <= length
    <3>1. c.year = y /\ c.month = m /\ c.day = d
      BY <1>9, <2>4
    <3>2. DayNumber(c) - c.day = DayNumber(b) - b.day
      BY <1>1, <2>1, <2>2, <3>1, SameMonth
    <3> QED
      BY <2>1, <2>3, <3>1, <3>2
  <2>5. CASE d > length
    <3>1. /\ c.day = d - length
          /\ IF m = 11 THEN c.year = y + 1 /\ c.month = 0
             ELSE c.year = y /\ c.month = m + 1
      BY <1>9, <2>5
    <3>2. DayNumber(c) - c.day = DayNumber(b) - b.day + MonthLength(y, m)
      BY <1>1, <2>1, <2>2, <3>1, NextMonth
    <3> QED
      BY <1>5, <2>1, <2>3, <3>1, <3>2 DEF length
  <2> QED
    BY <1>5, <1>6, <2>4, <2>5
<1> QED
  BY <1>3, <1>9, <1>10, <1>11 DEF y, OnFrom

\* after is the function that the recursion of n weeks from c defines.
WeeksFrom(c, n, after) ==
  after = [k \in 0..n |-> IF k = 0 THEN c ELSE WeekLater(after[k - 1])]

LEMMA LeastNatural ==
  ASSUME NEW Bad \in SUBSET Nat, Bad # {}
  PROVE  \E n \in Bad : n # 0 => n - 1 \in Nat \ Bad
<1> DEFINE R == {ss \in Nat \X Nat : ss[1] < ss[2]}
<1>1. IsWellFoundedOn(R, Nat)
  BY NatLessThanWellFounded DEF OpToRel
<1>2. PICK n \in Bad : \A k \in Bad : <<k, n>> \notin R
  <2> HIDE DEF R
  <2> QED
    BY <1>1, WFMin
<1>3. ASSUME n # 0 PROVE n - 1 \in Nat \ Bad
  <2>1. n - 1 \in Nat /\ n \in Nat /\ n - 1 < n
    BY <1>3
  <2> QED
    BY <1>2, <2>1
<1> QED
  BY <1>3

LEMMA WeeksExist ==
  ASSUME NEW c, NEW n \in Nat
  PROVE  \E after : WeeksFrom(c, n, after)
<1> DEFINE Bad == {k \in Nat : ~\E after : WeeksFrom(c, k, after)}
<1> SUFFICES ASSUME Bad # {} PROVE FALSE
  OBVIOUS
<1>1. PICK k \in Bad : k # 0 => k - 1 \in Nat \ Bad
  <2>1. Bad \in SUBSET Nat
    OBVIOUS
  <2> HIDE DEF Bad
  <2> QED
    BY <2>1, LeastNatural
<1>2. k \in Nat /\ ~\E after : WeeksFrom(c, k, after)
  OBVIOUS
<1>3. CASE k = 0
  <2> DEFINE f == [j \in 0..0 |-> c]
  <2>1. f = [j \in 0..0 |-> IF j = 0 THEN c ELSE WeekLater(f[j - 1])]
    OBVIOUS
  <2>2. WeeksFrom(c, 0, f)
    BY <2>1 DEF WeeksFrom
  <2> QED
    BY <1>2, <1>3, <2>2
<1>4. CASE k # 0
  <2>1. PICK h : WeeksFrom(c, k - 1, h)
    BY <1>1, <1>4
  <2> DEFINE f == [j \in 0..k |-> IF j = k THEN WeekLater(h[k - 1]) ELSE h[j]]
  <2>2. h = [j \in 0..(k - 1) |-> IF j = 0 THEN c ELSE WeekLater(h[j - 1])]
    BY <2>1 DEF WeeksFrom
  <2>3. ASSUME NEW j \in 0..k
        PROVE  f[j] = IF j = 0 THEN c ELSE WeekLater(f[j - 1])
    <3>1. j # 0 => j - 1 \in 0..k /\ j - 1 # k
      BY <1>2
    <3>2. j # 0 => f[j - 1] = h[j - 1]
      BY <3>1
    <3>3. CASE j = k
      BY <1>4, <3>2, <3>3
    <3>4. CASE j # k
      <4>1. j \in 0..(k - 1)
        BY <1>2, <3>4
      <4>2. h[j] = IF j = 0 THEN c ELSE WeekLater(h[j - 1])
        BY <2>2, <4>1
      <4> QED
        BY <3>2, <3>4, <4>2
    <3> QED
      BY <3>3, <3>4
  <2>4. f = [j \in 0..k |-> f[j]]
    OBVIOUS
  <2> HIDE DEF f
  <2>5. f = [j \in 0..k |-> IF j = 0 THEN c ELSE WeekLater(f[j - 1])]
    BY <2>3, <2>4
  <2> QED
    BY <1>2, <2>5 DEF WeeksFrom
<1> QED
  BY <1>3, <1>4

\* Any number of weeks on, one after the other.
LEMMA ManyWeeks ==
  ASSUME NEW c \in DateRecord, OnACalendar(c), c.year >= FirstYear, NEW n \in Nat
  PROVE  OnFrom(c, 7 * n, WeeksLater(c, n))
<1> DEFINE after == CHOOSE h : WeeksFrom(c, n, h)
           Bad == {k \in 0..n : ~OnFrom(c, 7 * k, after[k])}
<1>1. WeeksFrom(c, n, after)
  BY WeeksExist
<1>2. WeeksLater(c, n) = after[n]
  BY DEF WeeksLater, WeeksFrom
<1> HIDE DEF after
<1>3. \A k \in 0..n : after[k] = IF k = 0 THEN c ELSE WeekLater(after[k - 1])
  BY <1>1 DEF WeeksFrom
<1>4. c.year \in Nat /\ c.day \in Int /\ FirstYear \in Nat
  BY YearsAssumption DEF DateRecord
<1>5. DayNumber(c) \in Int
  BY <1>4, DayNumberType
<1>6. Bad = {}
  <2> SUFFICES ASSUME Bad # {} PROVE FALSE
    OBVIOUS
  <2>1. PICK k \in Bad : k # 0 => k - 1 \in Nat \ Bad
    <3>1. Bad \in SUBSET Nat
      OBVIOUS
    <3> HIDE DEF Bad
    <3> QED
      BY <3>1, LeastNatural
  <2>2. k \in 0..n /\ ~OnFrom(c, 7 * k, after[k])
    OBVIOUS
  <2>3. CASE k = 0
    <3>1. after[k] = c
      BY <1>3, <2>2, <2>3
    <3> QED
      BY <1>4, <1>5, <2>2, <2>3, <3>1 DEF OnFrom
  <2>4. CASE k # 0
    <3> DEFINE b == after[k - 1]
    <3>1. k - 1 \in 0..n /\ OnFrom(c, 7 * (k - 1), b)
      BY <2>1, <2>2, <2>4
    <3>2. after[k] = WeekLater(b)
      BY <1>3, <2>2, <2>4
    <3> HIDE DEF b
    <3>3. /\ b \in DateRecord /\ OnACalendar(b) /\ b.year >= c.year
          /\ DayNumber(b) = DayNumber(c) + 7 * (k - 1)
      BY <3>1 DEF OnFrom
    <3>4. b.year \in Nat /\ b.year >= FirstYear
      BY <1>4, <3>3 DEF DateRecord
    <3>5. OnFrom(b, 7, after[k])
      BY <3>2, <3>3, <3>4, OneWeek
    <3>6. /\ after[k] \in DateRecord /\ OnACalendar(after[k]) /\ after[k].year >= b.year
          /\ DayNumber(after[k]) = DayNumber(b) + 7
      BY <3>5 DEF OnFrom
    <3>7. after[k].year \in Nat
      BY <3>6 DEF DateRecord
    <3>8. DayNumber(after[k]) = DayNumber(c) + 7 * k /\ after[k].year >= c.year
      BY <1>4, <1>5, <2>2, <3>3, <3>4, <3>6, <3>7
    <3> QED
      BY <2>2, <3>6, <3>8 DEF OnFrom
  <2> QED
    BY <2>3, <2>4
<1>7. n \in 0..n
  OBVIOUS
<1> QED
  BY <1>2, <1>6, <1>7

\* What one run does to the date of a weekly schedule, and of one counted in months.
LEMMA WeeklyStep ==
  ASSUME DatesInv, schedule.frequency = "weekly", AdvanceDate
  PROVE  /\ date' \in DateRecord /\ OnACalendar(date') /\ date'.year >= date.year
         /\ DayNumber(date') = DayNumber(date) + 7 * IntervalOf(schedule)
<1>1. Step(schedule.interval) = IntervalOf(schedule) /\ IntervalOf(schedule) \in Nat
  BY SchedulePeriods DEF DatesInv
<1>2. date' = WeeksLater(date, IntervalOf(schedule))
  BY <1>1 DEF AdvanceDate, NextRecurringDate
<1>3. OnFrom(date, 7 * IntervalOf(schedule), WeeksLater(date, IntervalOf(schedule)))
  BY <1>1, ManyWeeks DEF DatesInv
<1> QED
  BY <1>2, <1>3 DEF OnFrom

LEMMA MonthsStep ==
  ASSUME DatesInv, schedule.frequency # "weekly", AdvanceDate
  PROVE  LET k == MonthsOf(schedule) IN
           /\ date' \in DateRecord /\ OnACalendar(date') /\ date'.year >= date.year
           /\ MonthNumber(date') - MonthNumber(date) - k \in {0, 1}
           /\ date.day <= 28 =>
                /\ MonthNumber(date') = MonthNumber(date) + k
                /\ schedule.repeatOn = 0 => date'.day = date.day
           /\ schedule.repeatOn # 0 /\ schedule.repeatOn <= 28 =>
                date'.day = PinOf(schedule)
<1> DEFINE y == date.year
           k == MonthsOf(schedule)
           m == date.month + k
           d == date.day
           repeatOn == schedule.repeatOn
           c == Overflow(y, m, d)
           p == Pinned(c, repeatOn)
<1>1. /\ y \in Nat /\ y >= FirstYear /\ FirstYear \in Nat /\ date.month \in 0..11
      /\ d \in 1..31
  BY YearsAssumption DEF DatesInv, DateRecord
<1>0. y \in Nat
  BY <1>1
<1>2. /\ Step(schedule.interval) * MonthsPer(schedule.frequency) = k
      /\ k \in Nat \ {0} /\ repeatOn \in Int
      /\ PinOf(schedule) = IF repeatOn <= 0 THEN 1 ELSE repeatOn
  BY SchedulePeriods DEF DatesInv
<1>3. date' = p
  BY <1>2 DEF AdvanceDate, NextRecurringDate
<1>4. MonthNumber(date) = 12 * y + date.month
  BY DEF MonthNumber
<1> HIDE DEF k
<1>5. m \in Nat /\ d \in 1..59
  BY <1>1, <1>2
<1>6. 12 * y + m = MonthNumber(date) + k
  BY <1>1, <1>2, <1>4
<1> HIDE DEF y, d, m, repeatOn, p
<1>7. PICK year, month : year = y + m \div 12 /\ month = m % 12
  OBVIOUS
<1>8. year \in Nat /\ month \in 0..11
  BY <1>1, <1>5, <1>7
<1>9. MonthLength(year, month) \in 28..31
  BY <1>8, LengthOfMonth
<1>10. d <= 28 + MonthLength(year, month)
  BY <1>9, <1>1
<1>11. /\ year >= y /\ 12 * year + month = 12 * y + m
       /\ Lands(year, month, d, c)
  <2>1. Lands(year, month, d, c)
    BY <1>0, <1>5, <1>7, <1>10, OverflowFacts
  <2>2. year >= y /\ 12 * year + month = 12 * y + m
    BY <1>0, <1>5, <1>7
  <2> QED
    BY <2>1, <2>2
<1> HIDE DEF c
<1>12. /\ OnACalendar(c) /\ c.year \in Nat /\ c.year >= y
       /\ MonthNumber(c) - (12 * y + m) \in {0, 1}
       /\ d <= 28 => MonthNumber(c) = 12 * y + m /\ c.day = d
  BY <1>1, <1>8, <1>11 DEF Lands
<1>13. c \in DateRecord
  <2>1. c.month \in 0..11 /\ c.day \in 1..31
    BY <1>12, LengthOfMonth DEF OnACalendar
  <2>2. c = [year |-> c.year, month |-> c.month, day |-> c.day]
    BY DEF c, Overflow
  <2> QED
    BY <1>12, <2>1, <2>2 DEF DateRecord
<1>14. /\ p \in DateRecord
       /\ OnACalendar(p) /\ p.year = c.year /\ p.month = c.month
       /\ MonthNumber(p) = MonthNumber(c)
       /\ repeatOn = 0 => p = c
       /\ repeatOn # 0 /\ repeatOn <= 28 => p.day = IF repeatOn <= 0 THEN 1 ELSE repeatOn
  BY <1>2, <1>12, <1>13, PinnedFacts DEF DateRecord, p
<1>15. MonthNumber(c) \in Int /\ MonthNumber(date) \in Int
  BY <1>1, <1>4, <1>13 DEF DateRecord, MonthNumber
<1> QED
  BY <1>2, <1>3, <1>6, <1>12, <1>14, <1>15 DEF k, y, d, repeatOn

LEMMA DatesStay == DatesInv /\ [DatesNext]_dateVars => DatesInv'
<1> SUFFICES ASSUME DatesInv, [DatesNext]_dateVars PROVE DatesInv'
  OBVIOUS
<1>1. CASE UNCHANGED dateVars
  <2>1. date' = date /\ schedule' = schedule /\ started' = started
    BY <1>1 DEF dateVars
  <2> QED
    BY <2>1 DEF DatesInv, OnACalendar, CommonDaysNeverDrift, MonthNumber, MonthsOf,
       IntervalOf, PinOf
<1>2. CASE AdvanceDate
  <2>1. schedule' = schedule /\ started' = started
    BY <1>2 DEF AdvanceDate
  <2>2. date.year \in Nat /\ FirstYear \in Nat /\ date.year >= FirstYear
    BY YearsAssumption DEF DatesInv, DateRecord
  <2>3. date' \in DateRecord /\ OnACalendar(date') /\ date'.year >= date.year
    <3>1. CASE schedule.frequency = "weekly"
      BY <1>2, <3>1, WeeklyStep
    <3>2. CASE schedule.frequency # "weekly"
      BY <1>2, <3>2, MonthsStep
    <3> QED
      BY <3>1, <3>2
  <2>4. date'.year >= FirstYear
    BY <2>2, <2>3 DEF DateRecord
  <2>5. CommonDaysNeverDrift'
    <3> SUFFICES ASSUME schedule.frequency # "weekly", started.day <= 28,
                        schedule.repeatOn <= 28
                 PROVE  /\ (MonthNumber(date') - MonthNumber(started)) % MonthsOf(schedule) = 0
                        /\ date'.day = IF schedule.repeatOn = 0 \/ date' = started
                                       THEN started.day ELSE PinOf(schedule)
      BY <2>1 DEF CommonDaysNeverDrift, MonthNumber, MonthsOf, IntervalOf, PinOf
    <3> DEFINE k == MonthsOf(schedule)
               x == MonthNumber(date) - MonthNumber(started)
    <3>1. /\ x % k = 0
          /\ date.day = IF schedule.repeatOn = 0 \/ date = started
                        THEN started.day ELSE PinOf(schedule)
      BY DEF DatesInv, CommonDaysNeverDrift
    <3>2. k \in Nat \ {0} /\ schedule.repeatOn \in Int
          /\ PinOf(schedule) = IF schedule.repeatOn <= 0 THEN 1 ELSE schedule.repeatOn
      BY SchedulePeriods DEF DatesInv
    <3>3. x \in Int /\ MonthNumber(date) \in Int /\ MonthNumber(started) \in Int
      BY DEF DatesInv, DateRecord, MonthNumber
    <3>4. date.day <= 28
      BY <3>1, <3>2
    <3>5. /\ MonthNumber(date') = MonthNumber(date) + k
          /\ schedule.repeatOn = 0 => date'.day = date.day
          /\ schedule.repeatOn # 0 /\ schedule.repeatOn <= 28 => date'.day = PinOf(schedule)
      BY <1>2, <3>4, MonthsStep
    <3> HIDE DEF k
    <3>6. (x + k) % k = 0
      BY <3>1, <3>2, <3>3, StillDivides
    <3>7. MonthNumber(date') - MonthNumber(started) = x + k
      BY <3>2, <3>3, <3>5
    <3>8. date'.day = IF schedule.repeatOn = 0 \/ date' = started
                      THEN started.day ELSE PinOf(schedule)
      BY <3>1, <3>2, <3>5
    <3> QED
      BY <3>6, <3>7, <3>8 DEF k
  <2> QED
    BY <2>1, <2>3, <2>4, <2>5 DEF DatesInv, OnACalendar
<1> QED
  BY <1>1, <1>2 DEF DatesNext

LEMMA DatesAtFirst == DatesInit => DatesInv
<1> SUFFICES ASSUME DatesInit PROVE DatesInv
  OBVIOUS
<1>1. /\ date \in CalendarDates(FirstYear) /\ schedule \in Schedule /\ started = date
      /\ FirstYear \in Nat
  BY YearsAssumption DEF DatesInit
<1>2. /\ date \in DateRecord /\ date.year = FirstYear
      /\ date.month \in 0..11 /\ date.day \in 1..31 /\ date.day <= MonthLength(date.year, date.month)
  BY <1>1 DEF CalendarDates, DateRecord
<1>3. MonthLength(date.year, date.month) \in 28..31
  BY <1>1, <1>2, LengthOfMonth
<1>4. OnACalendar(date)
  BY <1>2, <1>3 DEF OnACalendar
<1>5. CommonDaysNeverDrift
  <2> SUFFICES ASSUME schedule.frequency # "weekly"
               PROVE  (MonthNumber(date) - MonthNumber(started)) % MonthsOf(schedule) = 0
    BY <1>1 DEF CommonDaysNeverDrift
  <2>1. MonthNumber(date) - MonthNumber(started) = 0
    BY <1>1, <1>2 DEF MonthNumber
  <2>2. MonthsOf(schedule) \in Nat \ {0}
    BY <1>1, SchedulePeriods
  <2>3. \A k \in Nat \ {0} : 0 % k = 0
    OBVIOUS
  <2> QED
    BY <2>1, <2>2, <2>3
<1> QED
  BY <1>1, <1>2, <1>4, <1>5 DEF DatesInv

\* Every date a schedule is advanced to is a date of the calendar, leap years
\* and century years included, for schedules followed over any span of years.
THEOREM DatesTypeCorrect == DatesSpec => []DatesTypeOK
<1>1. DatesInv => DatesTypeOK
  BY DEF DatesInv, DatesTypeOK, DateRecord
<1> QED
  BY <1>1, DatesAtFirst, DatesStay, PTL DEF DatesSpec

\* A schedule entered for a day every month has never drifts off it.
THEOREM CommonDaysStay == DatesSpec => []CommonDaysNeverDrift
<1>1. DatesInv => CommonDaysNeverDrift
  BY DEF DatesInv
<1> QED
  BY <1>1, DatesAtFirst, DatesStay, PTL DEF DatesSpec

\* Every run moves the date on by its period: weekly ones keep their weekday, those
\* counted in months never run twice within their interval.
THEOREM RunsOnSchedule == DatesSpec => OnSchedule
<1>1. DatesInv /\ [DatesNext]_dateVars =>
        [IF schedule.frequency = "weekly"
         THEN DayNumber(date') = DayNumber(date) + 7 * IntervalOf(schedule)
         ELSE MonthNumber(date') - MonthNumber(date) - MonthsOf(schedule) \in {0, 1}]_dateVars
  BY WeeklyStep, MonthsStep DEF DatesNext
<1> QED
  BY <1>1, DatesAtFirst, DatesStay, PTL DEF DatesSpec, OnSchedule
=============================================================================
