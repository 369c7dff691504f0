------------------------- MODULE AppointmentsProofs -------------------------
(***************************************************************************)
(* Proofs about Appointments, for any number of appointments, members of   *)
(* staff, days and requests in flight: types, that the lock of a day comes *)
(* back, that visitors are never booked twice into one slot, and that a    *)
(* reminder goes out once.                                                 *)
(***************************************************************************)
EXTENDS Appointments, TLAPS

BookingOps == {"wait", "check", "write"}
ReminderOps == {"due", "claimed", "told"}

-----------------------------------------------------------------------------
(***************************************************************************)
(* Types                                                                   *)
(***************************************************************************)
LEMMA RequestTypes ==
  ASSUME TypeOK, NEW r \in Requests
  PROVE  /\ req[r] \in Request
         /\ req[r].op \in BookingOps => req[r] \in Booking
         /\ req[r].op \in BookingOps =>
              /\ req[r].appt \in MaybeAppointment /\ req[r].who \in SUBSET Staff
              /\ req[r].staff \in MaybeStaff /\ req[r].time \in Time
              /\ req[r].time.day \in Days
         /\ req[r].op = "edit" =>
              /\ req[r].appt \in Appointments /\ req[r].staff \in MaybeStaff
              /\ req[r].time \in Time
         /\ req[r].op = "cancel" => req[r].appt \in Appointments
         /\ req[r].op \in ReminderOps =>
              /\ req[r] \in [op: ReminderOps, appt: Appointments, lead: Leads]
              /\ req[r].appt \in Appointments /\ req[r].lead \in Leads
         /\ req[r].op = "idle" <=> req[r] = Idle
  BY DEF TypeOK, Request, Booking, Idle, Time, BookingOps, ReminderOps

LEMMA RowTypes ==
  ASSUME TypeOK, NEW a \in Appointments
  PROVE  /\ appt[a].status \in {"None", "Scheduled", "Closed", "Deleted"}
         /\ appt[a].status = "None" <=> appt[a] = NoRow
         /\ Exists(a) <=> appt[a] \in Row
         /\ Exists(a) => /\ appt[a].status \in {"Scheduled", "Closed"}
                         /\ appt[a].staff \in MaybeStaff /\ appt[a].time \in Time
                         /\ appt[a].sent \in SUBSET Leads
  BY DEF TypeOK, Row, NoRow, Gone, Exists

\* What the handlers write into the rows.
LEMMA RowUpdates ==
  ASSUME TypeOK, NEW a \in Appointments, Exists(a)
  PROVE  /\ \A status \in {"Scheduled", "Closed"} :
              [appt[a] EXCEPT !.status = status] \in Row
         /\ \A t \in Time, sent \in SUBSET Leads :
              [appt[a] EXCEPT !.time = t, !.sent = sent] \in Row
         /\ \A s \in MaybeStaff, t \in Time, sent \in SUBSET Leads :
              [appt[a] EXCEPT !.staff = s, !.time = t, !.sent = sent] \in Row
         /\ \A sent \in SUBSET Leads : [appt[a] EXCEPT !.sent = sent] \in Row
  BY RowTypes DEF Row

\* What writing a start does to what is known of the reminders.
LEMMA RestartedTypes ==
  ASSUME TypeOK, NEW a \in Appointments, NEW t, NEW cleared \in BOOLEAN,
         NEW also \in SUBSET {"office"}, Restarted(a, t, cleared, also)
  PROVE  /\ told' \in [Appointments -> SUBSET Leads]
         /\ hist' \in [Appointments -> SUBSET {"office", "missed", "twice"}]
         /\ \A b \in Appointments : hist[b] \subseteq hist'[b]
         /\ also \subseteq hist'[a]
<1> DEFINE moved == Start(t) # Start(appt[a].time)
           missed == IF moved # cleared \/ Reminding(a) THEN {"missed"} ELSE {}
<1>1. CASE moved \/ cleared
  <2>1. told' = [told EXCEPT ![a] = {}]
    BY <1>1 DEF Restarted
  <2>2. hist' = [hist EXCEPT ![a] = hist[a] \cup also \cup missed]
    BY <1>1 DEF Restarted
  <2>3. missed \subseteq {"missed"}
    OBVIOUS
  <2> HIDE DEF missed
  <2> QED
    BY <2>1, <2>2, <2>3 DEF TypeOK
<1>2. CASE ~(moved \/ cleared)
  <2>1. told' = told /\ hist' = [hist EXCEPT ![a] = hist[a] \cup also]
    BY <1>2 DEF Restarted
  <2> QED
    BY <2>1 DEF TypeOK
<1> QED
  BY <1>1, <1>2

LEMMA MovedTypes ==
  ASSUME TypeOK, NEW r \in Requests, Move(r)
  PROVE  /\ told' \in [Appointments -> SUBSET Leads]
         /\ hist' \in [Appointments -> SUBSET {"office", "missed", "twice"}]
         /\ \A b \in Appointments : hist[b] \subseteq hist'[b]
<1>1. CASE Exists(req[r].appt)
  <2>1. req[r].appt \in Appointments
    BY RequestTypes DEF Move, BookingOps, MaybeAppointment
  <2> DEFINE cleared == TRUE
  <2>2. Restarted(req[r].appt, req[r].time, cleared, {}) /\ cleared \in BOOLEAN
    BY <1>1 DEF Move
  <2> HIDE DEF cleared
  <2> QED
    BY <2>1, <2>2, RestartedTypes
<1>2. CASE ~Exists(req[r].appt)
  BY <1>2 DEF Move, TypeOK
<1> QED
  BY <1>1, <1>2

LEMMA BeginTypes ==
  ASSUME TypeOK, NEW r \in Requests, NEW step \in Request, Begin(r, step)
  PROVE  TypeOK'
  BY DEF TypeOK, Begin

LEMMA VisitorTypes ==
  ASSUME TypeOK, NEW r \in Requests, Visitor(r)
  PROVE  TypeOK'
<1>1. CASE \E who \in SUBSET Staff, t \in Time : BookBegin(r, who, t)
  <2>1. PICK who \in SUBSET Staff, t \in Time : BookBegin(r, who, t)
    BY <1>1
  <2>2. [op |-> "wait", appt |-> NoAppointment, who |-> who,
         staff |-> NoStaff, time |-> t] \in Request
    BY DEF Request, Booking, MaybeAppointment, MaybeStaff
  <2> QED
    BY <2>1, <2>2, BeginTypes DEF BookBegin
<1>2. CASE \E a \in Appointments, t \in Time : MoveBegin(r, a, t)
  <2>1. PICK a \in Appointments, t \in Time : MoveBegin(r, a, t)
    BY <1>2
  <2> DEFINE who == IF appt[a].staff = NoStaff THEN Staff ELSE {appt[a].staff}
  <2>2. appt[a].staff \in MaybeStaff
    BY <2>1, RowTypes DEF MoveBegin, Scheduled, Exists
  <2>3. [op |-> "wait", appt |-> a, who |-> who,
         staff |-> appt[a].staff, time |-> t] \in Request
    BY <2>2 DEF Request, Booking, MaybeAppointment, MaybeStaff
  <2> QED
    BY <2>1, <2>3, BeginTypes DEF MoveBegin
<1>3. CASE LockDay(r)
  <2>1. [req[r] EXCEPT !.op = "check"] \in Request
    BY <1>3, RequestTypes DEF LockDay, BookingOps, Booking, Request
  <2> QED
    BY <1>3, <2>1 DEF LockDay, TypeOK
<1>4. CASE Check(r)
  <2>1. PICK s \in FreeStaff(req[r].who, req[r].time, req[r].appt) :
          req' = [req EXCEPT ![r].op = "write",
                    ![r].staff = IF req[r].appt = NoAppointment THEN s ELSE @]
    BY <1>4 DEF Check
  <2>2. req[r] \in Booking /\ s \in MaybeStaff
    BY <1>4, <2>1, RequestTypes DEF Check, BookingOps, FreeStaff, MaybeStaff
  <2>3. req'[r] \in Booking /\ \A q \in Requests \ {r} : req'[q] = req[q]
    BY <2>1, <2>2 DEF TypeOK, Booking
  <2>4. req' \in [Requests -> Request]
    BY <2>1, <2>3 DEF TypeOK, Request
  <2> QED
    BY <1>4, <2>4 DEF Check, TypeOK
<1>5. CASE GiveUp(r)
  BY <1>5 DEF GiveUp, Unlocked, TypeOK, Request
<1>6. CASE Move(r)
  <2>1. /\ req' = [req EXCEPT ![r] = Idle] /\ lock' = Unlocked(r)
        /\ req[r].appt \in Appointments /\ req[r].time \in Time
    BY <1>6, RequestTypes DEF Move, BookingOps, MaybeAppointment
  <2>2. appt' \in [Appointments -> {NoRow, Gone} \cup Row]
    <3>1. CASE Exists(req[r].appt)
      <4>1. [appt[req[r].appt] EXCEPT !.time = req[r].time, !.sent = {}] \in Row
        BY <2>1, <3>1, RowUpdates
      <4> QED
        BY <1>6, <2>1, <3>1, <4>1 DEF Move, TypeOK
    <3> QED
      BY <1>6, <3>1 DEF Move, TypeOK
  <2>3. /\ told' \in [Appointments -> SUBSET Leads]
        /\ hist' \in [Appointments -> SUBSET {"office", "missed", "twice"}]
    BY <1>6, MovedTypes
  <2> QED
    BY <2>1, <2>2, <2>3 DEF TypeOK, Unlocked, Request
<1>7. CASE \E a \in Appointments : Book(r, a)
  <2>1. PICK a \in Appointments : Book(r, a)
    BY <1>7
  <2>2. [status |-> "Scheduled", staff |-> req[r].staff,
         time |-> req[r].time, sent |-> {}] \in Row
    BY <2>1, RequestTypes DEF Book, BookingOps, Row
  <2> QED
    BY <2>1, <2>2 DEF Book, Unlocked, TypeOK, Request
<1>8. CASE \E a \in Appointments : CancelBegin(r, a)
  <2>1. PICK a \in Appointments : Begin(r, [op |-> "cancel", appt |-> a])
    BY <1>8 DEF CancelBegin
  <2>2. [op |-> "cancel", appt |-> a] \in Request
    BY DEF Request
  <2> QED
    BY <2>1, <2>2, BeginTypes
<1>9. CASE CancelCommit(r)
  <2>1. req[r].appt \in Appointments
    BY <1>9, RequestTypes DEF CancelCommit
  <2>2. appt' \in [Appointments -> {NoRow, Gone} \cup Row]
    BY <1>9, <2>1, RowUpdates DEF CancelCommit, WithStatus, TypeOK
  <2> QED
    BY <1>9, <2>2 DEF CancelCommit, TypeOK, Request
<1> QED
  BY <1>1, <1>2, <1>3, <1>4, <1>5, <1>6, <1>7, <1>8, <1>9 DEF Visitor

LEMMA OfficeTypes ==
  ASSUME TypeOK, Office
  PROVE  TypeOK'
<1>1. PICK a \in Appointments :
        \/ \E s \in MaybeStaff, t \in OfficeTimes : OfficeBook(a, s, t)
        \/ OfficeCancel(a) \/ Delete(a) \/ Complete(a)
  BY DEF Office
<1>2. CASE \E s \in MaybeStaff, t \in OfficeTimes : OfficeBook(a, s, t)
  <2>1. PICK s \in MaybeStaff, t \in OfficeTimes : OfficeBook(a, s, t)
    BY <1>2
  <2>2. [status |-> "Scheduled", staff |-> s, time |-> t, sent |-> {}] \in Row
    BY TimesAssumption DEF Row
  <2> QED
    BY <2>1, <2>2 DEF OfficeBook, TypeOK
<1>3. CASE OfficeCancel(a)
  BY <1>3, RowUpdates DEF OfficeCancel, WithStatus, TypeOK
<1>4. CASE Delete(a)
  BY <1>4 DEF Delete, TypeOK
<1>5. CASE Complete(a)
  BY <1>5, RowUpdates DEF Complete, WithStatus, TypeOK
<1> QED
  BY <1>1, <1>2, <1>3, <1>4, <1>5

LEMMA EditingTypes ==
  ASSUME TypeOK, NEW r \in Requests, Editing(r)
  PROVE  TypeOK'
<1>1. CASE \E a \in Appointments : EditBegin(r, a)
  <2>1. PICK a \in Appointments : EditBegin(r, a)
    BY <1>1
  <2>2. [op |-> "edit", appt |-> a, staff |-> appt[a].staff, time |-> appt[a].time]
          \in Request
    BY <2>1, RowTypes DEF EditBegin, Request
  <2> QED
    BY <2>1, <2>2, BeginTypes DEF EditBegin
<1>2. CASE EditCommit(r)
  <2>1. /\ req[r].appt \in Appointments /\ req[r].time \in Time
        /\ req' = [req EXCEPT ![r] = Idle] /\ lock' = lock
    BY <1>2, RequestTypes DEF EditCommit
  <2>2. CASE Exists(req[r].appt)
    <3> DEFINE a == req[r].appt
    <3>1. PICK s \in MaybeStaff, t \in OfficeTimes \cup {req[r].time} :
            Edited(a, req[r], s, t)
      BY <1>2, <2>2 DEF EditCommit
    <3>2. t \in Time
      BY <2>1, <3>1, TimesAssumption
    <3>3. /\ \A sent \in SUBSET Leads :
               [appt[a] EXCEPT !.staff = s, !.time = t, !.sent = sent] \in Row
          /\ appt[a].sent \in SUBSET Leads
      BY <2>1, <2>2, <3>2, RowUpdates, RowTypes
    <3>4. appt' \in [Appointments -> {NoRow, Gone} \cup Row]
      <4> DEFINE cleared == Start(t) # Start(req[r].time)
      <4>1. appt' = [appt EXCEPT ![a] = [appt[a] EXCEPT !.staff = s, !.time = t,
                       !.sent = IF cleared THEN {} ELSE appt[a].sent]]
        BY <2>1, <3>1 DEF Edited, TypeOK
      <4> QED
        BY <2>1, <3>3, <4>1 DEF TypeOK
    <3>5. /\ told' \in [Appointments -> SUBSET Leads]
          /\ hist' \in [Appointments -> SUBSET {"office", "missed", "twice"}]
      BY <2>1, <3>1 DEF Edited, Restarted, TypeOK
    <3> QED
      BY <2>1, <3>4, <3>5 DEF TypeOK, Request
  <2> QED
    BY <1>2, <2>1, <2>2 DEF EditCommit, TypeOK, Request
<1> QED
  BY <1>1, <1>2 DEF Editing

LEMMA RemindTypes ==
  ASSUME TypeOK, NEW r \in Requests, Remind(r)
  PROVE  TypeOK'
<1>1. CASE \E a \in Appointments, l \in Leads : RemindBegin(r, a, l)
  <2>1. PICK a \in Appointments, l \in Leads :
          Begin(r, [op |-> "due", appt |-> a, lead |-> l])
    BY <1>1 DEF RemindBegin
  <2>2. [op |-> "due", appt |-> a, lead |-> l] \in Request
    BY DEF Request
  <2> QED
    BY <2>1, <2>2, BeginTypes
<1>2. req[r].op \in ReminderOps =>
        \A op \in ReminderOps : [req[r] EXCEPT !.op = op] \in Request
  BY RequestTypes DEF Request, ReminderOps
<1>3. CASE RemindClaim(r)
  <2>1. req[r].appt \in Appointments /\ req[r].lead \in Leads
    BY <1>3, RequestTypes DEF RemindClaim, ReminderOps
  <2>2. CASE Claimable(req[r].appt, req[r].lead)
    <3>1. appt[req[r].appt].sent \cup {req[r].lead} \in SUBSET Leads
      BY <2>1, <2>2, RowTypes DEF Claimable
    <3>2. [appt[req[r].appt] EXCEPT !.sent = @ \cup {req[r].lead}] \in Row
      BY <2>1, <2>2, <3>1, RowUpdates DEF Claimable
    <3> QED
      BY <1>2, <1>3, <2>1, <2>2, <3>2 DEF RemindClaim, ReminderOps, TypeOK
  <2> QED
    BY <1>3, <2>2 DEF RemindClaim, TypeOK, Request
<1>4. CASE RemindClient(r)
  <2>1. req[r].appt \in Appointments /\ req[r].lead \in Leads
    BY <1>4, RequestTypes DEF RemindClient, ReminderOps
  <2> QED
    BY <1>2, <1>4, <2>1 DEF RemindClient, ReminderOps, TypeOK
<1>5. CASE RemindDone(r)
  BY <1>5 DEF RemindDone, TypeOK, Request
<1>6. CASE RemindFail(r)
  <2>1. req[r].appt \in Appointments
    BY <1>6, RequestTypes DEF RemindFail, ReminderOps
  <2>2. appt' \in [Appointments -> {NoRow, Gone} \cup Row]
    <3>1. CASE Exists(req[r].appt)
      <4>1. appt[req[r].appt].sent \ {req[r].lead} \in SUBSET Leads
        BY <2>1, <3>1, RowTypes
      <4>2. [appt[req[r].appt] EXCEPT !.sent = @ \ {req[r].lead}] \in Row
        BY <2>1, <3>1, <4>1, RowUpdates
      <4> QED
        BY <1>6, <2>1, <3>1, <4>2 DEF RemindFail, TypeOK
    <3> QED
      BY <1>6, <3>1 DEF RemindFail, TypeOK
  <2> QED
    BY <1>6, <2>2 DEF RemindFail, Missed, TypeOK, Request
<1>7. CASE GiveBackFails(r)
  BY <1>7 DEF GiveBackFails, Missed, TypeOK, Request
<1> QED
  BY <1>1, <1>3, <1>4, <1>5, <1>6, <1>7 DEF Remind

LEMMA TypeStep == TypeOK /\ [Next]_vars => TypeOK'
<1> SUFFICES ASSUME TypeOK, [Next]_vars PROVE TypeOK'
  OBVIOUS
<1>1. CASE Restart
  BY <1>1 DEF Restart, Missed, TypeOK, Request
<1>2. CASE UNCHANGED vars
  BY <1>2 DEF vars, TypeOK
<1> QED
  BY <1>1, <1>2, OfficeTypes, VisitorTypes, EditingTypes, RemindTypes DEF Next

\* Every variable of the appointments keeps its type.
THEOREM TypeCorrect == Spec => []TypeOK
<1>1. Init => TypeOK
  BY DEF Init, TypeOK, Request
<1> QED
  BY <1>1, TypeStep, PTL DEF Spec

-----------------------------------------------------------------------------
(***************************************************************************)
(* The lock of a day                                                       *)
(***************************************************************************)
\* Whoever is past the wait has the lock of the day.
HasLock ==
  \A r \in Requests : req[r].op \in {"check", "write"} => lock[req[r].time.day] = r

Locks == DayLockComesBack /\ HasLock

\* A step that starts or ends no booking under the lock.
LEMMA LocksKept ==
  ASSUME TypeOK, Locks, UNCHANGED lock,
         \A r \in Requests : \/ req'[r] = req[r]
                             \/ /\ req[r].op \notin {"check", "write"}
                                /\ req'[r].op \notin {"check", "write"}
  PROVE  Locks'
<1>1. \A d \in Days : lock[d] \in Requests \cup {Nobody}
  BY DEF TypeOK
<1> QED
  BY <1>1 DEF Locks, DayLockComesBack, HasLock

\* A booking ends and gives its lock back.
LEMMA LocksReturned ==
  ASSUME TypeOK, Locks, NEW r \in Requests, req[r].op \in {"check", "write"},
         lock' = Unlocked(r), req' = [req EXCEPT ![r] = Idle]
  PROVE  Locks'
<1>1. req[r].time.day \in Days /\ lock[req[r].time.day] = r
  BY RequestTypes DEF BookingOps, Locks, HasLock
<1>2. /\ lock'[req[r].time.day] = Nobody
      /\ \A d \in Days \ {req[r].time.day} : lock'[d] = lock[d]
  BY <1>1 DEF Unlocked, TypeOK
<1>3. /\ req'[r].op = "idle" /\ \A q \in Requests \ {r} : req'[q] = req[q]
  BY DEF TypeOK, Idle
<1>4. \A q \in Requests \ {r} : req[q].op \in {"check", "write"} =>
        req[q].time.day \in Days \ {req[r].time.day}
  BY <1>1, RequestTypes DEF BookingOps, Locks, HasLock
<1>5. HasLock'
  BY <1>2, <1>3, <1>4 DEF Locks, HasLock
<1>6. DayLockComesBack'
  <2> SUFFICES ASSUME NEW d \in Days, lock'[d] # Nobody
               PROVE  req'[lock'[d]].op \in {"check", "write"} /\ req'[lock'[d]].time.day = d
    BY DEF DayLockComesBack
  <2>1. d # req[r].time.day /\ lock'[d] = lock[d] /\ lock[d] \in Requests
    BY <1>2 DEF TypeOK
  <2>2. req[lock[d]].op \in {"check", "write"} /\ req[lock[d]].time.day = d
    BY <2>1 DEF Locks, DayLockComesBack
  <2> QED
    BY <1>3, <2>1, <2>2
<1> QED
  BY <1>5, <1>6 DEF Locks

\* The steps that neither take a lock nor have one.
LEMMA Lockless ==
  ASSUME TypeOK, Next, ~Restart,
         ~ \E r \in Requests : LockDay(r) \/ Check(r) \/ GiveUp(r) \/ Move(r)
                               \/ \E a \in Appointments : Book(r, a)
  PROVE  /\ UNCHANGED lock
         /\ \A r \in Requests : \/ req'[r] = req[r]
                                \/ /\ req[r].op \notin {"check", "write"}
                                   /\ req'[r].op \notin {"check", "write"}
<1>1. CASE Office
  BY <1>1 DEF Office, OfficeBook, OfficeCancel, Delete, Complete
<1>2. ASSUME NEW r \in Requests, NEW step,
             step.op \notin {"check", "write"}, Begin(r, step)
      PROVE  /\ UNCHANGED lock /\ \A q \in Requests \ {r} : req'[q] = req[q]
             /\ req[r].op \notin {"check", "write"} /\ req'[r].op \notin {"check", "write"}
  BY <1>2 DEF Begin, TypeOK, Idle
<1>3. ASSUME NEW r \in Requests, Visitor(r)
      PROVE  /\ UNCHANGED lock /\ \A q \in Requests \ {r} : req'[q] = req[q]
             /\ req[r].op \notin {"check", "write"} /\ req'[r].op \notin {"check", "write"}
  <2>1. CASE \E who \in SUBSET Staff, t \in Time : BookBegin(r, who, t)
    BY <1>2, <2>1 DEF BookBegin
  <2>2. CASE \E a \in Appointments, t \in Time : MoveBegin(r, a, t)
    BY <1>2, <2>2 DEF MoveBegin
  <2>3. CASE \E a \in Appointments : CancelBegin(r, a)
    BY <1>2, <2>3 DEF CancelBegin
  <2>4. CASE CancelCommit(r)
    BY <2>4 DEF CancelCommit, TypeOK, Idle
  <2> QED
    BY <1>3, <2>1, <2>2, <2>3, <2>4 DEF Visitor
<1>4. ASSUME NEW r \in Requests, Editing(r)
      PROVE  /\ UNCHANGED lock /\ \A q \in Requests \ {r} : req'[q] = req[q]
             /\ req[r].op \notin {"check", "write"} /\ req'[r].op \notin {"check", "write"}
  <2>1. CASE \E a \in Appointments : EditBegin(r, a)
    BY <1>2, <2>1 DEF EditBegin
  <2>2. CASE EditCommit(r)
    BY <2>2 DEF EditCommit, TypeOK, Idle
  <2> QED
    BY <1>4, <2>1, <2>2 DEF Editing
<1>5. ASSUME NEW r \in Requests, Remind(r)
      PROVE  /\ UNCHANGED lock /\ \A q \in Requests \ {r} : req'[q] = req[q]
             /\ req[r].op \notin {"check", "write"} /\ req'[r].op \notin {"check", "write"}
  <2>1. CASE \E a \in Appointments, l \in Leads : RemindBegin(r, a, l)
    BY <1>2, <2>1 DEF RemindBegin
  <2>2. req[r].op \in ReminderOps =>
          /\ [req[r] EXCEPT !.op = "claimed"].op = "claimed"
          /\ [req[r] EXCEPT !.op = "told"].op = "told"
    BY RequestTypes DEF ReminderOps
  <2>3. CASE RemindClaim(r)
    <3>1. req[r].op = "due" /\ UNCHANGED lock
      BY <2>3 DEF RemindClaim
    <3>2. \/ req' = [req EXCEPT ![r] = [req[r] EXCEPT !.op = "claimed"]]
          \/ req' = [req EXCEPT ![r] = Idle]
      BY <2>3 DEF RemindClaim, TypeOK
    <3>3. req'[r] = [req[r] EXCEPT !.op = "claimed"] \/ req'[r] = Idle
      BY <3>2 DEF TypeOK
    <3>4. req'[r].op \notin {"check", "write"}
      <4>1. CASE req'[r] = [req[r] EXCEPT !.op = "claimed"]
        <5>1. [req[r] EXCEPT !.op = "claimed"].op = "claimed"
          BY <2>2, <3>1 DEF ReminderOps
        <5> QED
          BY <4>1, <5>1, Zenon
      <4>2. CASE req'[r] = Idle
        BY <4>2 DEF Idle
      <4> QED
        BY <3>3, <4>1, <4>2
    <3>5. \A q \in Requests \ {r} : req'[q] = req[q]
      BY <3>2 DEF TypeOK
    <3> QED
      BY <3>1, <3>4, <3>5
  <2>4. CASE RemindClient(r)
    BY <2>2, <2>4 DEF RemindClient, ReminderOps, TypeOK
  <2>5. CASE RemindDone(r) \/ RemindFail(r) \/ GiveBackFails(r)
    BY <2>5 DEF RemindDone, RemindFail, GiveBackFails, TypeOK, Idle
  <2> QED
    BY <1>5, <2>1, <2>3, <2>4, <2>5 DEF Remind
<1> QED
  BY <1>1, <1>3, <1>4, <1>5 DEF Next

LEMMA LocksStep == TypeOK /\ Locks /\ [Next]_vars => Locks'
<1> SUFFICES ASSUME TypeOK, Locks, [Next]_vars PROVE Locks'
  OBVIOUS
<1>1. CASE Restart
  BY <1>1 DEF Restart, Locks, DayLockComesBack, HasLock, Idle
<1>2. ASSUME NEW r \in Requests, LockDay(r) PROVE Locks'
  <2>1. req[r].op = "wait" /\ req[r].time.day \in Days /\ lock[req[r].time.day] = Nobody
    BY <1>2, RequestTypes DEF LockDay, Lockable, BookingOps
  <2>2. /\ lock'[req[r].time.day] = r
        /\ \A d \in Days \ {req[r].time.day} : lock'[d] = lock[d]
    BY <1>2, <2>1 DEF LockDay, TypeOK
  <2>3. /\ req'[r].op = "check" /\ req'[r].time = req[r].time
        /\ \A q \in Requests \ {r} : req'[q] = req[q]
    <3>1. req[r] \in Booking
      BY <2>1, RequestTypes DEF BookingOps
    <3> QED
      BY <1>2, <3>1 DEF LockDay, TypeOK, Booking
  <2>4. \A q \in Requests : req[q].op \in {"check", "write"} =>
          req[q].time.day \in Days \ {req[r].time.day}
    BY <2>1, RequestTypes, NullsAssumption DEF BookingOps, Locks, HasLock
  <2>5. HasLock'
    BY <2>1, <2>2, <2>3, <2>4 DEF Locks, HasLock
  <2>6. DayLockComesBack'
    <3> SUFFICES ASSUME NEW d \in Days, lock'[d] # Nobody
                 PROVE  req'[lock'[d]].op \in {"check", "write"} /\ req'[lock'[d]].time.day = d
      BY DEF DayLockComesBack
    <3>1. CASE d = req[r].time.day
      BY <2>2, <2>3, <3>1
    <3>2. CASE d # req[r].time.day
      <4>1. lock'[d] = lock[d] /\ lock[d] \in Requests
        BY <2>2, <3>2 DEF TypeOK
      <4>2. req[lock[d]].op \in {"check", "write"} /\ req[lock[d]].time.day = d
        BY <4>1 DEF Locks, DayLockComesBack
      <4> QED
        BY <2>1, <2>3, <4>1, <4>2
    <3> QED
      BY <3>1, <3>2
  <2> QED
    BY <2>5, <2>6 DEF Locks
<1>3. ASSUME NEW r \in Requests, Check(r) PROVE Locks'
  <2>1. req[r] \in Booking /\ req[r].op = "check"
    BY <1>3, RequestTypes DEF Check, BookingOps
  <2>2. /\ req'[r].op = "write" /\ req'[r].time = req[r].time
        /\ \A q \in Requests \ {r} : req'[q] = req[q]
    BY <1>3, <2>1 DEF Check, TypeOK, Booking
  <2>3. UNCHANGED lock /\ \A d \in Days : lock[d] \in Requests \cup {Nobody}
    BY <1>3 DEF Check, TypeOK
  <2> QED
    BY <2>1, <2>2, <2>3 DEF Locks, DayLockComesBack, HasLock
<1>4. ASSUME NEW r \in Requests,
             GiveUp(r) \/ Move(r) \/ \E a \in Appointments : Book(r, a)
      PROVE  Locks'
  <2>1. /\ req[r].op \in {"check", "write"}
        /\ lock' = Unlocked(r) /\ req' = [req EXCEPT ![r] = Idle]
    BY <1>4 DEF GiveUp, Move, Book
  <2> QED
    BY <2>1, LocksReturned
<1>5. CASE UNCHANGED vars
  BY <1>5, LocksKept DEF vars
<1> QED
  BY <1>1, <1>2, <1>3, <1>4, <1>5, Lockless, LocksKept

\* No booking leaves its day locked, whatever it meets, and a day is locked by one.
THEOREM LockComesBack == Spec => []DayLockComesBack
<1>1. Init => Locks
  BY DEF Init, Locks, DayLockComesBack, HasLock, Idle
<1>2. Locks => DayLockComesBack
  BY DEF Locks
<1> QED
  BY <1>1, <1>2, LocksStep, TypeCorrect, PTL DEF Spec

-----------------------------------------------------------------------------
(***************************************************************************)
(* No slot is booked twice                                                 *)
(***************************************************************************)
\* An appointment that only visitors and the client have placed.
Kept(a) == Exists(a) /\ "office" \notin hist[a]
Visit(a) == Scheduled(a) /\ "office" \notin hist[a]
Placing(r) == req[r].appt = NoAppointment \/ Kept(req[r].appt)

\* It is somebody's, and a request to move it is for that member of staff.
Staffed == \A a \in Appointments : Kept(a) => appt[a].staff \in Staff
Moving ==
  \A r \in Requests : req[r].op \in BookingOps /\ req[r].appt # NoAppointment =>
    /\ appt[req[r].appt].status # "None"
    /\ Kept(req[r].appt) => appt[req[r].appt].staff = req[r].staff
                            /\ req[r].who = {req[r].staff}

\* What a request has found free under the lock is still free when it writes.
Clear(r, b) ==
  Visit(b) /\ appt[b].staff = req[r].staff /\ appt[b].time.day = req[r].time.day
    => Apart(appt[b].time, req[r].time)
Reserved ==
  \A r \in Requests : req[r].op = "write" /\ Placing(r) =>
    /\ req[r].staff \in Staff
    /\ \A b \in Appointments \ {req[r].appt} : Clear(r, b)

Calendar == Staffed /\ Moving /\ Reserved /\ NoDoubleBooking

\* A step that finds nothing free, and one that places no appointment but by
\* the office.
NothingFound ==
  \A r \in Requests :
    \/ req'[r] = req[r]
    \/ req'[r].op \notin BookingOps
    \/ /\ req[r].op \in BookingOps /\ req'[r].op # "write"
       /\ req'[r].appt = req[r].appt /\ req'[r].who = req[r].who
       /\ req'[r].staff = req[r].staff
NothingPlaced ==
  \A a \in Appointments :
    /\ appt[a].status # "None" => appt'[a].status # "None"
    /\ Kept(a)' => /\ Kept(a)
                   /\ appt'[a].staff = appt[a].staff /\ appt'[a].time = appt[a].time
                   /\ Scheduled(a)' => Scheduled(a)

LEMMA ApartSymmetric == \A t, u : Apart(t, u) <=> Apart(u, t)
  BY DEF Apart

LEMMA CalendarKept ==
  ASSUME TypeOK, Calendar, NothingFound, NothingPlaced
  PROVE  Calendar'
<1>1. \A a \in Appointments : Visit(a)' =>
        /\ Visit(a) /\ appt'[a].staff = appt[a].staff /\ appt'[a].time = appt[a].time
  BY DEF NothingPlaced, Visit, Kept, Scheduled, Exists
<1>2. \A r \in Requests : req[r].op \in BookingOps /\ req[r].appt # NoAppointment =>
        req[r].appt \in Appointments
  BY RequestTypes DEF MaybeAppointment
<1>3. Staffed'
  BY DEF Calendar, Staffed, NothingPlaced
<1>4. Moving'
  <2> SUFFICES ASSUME NEW r \in Requests,
                      req'[r].op \in BookingOps, req'[r].appt # NoAppointment
               PROVE  /\ appt'[req'[r].appt].status # "None"
                      /\ Kept(req[r].appt)' =>
                           appt'[req'[r].appt].staff = req'[r].staff
                           /\ req'[r].who = {req'[r].staff}
    BY DEF Moving
  <2>1. /\ req[r].op \in BookingOps /\ req'[r].appt = req[r].appt
        /\ req'[r].who = req[r].who /\ req'[r].staff = req[r].staff
    BY DEF NothingFound
  <2>2. req[r].appt \in Appointments
    BY <1>2, <2>1
  <2> QED
    BY <2>1, <2>2 DEF Calendar, Moving, NothingPlaced, Kept, Exists
<1>5. Reserved'
  <2> SUFFICES ASSUME NEW r \in Requests, req'[r].op = "write", Placing(r)'
               PROVE  /\ req'[r].staff \in Staff
                      /\ \A b \in Appointments \ {req'[r].appt} : Clear(r, b)'
    BY DEF Reserved
  <2>1. req'[r] = req[r]
    BY DEF NothingFound, BookingOps
  <2>2. Placing(r)
    BY <1>2, <2>1 DEF Placing, NothingPlaced, Kept, Exists, BookingOps
  <2>3. /\ req[r].staff \in Staff
        /\ \A b \in Appointments \ {req[r].appt} : Clear(r, b)
    BY <2>1, <2>2 DEF Calendar, Reserved
  <2> QED
    BY <1>1, <2>1, <2>3 DEF Clear
<1>6. NoDoubleBooking'
  BY <1>1 DEF Calendar, NoDoubleBooking, Visit
<1> QED
  BY <1>3, <1>4, <1>5, <1>6 DEF Calendar

\* A request in its own step, the others in theirs.
LEMMA OneFound ==
  ASSUME TypeOK, NEW r \in Requests, NEW new, req' = [req EXCEPT ![r] = new],
         new.op \notin BookingOps
  PROVE  NothingFound
  BY DEF TypeOK, NothingFound

LEMMA SameRows ==
  ASSUME UNCHANGED appt, \A a \in Appointments : hist[a] \subseteq hist'[a]
  PROVE  NothingPlaced
  BY DEF NothingPlaced, Kept, Exists, Scheduled

\* One row changes, and neither its time nor its staff unless by the office.
LEMMA OneRow ==
  ASSUME TypeOK, NEW a \in Appointments, NEW new,
         appt' = [appt EXCEPT ![a] = new], new.status # "None",
         \A b \in Appointments : hist[b] \subseteq hist'[b],
         \/ "office" \in hist'[a]
         \/ new.status = "Deleted"
         \/ /\ Exists(a) /\ new.staff = appt[a].staff /\ new.time = appt[a].time
            /\ new.status = "Scheduled" => Scheduled(a)
  PROVE  NothingPlaced
<1>1. appt'[a] = new /\ \A b \in Appointments \ {a} : appt'[b] = appt[b]
  BY DEF TypeOK
<1> QED
  BY <1>1 DEF NothingPlaced, Kept, Exists, Scheduled

LEMMA WithStatusPlaces ==
  ASSUME TypeOK, NEW a \in Appointments, appt' = WithStatus(a, "Closed"), UNCHANGED hist
  PROVE  NothingPlaced
<1>1. CASE Exists(a)
  <2> DEFINE new == [appt[a] EXCEPT !.status = "Closed"]
  <2>1. /\ new.status = "Closed" /\ new.staff = appt[a].staff
        /\ new.time = appt[a].time
    BY <1>1, RowTypes DEF Row
  <2>2. appt' = [appt EXCEPT ![a] = new]
    BY <1>1 DEF WithStatus, TypeOK
  <2> HIDE DEF new
  <2> QED
    BY <1>1, <2>1, <2>2, OneRow
<1>2. CASE ~Exists(a)
  BY <1>2, SameRows DEF WithStatus
<1> QED
  BY <1>1, <1>2

LEMMA OfficeCalendar ==
  ASSUME TypeOK, Calendar, Office
  PROVE  Calendar'
<1>1. PICK a \in Appointments :
        \/ \E s \in MaybeStaff, t \in OfficeTimes : OfficeBook(a, s, t)
        \/ OfficeCancel(a) \/ Delete(a) \/ Complete(a)
  BY DEF Office
<1>2. CASE \E s \in MaybeStaff, t \in OfficeTimes : OfficeBook(a, s, t)
  <2>1. PICK s \in MaybeStaff, t \in OfficeTimes : OfficeBook(a, s, t)
    BY <1>2
  <2>2. "office" \in hist'[a] /\ \A b \in Appointments : hist[b] \subseteq hist'[b]
    BY <2>1 DEF OfficeBook, TypeOK
  <2> DEFINE new == [status |-> "Scheduled", staff |-> s, time |-> t, sent |-> {}]
  <2>3. new.status = "Scheduled"
    OBVIOUS
  <2>4. appt' = [appt EXCEPT ![a] = new] /\ UNCHANGED req
    BY <2>1 DEF OfficeBook
  <2> HIDE DEF new
  <2>5. NothingPlaced
    BY <2>2, <2>3, <2>4, OneRow
  <2>6. NothingFound
    BY <2>4 DEF NothingFound
  <2> QED
    BY <2>5, <2>6, CalendarKept
<1>3. CASE OfficeCancel(a) \/ Complete(a)
  <2>1. NothingFound /\ NothingPlaced
    BY <1>3, WithStatusPlaces DEF OfficeCancel, Complete, NothingFound
  <2> QED
    BY <2>1, CalendarKept
<1>4. CASE Delete(a)
  <2>1. /\ appt' = [appt EXCEPT ![a] = Gone] /\ UNCHANGED req
        /\ \A b \in Appointments : hist[b] \subseteq hist'[b]
    BY <1>4 DEF Delete
  <2>2. Gone.status = "Deleted"
    BY DEF Gone
  <2>3. NothingPlaced
    BY <2>1, <2>2, OneRow
  <2>4. NothingFound
    BY <2>1 DEF NothingFound
  <2> QED
    BY <2>3, <2>4, CalendarKept
<1> QED
  BY <1>1, <1>2, <1>3, <1>4

LEMMA EditingCalendar ==
  ASSUME TypeOK, Calendar, NEW r \in Requests, Editing(r)
  PROVE  Calendar'
<1>1. CASE \E a \in Appointments : EditBegin(r, a)
  <2>1. NothingFound
    BY <1>1, OneFound DEF EditBegin, Begin, BookingOps
  <2>2. NothingPlaced
    BY <1>1, SameRows DEF EditBegin, Begin
  <2> QED
    BY <2>1, <2>2, CalendarKept
<1>2. CASE EditCommit(r)
  <2>1. req[r].appt \in Appointments
    BY <1>2, RequestTypes DEF EditCommit
  <2>2. NothingFound
    BY <1>2, OneFound DEF EditCommit, Idle, BookingOps
  <2>3. CASE Exists(req[r].appt)
    <3> DEFINE a == req[r].appt
    <3>1. PICK s \in MaybeStaff, t \in OfficeTimes \cup {req[r].time} :
            Edited(a, req[r], s, t)
      BY <1>2, <2>3 DEF EditCommit
    <3> DEFINE cleared == Start(t) # Start(req[r].time)
               new == [appt[a] EXCEPT !.staff = s, !.time = t,
                         !.sent = IF cleared THEN {} ELSE appt[a].sent]
    <3>2. appt' = [appt EXCEPT ![a] = new]
      BY <2>1, <3>1 DEF Edited, TypeOK
    <3>3. new.status = appt[a].status /\ new.staff = s /\ new.time = t
      BY <2>1, <2>3, RowTypes DEF Row
    <3>4. /\ \A b \in Appointments : hist[b] \subseteq hist'[b]
          /\ t # appt[a].time \/ s # appt[a].staff => "office" \in hist'[a]
      BY <2>1, <3>1 DEF Edited, Restarted, TypeOK
    <3> HIDE DEF new
    <3>5. NothingPlaced
      BY <2>1, <2>3, <3>2, <3>3, <3>4, OneRow DEF Exists, Scheduled
    <3> QED
      BY <2>2, <3>5, CalendarKept
  <2>4. CASE ~Exists(req[r].appt)
    BY <1>2, <2>2, <2>4, SameRows, CalendarKept DEF EditCommit
  <2> QED
    BY <2>3, <2>4
<1> QED
  BY <1>1, <1>2 DEF Editing

LEMMA RemindCalendar ==
  ASSUME TypeOK, Calendar, NEW r \in Requests, Remind(r)
  PROVE  Calendar'
<1>1. CASE \E a \in Appointments, l \in Leads : RemindBegin(r, a, l)
  <2>1. NothingFound
    BY <1>1, OneFound DEF RemindBegin, Begin, BookingOps
  <2>2. NothingPlaced
    BY <1>1, SameRows DEF RemindBegin, Begin
  <2> QED
    BY <2>1, <2>2, CalendarKept
<1>2. ASSUME req[r].op \in ReminderOps, NEW op \in ReminderOps,
             req' = [req EXCEPT ![r].op = op]
      PROVE  NothingFound
  <2> DEFINE new == [req[r] EXCEPT !.op = op]
  <2>1. new.op = op
    BY <1>2, RequestTypes
  <2>2. req' = [req EXCEPT ![r] = new]
    BY <1>2 DEF TypeOK
  <2> HIDE DEF new
  <2> QED
    BY <1>2, <2>1, <2>2, OneFound DEF ReminderOps, BookingOps
<1>3. ASSUME NEW a \in Appointments, Exists(a), NEW sent \in SUBSET Leads,
             appt' = [appt EXCEPT ![a].sent = sent],
             \A b \in Appointments : hist[b] \subseteq hist'[b]
      PROVE  NothingPlaced
  <2> DEFINE new == [appt[a] EXCEPT !.sent = sent]
  <2>1. new.status = appt[a].status /\ new.staff = appt[a].staff /\ new.time = appt[a].time
    BY <1>3, RowTypes DEF Row
  <2>2. appt' = [appt EXCEPT ![a] = new]
    BY <1>3 DEF TypeOK
  <2> HIDE DEF new
  <2> QED
    BY <1>3, <2>1, <2>2, OneRow DEF Exists, Scheduled
<1>4. CASE RemindClaim(r)
  <2>1. req[r].op \in ReminderOps /\ req[r].appt \in Appointments /\ req[r].lead \in Leads
    BY <1>4, RequestTypes DEF RemindClaim, ReminderOps
  <2>2. UNCHANGED hist
    BY <1>4 DEF RemindClaim
  <2>3. CASE Claimable(req[r].appt, req[r].lead)
    <3>1. Exists(req[r].appt) /\ appt[req[r].appt].sent \cup {req[r].lead} \in SUBSET Leads
      BY <2>1, <2>3, RowTypes DEF Claimable
    <3>2. /\ req' = [req EXCEPT ![r].op = "claimed"]
          /\ appt' = [appt EXCEPT ![req[r].appt].sent =
                        appt[req[r].appt].sent \cup {req[r].lead}]
      BY <1>4, <2>1, <2>3 DEF RemindClaim, TypeOK
    <3>3. NothingFound
      BY <1>2, <2>1, <3>2 DEF ReminderOps
    <3>4. NothingPlaced
      BY <1>3, <2>1, <2>2, <3>1, <3>2
    <3> QED
      BY <3>3, <3>4, CalendarKept
  <2>4. CASE ~Claimable(req[r].appt, req[r].lead)
    <3>1. req' = [req EXCEPT ![r] = Idle] /\ UNCHANGED appt
      BY <1>4, <2>4 DEF RemindClaim
    <3>2. NothingFound
      BY <3>1, OneFound DEF Idle, BookingOps
    <3> QED
      BY <2>2, <3>1, <3>2, SameRows, CalendarKept
  <2> QED
    BY <2>3, <2>4
<1>5. CASE RemindClient(r)
  <2>1. req[r].op \in ReminderOps /\ req' = [req EXCEPT ![r].op = "told"] /\ UNCHANGED appt
    BY <1>5 DEF RemindClient, ReminderOps
  <2>2. \A b \in Appointments : hist[b] \subseteq hist'[b]
    BY <1>5 DEF RemindClient, TypeOK
  <2>3. NothingFound
    BY <1>2, <2>1 DEF ReminderOps
  <2> QED
    BY <2>1, <2>2, <2>3, SameRows, CalendarKept
<1>6. CASE RemindDone(r)
  <2>1. NothingFound
    BY <1>6, OneFound DEF RemindDone, Idle, BookingOps
  <2> QED
    BY <1>6, <2>1, SameRows, CalendarKept DEF RemindDone
<1>7. CASE RemindFail(r)
  <2>1. req[r].appt \in Appointments /\ req[r].lead \in Leads
    BY <1>7, RequestTypes DEF RemindFail, ReminderOps
  <2>2. \A b \in Appointments : hist[b] \subseteq hist'[b]
    BY <1>7 DEF RemindFail, Missed, TypeOK
  <2>3. NothingFound
    BY <1>7, OneFound DEF RemindFail, Idle, BookingOps
  <2>4. CASE Exists(req[r].appt)
    <3>1. appt[req[r].appt].sent \ {req[r].lead} \in SUBSET Leads
      BY <2>1, <2>4, RowTypes
    <3>2. appt' = [appt EXCEPT ![req[r].appt].sent =
                     appt[req[r].appt].sent \ {req[r].lead}]
      BY <1>7, <2>1, <2>4 DEF RemindFail, TypeOK
    <3>3. NothingPlaced
      BY <1>3, <2>1, <2>2, <2>4, <3>1, <3>2
    <3> QED
      BY <2>3, <3>3, CalendarKept
  <2>5. CASE ~Exists(req[r].appt)
    BY <1>7, <2>2, <2>3, <2>5, SameRows, CalendarKept DEF RemindFail
  <2> QED
    BY <2>4, <2>5
<1>8. CASE GiveBackFails(r)
  <2>1. NothingFound
    BY <1>8, OneFound DEF GiveBackFails, Idle, BookingOps
  <2>2. UNCHANGED appt /\ \A b \in Appointments : hist[b] \subseteq hist'[b]
    BY <1>8 DEF GiveBackFails, Missed, TypeOK
  <2> QED
    BY <2>1, <2>2, SameRows, CalendarKept
<1> QED
  BY <1>1, <1>4, <1>5, <1>6, <1>7, <1>8 DEF Remind

\* A request that starts waits for its lock and has found nothing.
LEMMA BeginCalendar ==
  ASSUME TypeOK, Calendar, NEW r \in Requests, NEW step, Begin(r, step),
         \/ step.op \notin BookingOps
         \/ /\ step.op = "wait"
            /\ step.appt # NoAppointment =>
                 /\ appt[step.appt].status # "None"
                 /\ Kept(step.appt) => appt[step.appt].staff = step.staff
                                       /\ step.who = {step.staff}
  PROVE  Calendar'
<1>1. UNCHANGED <<appt, hist>>
  BY DEF Begin
<1>2. req'[r] = step /\ \A q \in Requests \ {r} : req'[q] = req[q]
  BY DEF Begin, TypeOK
<1>3. Staffed' /\ NoDoubleBooking'
  BY <1>1 DEF Calendar, Staffed, NoDoubleBooking, Kept, Exists, Scheduled
<1>4. Moving'
  BY <1>1, <1>2 DEF Calendar, Moving, Kept, Exists, BookingOps
<1>5. Reserved'
  BY <1>1, <1>2 DEF Calendar, Reserved, Placing, Clear, Visit, Kept, Exists, Scheduled, BookingOps
<1> QED
  BY <1>3, <1>4, <1>5 DEF Calendar

LEMMA CheckCalendar ==
  ASSUME TypeOK, Calendar, NEW r \in Requests, Check(r)
  PROVE  Calendar'
<1>1. req[r].op = "check" /\ req[r] \in Booking /\ req[r].who \in SUBSET Staff
  BY RequestTypes DEF Check, BookingOps
<1>2. PICK s \in FreeStaff(req[r].who, req[r].time, req[r].appt) :
        req' = [req EXCEPT ![r].op = "write",
                  ![r].staff = IF req[r].appt = NoAppointment THEN s ELSE @]
  BY DEF Check
<1>3. /\ s \in req[r].who /\ s \in Staff
      /\ \A b \in Appointments \ {req[r].appt} :
           Scheduled(b) /\ appt[b].staff = s /\ appt[b].time.day = req[r].time.day
             => Apart(appt[b].time, req[r].time)
  BY <1>1, <1>2, ApartSymmetric DEF FreeStaff, FreeAt, BookedOn
<1>4. /\ req'[r].op = "write" /\ req'[r].appt = req[r].appt /\ req'[r].who = req[r].who
      /\ req'[r].time = req[r].time
      /\ req'[r].staff = IF req[r].appt = NoAppointment THEN s ELSE req[r].staff
      /\ \A q \in Requests \ {r} : req'[q] = req[q]
  BY <1>1, <1>2 DEF TypeOK, Booking
<1>5. UNCHANGED <<appt, hist>>
  BY DEF Check
<1>6. Staffed' /\ NoDoubleBooking'
  BY <1>5 DEF Calendar, Staffed, NoDoubleBooking, Kept, Exists, Scheduled
<1>7. Moving'
  BY <1>1, <1>4, <1>5 DEF Calendar, Moving, Kept, Exists, BookingOps
<1>8. Reserved'
  <2> SUFFICES ASSUME NEW q \in Requests, req'[q].op = "write", Placing(q)'
               PROVE  /\ req'[q].staff \in Staff
                      /\ \A b \in Appointments \ {req'[q].appt} : Clear(q, b)'
    BY DEF Reserved
  <2>1. CASE q = r
    <3>1. req'[r].staff = s
      BY <1>1, <1>3, <1>4, <1>5, <2>1
      DEF Placing, Calendar, Moving, Kept, Exists, BookingOps
    <3> QED
      BY <1>3, <1>4, <1>5, <2>1, <3>1 DEF Clear, Visit, Scheduled
  <2>2. CASE q # r
    BY <1>4, <1>5, <2>2
    DEF Calendar, Reserved, Placing, Clear, Visit, Kept, Exists, Scheduled
  <2> QED
    BY <2>1, <2>2
<1> QED
  BY <1>6, <1>7, <1>8 DEF Calendar

\* A request that writes is the only one that may write on its day.
LEMMA OnlyWriter ==
  ASSUME TypeOK, Locks, NEW r \in Requests, NEW q \in Requests \ {r},
         req[r].op = "write", req[q].op = "write"
  PROVE  req[q].time.day # req[r].time.day
  BY DEF Locks, HasLock

\* Placing an appointment where the request found it free.
LEMMA PlaceCalendar ==
  ASSUME TypeOK, Locks, Calendar, NEW r \in Requests, NEW a \in Appointments, NEW new,
         req[r].op = "write", req' = [req EXCEPT ![r] = Idle],
         appt' = [appt EXCEPT ![a] = new], \A b \in Appointments : hist[b] \subseteq hist'[b],
         new.status \in {"Scheduled", "Closed"}, new.time = req[r].time,
         \/ /\ req[r].appt = NoAppointment /\ appt[a].status = "None"
            /\ new.staff = req[r].staff
         \/ /\ req[r].appt = a /\ Exists(a)
            /\ new.status = appt[a].status /\ new.staff = appt[a].staff
  PROVE  Calendar'
<1>1. appt'[a] = new /\ \A b \in Appointments \ {a} : appt'[b] = appt[b]
  BY DEF TypeOK
<1>2. req'[r].op = "idle" /\ \A q \in Requests \ {r} : req'[q] = req[q]
  BY DEF TypeOK, Idle
<1>3. \A b \in Appointments \ {a} : /\ Kept(b)' => Kept(b)
                                    /\ Visit(b)' => Visit(b)
  BY <1>1 DEF Kept, Visit, Exists, Scheduled
<1>4. Kept(a)' => Placing(r)
  BY DEF Kept, Placing
<1>5. Kept(a)' => new.staff = req[r].staff /\ req[r].staff \in Staff
  BY <1>4, NullsAssumption DEF Calendar, Moving, Reserved, Placing, Kept, Exists, BookingOps
<1>6. Staffed'
  BY <1>1, <1>3, <1>5 DEF Calendar, Staffed
<1>7. Moving'
  <2> SUFFICES ASSUME NEW q \in Requests,
                      req'[q].op \in BookingOps, req'[q].appt # NoAppointment
               PROVE  /\ appt'[req'[q].appt].status # "None"
                      /\ Kept(req[q].appt)' =>
                           appt'[req'[q].appt].staff = req'[q].staff
                           /\ req'[q].who = {req'[q].staff}
    BY DEF Moving
  <2>1. q # r /\ req'[q] = req[q] /\ req[q].appt \in Appointments
    BY <1>2, RequestTypes DEF BookingOps, MaybeAppointment
  <2>2. /\ appt[req[q].appt].status # "None"
        /\ Kept(req[q].appt) => appt[req[q].appt].staff = req[q].staff
                                /\ req[q].who = {req[q].staff}
    BY <2>1 DEF Calendar, Moving
  <2>3. CASE req[q].appt = a
    BY <1>1, <2>1, <2>2, <2>3 DEF Kept, Exists
  <2>4. CASE req[q].appt # a
    BY <1>1, <1>3, <2>1, <2>2, <2>4
  <2> QED
    BY <2>3, <2>4
<1>8. Reserved'
  <2> SUFFICES ASSUME NEW q \in Requests, req'[q].op = "write", Placing(q)'
               PROVE  /\ req'[q].staff \in Staff
                      /\ \A b \in Appointments \ {req'[q].appt} : Clear(q, b)'
    BY DEF Reserved
  <2>1. q # r /\ req'[q] = req[q] /\ req[q].time.day # req[r].time.day
    BY <1>2, OnlyWriter
  <2>2. Placing(q)
    <3>1. req[q].appt # NoAppointment =>
            req[q].appt \in Appointments /\ appt[req[q].appt].status # "None"
      BY <2>1, RequestTypes DEF Calendar, Moving, BookingOps, MaybeAppointment
    <3> QED
      BY <1>1, <1>3, <2>1, <3>1 DEF Placing, Kept, Exists
  <2>3. /\ req[q].staff \in Staff
        /\ \A b \in Appointments \ {req[q].appt} : Clear(q, b)
    BY <2>1, <2>2 DEF Calendar, Reserved
  <2>4. ASSUME NEW b \in Appointments \ {req[q].appt} PROVE Clear(q, b)'
    <3>1. CASE b = a
      BY <1>1, <2>1, <3>1 DEF Clear
    <3>2. CASE b # a
      BY <1>1, <1>3, <2>1, <2>3, <2>4, <3>2 DEF Clear
    <3> QED
      BY <3>1, <3>2
  <2> QED
    BY <2>1, <2>3, <2>4
<1>9. NoDoubleBooking'
  <2>1. ASSUME NEW b \in Appointments \ {a}, Visit(a)', Visit(b)',
               new.staff = appt[b].staff, new.time.day = appt[b].time.day
        PROVE  Apart(appt[b].time, new.time)
    <3>1. Kept(a)' /\ Visit(b)
      BY <1>3, <2>1 DEF Visit, Kept, Scheduled, Exists
    <3>2. b # req[r].appt
      BY <2>1, NullsAssumption
    <3>3. Clear(r, b)
      BY <1>4, <3>1, <3>2 DEF Calendar, Reserved
    <3> QED
      BY <1>5, <2>1, <3>1, <3>3 DEF Clear
  <2>2. ASSUME NEW b \in Appointments \ {a}, NEW c \in Appointments \ {a}, b # c,
               Visit(b)', Visit(c)',
               appt[b].staff = appt[c].staff, appt[b].time.day = appt[c].time.day
        PROVE  Apart(appt[b].time, appt[c].time)
    BY <1>3, <2>2 DEF Calendar, NoDoubleBooking, Visit
  <2> SUFFICES ASSUME NEW b \in Appointments, NEW c \in Appointments, b # c,
                      Visit(b)', Visit(c)',
                      appt'[b].staff = appt'[c].staff,
                      appt'[b].time.day = appt'[c].time.day
               PROVE  Apart(appt'[b].time, appt'[c].time)
    BY DEF NoDoubleBooking, Visit
  <2>3. CASE b = a
    <3>1. Apart(appt[c].time, new.time)
      BY <1>1, <2>1, <2>3
    <3> QED
      BY <1>1, <2>3, <3>1, ApartSymmetric
  <2>4. CASE c = a
    BY <1>1, <2>1, <2>4
  <2>5. CASE b # a /\ c # a
    BY <1>1, <2>2, <2>5
  <2> QED
    BY <2>3, <2>4, <2>5
<1> QED
  BY <1>6, <1>7, <1>8, <1>9 DEF Calendar

LEMMA VisitorCalendar ==
  ASSUME TypeOK, Locks, Calendar, NEW r \in Requests, Visitor(r)
  PROVE  Calendar'
<1>1. CASE \E who \in SUBSET Staff, t \in Time : BookBegin(r, who, t)
  BY <1>1, BeginCalendar DEF BookBegin
<1>2. CASE \E a \in Appointments, t \in Time : MoveBegin(r, a, t)
  <2>1. PICK a \in Appointments, t \in Time : MoveBegin(r, a, t)
    BY <1>2
  <2> DEFINE step == [op |-> "wait", appt |-> a,
                      who |-> IF appt[a].staff = NoStaff THEN Staff ELSE {appt[a].staff},
                      staff |-> appt[a].staff, time |-> t]
  <2>2. Begin(r, step) /\ appt[a].status = "Scheduled"
    BY <2>1 DEF MoveBegin, Scheduled
  <2>3. Kept(a) => step.who = {step.staff}
    BY NullsAssumption DEF Calendar, Staffed
  <2>4. step.op = "wait" /\ step.appt = a /\ step.staff = appt[a].staff
    OBVIOUS
  <2> HIDE DEF step
  <2> QED
    BY <2>2, <2>3, <2>4, BeginCalendar
<1>3. CASE LockDay(r)
  <2>1. req[r].op = "wait" /\ req[r] \in Booking
    BY <1>3, RequestTypes DEF LockDay, BookingOps
  <2>2. NothingFound
    <3>1. req' = [req EXCEPT ![r].op = "check"]
      BY <1>3 DEF LockDay
    <3>2. /\ req'[r].op = "check" /\ req'[r].appt = req[r].appt
          /\ req'[r].who = req[r].who /\ req'[r].staff = req[r].staff
          /\ \A q \in Requests \ {r} : req'[q] = req[q]
      BY <2>1, <3>1 DEF TypeOK, Booking
    <3> QED
      BY <2>1, <3>2 DEF NothingFound, BookingOps
  <2> QED
    BY <1>3, <2>2, SameRows, CalendarKept DEF LockDay
<1>4. CASE Check(r)
  BY <1>4, CheckCalendar
<1>5. CASE GiveUp(r)
  <2>1. NothingFound
    BY <1>5, OneFound DEF GiveUp, Idle, BookingOps
  <2> QED
    BY <1>5, <2>1, SameRows, CalendarKept DEF GiveUp
<1>6. CASE Move(r)
  <2>1. /\ req[r].op = "write" /\ req[r].appt \in Appointments
        /\ req' = [req EXCEPT ![r] = Idle]
    BY <1>6, RequestTypes DEF Move, BookingOps, MaybeAppointment
  <2>2. CASE Exists(req[r].appt)
    <3> DEFINE a == req[r].appt
               new == [appt[a] EXCEPT !.time = req[r].time, !.sent = {}]
    <3>1. /\ new.status = appt[a].status /\ new.staff = appt[a].staff
          /\ new.time = req[r].time /\ appt[a].status \in {"Scheduled", "Closed"}
      BY <2>1, <2>2, RowTypes DEF Row
    <3>2. appt' = [appt EXCEPT ![a] = new]
      BY <1>6, <2>2 DEF Move, TypeOK
    <3>3. \A b \in Appointments : hist[b] \subseteq hist'[b]
      BY <1>6, MovedTypes
    <3> HIDE DEF new
    <3> QED
      BY <2>1, <2>2, <3>1, <3>2, <3>3, PlaceCalendar
  <2>3. CASE ~Exists(req[r].appt)
    <3>1. NothingFound
      BY <2>1, OneFound DEF Idle, BookingOps
    <3> QED
      BY <1>6, <2>3, <3>1, SameRows, CalendarKept DEF Move
  <2> QED
    BY <2>2, <2>3
<1>7. CASE \E a \in Appointments : Book(r, a)
  <2>1. PICK a \in Appointments : Book(r, a)
    BY <1>7
  <2> DEFINE new == [status |-> "Scheduled", staff |-> req[r].staff,
                     time |-> req[r].time, sent |-> {}]
  <2>2. new.status = "Scheduled" /\ new.staff = req[r].staff /\ new.time = req[r].time
    OBVIOUS
  <2>3. /\ req[r].op = "write" /\ req[r].appt = NoAppointment
        /\ req' = [req EXCEPT ![r] = Idle] /\ appt' = [appt EXCEPT ![a] = new]
        /\ appt[a].status = "None" /\ UNCHANGED hist
    BY <2>1 DEF Book, NoRow
  <2> HIDE DEF new
  <2> QED
    BY <2>2, <2>3, PlaceCalendar
<1>8. CASE \E a \in Appointments : CancelBegin(r, a)
  BY <1>8, BeginCalendar DEF CancelBegin, BookingOps
<1>9. CASE CancelCommit(r)
  <2>1. req[r].appt \in Appointments
    BY <1>9, RequestTypes DEF CancelCommit
  <2>2. NothingFound
    BY <1>9, OneFound DEF CancelCommit, Idle, BookingOps
  <2>3. NothingPlaced
    BY <1>9, <2>1, WithStatusPlaces DEF CancelCommit
  <2> QED
    BY <2>2, <2>3, CalendarKept
<1> QED
  BY <1>1, <1>2, <1>3, <1>4, <1>5, <1>6, <1>7, <1>8, <1>9 DEF Visitor

LEMMA CalendarStep == TypeOK /\ Locks /\ Calendar /\ [Next]_vars => Calendar'
<1> SUFFICES ASSUME TypeOK, Locks, Calendar, [Next]_vars PROVE Calendar'
  OBVIOUS
<1>1. CASE Restart
  <2>1. NothingFound
    BY <1>1 DEF Restart, NothingFound, Idle, BookingOps
  <2>2. UNCHANGED appt /\ \A a \in Appointments : hist[a] \subseteq hist'[a]
    BY <1>1 DEF Restart, Missed, TypeOK
  <2> QED
    BY <2>1, <2>2, SameRows, CalendarKept
<1>2. CASE UNCHANGED vars
  <2>1. NothingFound /\ NothingPlaced
    BY <1>2, SameRows DEF vars, NothingFound
  <2> QED
    BY <2>1, CalendarKept
<1> QED
  BY <1>1, <1>2, OfficeCalendar, VisitorCalendar, EditingCalendar, RemindCalendar DEF Next

\* However bookings and reschedules interleave, fail and restart, visitors never
\* give a member of staff two appointments closer than the gap.
THEOREM SlotsStayApart == Spec => []NoDoubleBooking
<1>1. Init => Locks /\ Calendar
  BY DEF Init, Locks, DayLockComesBack, HasLock, Idle, Calendar, Staffed, Moving, Reserved,
         NoDoubleBooking, Kept, Exists, Scheduled, NoRow, BookingOps
<1>2. Calendar => NoDoubleBooking
  BY DEF Calendar
<1> QED
  BY <1>1, <1>2, LocksStep, CalendarStep, TypeCorrect, PTL DEF Spec

-----------------------------------------------------------------------------
(***************************************************************************)
(* A reminder goes out once                                                *)
(***************************************************************************)
\* The history of the reminders of an appointment is known.
Known(a) == "missed" \notin hist[a]
Claiming(r, a, l) == req[r] = [op |-> "claimed", appt |-> a, lead |-> l]

Untold == \A a \in Appointments : appt[a].status = "None" => told[a] = {}
Asked == \A r \in Requests : req[r].op \in ReminderOps => appt[req[r].appt].status # "None"

\* A claim is marked in the row and not sent, and it is the only one.
Claims ==
  /\ \A r \in Requests : req[r].op = "claimed" /\ Known(req[r].appt) =>
       /\ req[r].lead \notin told[req[r].appt]
       /\ Exists(req[r].appt) => req[r].lead \in appt[req[r].appt].sent
  /\ \A r, q \in Requests :
       /\ req[r].op = "claimed" /\ req[q].op = "claimed"
       /\ req[r].appt = req[q].appt /\ req[r].lead = req[q].lead /\ Known(req[r].appt)
       => r = q

Reminders == RemindedOnce /\ Untold /\ Asked /\ Claims

LEMMA ClaimingTypes ==
  ASSUME TypeOK, NEW r \in Requests
  PROVE  /\ req[r].op = "claimed" => /\ req[r].appt \in Appointments /\ req[r].lead \in Leads
                                     /\ Claiming(r, req[r].appt, req[r].lead)
         /\ \A a \in Appointments, l \in Leads : Claiming(r, a, l) =>
              req[r].op = "claimed" /\ req[r].appt = a /\ req[r].lead = l
  BY RequestTypes DEF Claiming, ReminderOps

\* What a step may do to an appointment that claims and sends nothing.
SameReminders(a) ==
  /\ Known(a) /\ told'[a] = told[a] /\ ("twice" \in hist'[a] => "twice" \in hist[a])
  /\ Exists(a)' => Exists(a) /\ appt'[a].sent = appt[a].sent
NoReminders(a) ==
  /\ told'[a] = {} /\ "twice" \notin hist'[a]
  /\ Exists(a)' => appt'[a].sent = {}
  /\ \A r \in Requests : req[r].op = "claimed" => req[r].appt # a
ClaimsStay ==
  \A r \in Requests : /\ req'[r].op = "claimed" => req'[r] = req[r]
                      /\ req[r].op = "claimed" /\ "missed" \notin hist'[req[r].appt] =>
                           req'[r] = req[r]

LEMMA RemindersKept ==
  ASSUME TypeOK, TypeOK', Reminders, Untold', Asked', ClaimsStay,
         \A a \in Appointments : Known(a)' => SameReminders(a) \/ NoReminders(a)
  PROVE  Reminders'
<1>1. RemindedOnce'
  <2> SUFFICES ASSUME NEW a \in Appointments, Known(a)'
               PROVE  /\ "twice" \notin hist'[a]
                      /\ Exists(a)' => \A l \in Leads :
                           IF l \in appt'[a].sent
                           THEN l \in told'[a] \/ \E r \in Requests : Claiming(r, a, l)'
                           ELSE l \notin told'[a]
    BY DEF RemindedOnce, Known, Claiming
  <2>1. CASE NoReminders(a)
    BY <2>1 DEF NoReminders
  <2>2. CASE SameReminders(a)
    <3>1. /\ "twice" \notin hist[a]
          /\ Exists(a) => \A l \in Leads :
               IF l \in appt[a].sent
               THEN l \in told[a] \/ \E r \in Requests : Claiming(r, a, l)
               ELSE l \notin told[a]
      BY <2>2 DEF Reminders, RemindedOnce, SameReminders, Known, Claiming
    <3>2. ASSUME NEW l \in Leads, NEW r \in Requests, Claiming(r, a, l)
          PROVE  Claiming(r, a, l)'
      <4>1. req[r].op = "claimed" /\ req[r].appt = a
        BY <3>2, ClaimingTypes
      <4>2. req'[r] = req[r]
        BY <4>1 DEF ClaimsStay, Known
      <4> QED
        BY <3>2, <4>2 DEF Claiming
    <3> QED
      BY <2>2, <3>1, <3>2 DEF SameReminders
  <2> QED
    BY <2>1, <2>2
<1>2. Claims'
  <2>1. ASSUME NEW r \in Requests, req'[r].op = "claimed", "missed" \notin hist'[req'[r].appt]
        PROVE  /\ req'[r] = req[r] /\ req[r].op = "claimed"
               /\ SameReminders(req[r].appt)
    <3>1. req'[r] = req[r] /\ req[r].op = "claimed" /\ req[r].appt \in Appointments
      BY <2>1, ClaimingTypes DEF ClaimsStay
    <3> QED
      BY <2>1, <3>1 DEF NoReminders, Known
  <2>2. ASSUME NEW r \in Requests, req'[r].op = "claimed", "missed" \notin hist'[req'[r].appt]
        PROVE  /\ req'[r].lead \notin told'[req'[r].appt]
               /\ Exists(req[r].appt)' => req'[r].lead \in appt'[req'[r].appt].sent
    <3>1. req'[r] = req[r] /\ req[r].op = "claimed" /\ SameReminders(req[r].appt)
      BY <2>1, <2>2
    <3> QED
      BY <2>2, <3>1 DEF Reminders, Claims, SameReminders, Exists
  <2>3. ASSUME NEW r \in Requests, NEW q \in Requests,
               req'[r].op = "claimed", req'[q].op = "claimed",
               req'[r].appt = req'[q].appt, req'[r].lead = req'[q].lead,
               "missed" \notin hist'[req'[r].appt]
        PROVE  r = q
    <3>1. /\ req'[r] = req[r] /\ req[r].op = "claimed" /\ SameReminders(req[r].appt)
          /\ req'[q] = req[q]
      BY <2>1, <2>3 DEF ClaimsStay
    <3> QED
      BY <2>3, <3>1 DEF Reminders, Claims, SameReminders
  <2> QED
    BY <2>2, <2>3 DEF Claims, Known, Exists
<1> QED
  BY <1>1, <1>2 DEF Reminders

\* No request asks for an appointment that is not there, and no row goes.
Asking ==
  \A r \in Requests : req'[r].op \in ReminderOps =>
    \/ req[r].op \in ReminderOps /\ req'[r].appt = req[r].appt
    \/ req'[r].appt \in Appointments /\ appt[req'[r].appt].status # "None"
RowsStay ==
  \A a \in Appointments : appt'[a].status = "None" =>
    appt[a].status = "None" /\ told'[a] \subseteq told[a]

LEMMA StillAsked ==
  ASSUME TypeOK, Untold, Asked, Asking, RowsStay
  PROVE  Untold' /\ Asked'
<1>1. Untold'
  BY DEF Untold, RowsStay
<1>2. \A r \in Requests : req[r].op \in ReminderOps => req[r].appt \in Appointments
  BY RequestTypes
<1>3. Asked'
  BY <1>2 DEF Asked, Asking, RowsStay
<1> QED
  BY <1>1, <1>3

LEMMA QuietRequest ==
  ASSUME TypeOK, NEW r \in Requests, NEW new, req' = [req EXCEPT ![r] = new],
         req[r].op \notin ReminderOps, new.op \notin ReminderOps
  PROVE  ClaimsStay /\ Asking
<1>1. req'[r] = new /\ \A q \in Requests \ {r} : req'[q] = req[q]
  BY DEF TypeOK
<1> QED
  BY <1>1 DEF ClaimsStay, Asking, ReminderOps

\* Nothing is sent or marked: rows are new, or keep their marks.
LEMMA QuietRows ==
  ASSUME TypeOK, Reminders, UNCHANGED told,
         \A b \in Appointments : /\ "missed" \in hist[b] => "missed" \in hist'[b]
                                 /\ "twice" \in hist'[b] => "twice" \in hist[b],
         \A b \in Appointments :
           /\ appt[b].status # "None" => appt'[b].status # "None"
           /\ Exists(b)' => \/ Exists(b) /\ appt'[b].sent = appt[b].sent
                            \/ appt[b].status = "None" /\ appt'[b].sent = {}
  PROVE  /\ RowsStay
         /\ \A a \in Appointments : Known(a)' => SameReminders(a) \/ NoReminders(a)
<1>1. RowsStay
  BY DEF RowsStay
<1>2. ASSUME NEW a \in Appointments, Known(a)', appt[a].status = "None"
      PROVE  SameReminders(a) \/ NoReminders(a)
  <2>1. told[a] = {} /\ \A r \in Requests : req[r].op = "claimed" => req[r].appt # a
    BY <1>2 DEF Reminders, Untold, Asked, ReminderOps
  <2>2. Known(a) /\ "twice" \notin hist[a]
    BY <1>2 DEF Known, Reminders, RemindedOnce
  <2>3. Exists(a)' => appt'[a].sent = {}
    BY <1>2 DEF Exists
  <2> QED
    BY <2>1, <2>2, <2>3 DEF NoReminders
<1>3. ASSUME NEW a \in Appointments, Known(a)', appt[a].status # "None"
      PROVE  SameReminders(a) \/ NoReminders(a)
  BY <1>3 DEF SameReminders, Known
<1> QED
  BY <1>1, <1>2, <1>3

LEMMA Quiet ==
  ASSUME TypeOK, TypeOK', Reminders, ClaimsStay, Asking, RowsStay,
         \A a \in Appointments : Known(a)' => SameReminders(a) \/ NoReminders(a)
  PROVE  Reminders'
  BY StillAsked, RemindersKept DEF Reminders

\* A start is written: it is another one and the reminders are cleared with
\* none in flight, or it is the same and they are kept, or the history is no
\* longer known.
LEMMA Rescheduled ==
  ASSUME TypeOK, Reminders, NEW a \in Appointments, Exists(a), NEW new, NEW t,
         NEW cleared \in BOOLEAN, NEW also \in SUBSET {"office"},
         appt' = [appt EXCEPT ![a] = new], new.status = appt[a].status,
         new.sent = IF cleared THEN {} ELSE appt[a].sent,
         Restarted(a, t, cleared, also)
  PROVE  /\ RowsStay
         /\ \A b \in Appointments : Known(b)' => SameReminders(b) \/ NoReminders(b)
<1> DEFINE moved == Start(t) # Start(appt[a].time)
<1>1. /\ appt'[a] = new
      /\ \A b \in Appointments \ {a} :
           appt'[b] = appt[b] /\ told'[b] = told[b] /\ hist'[b] = hist[b]
  BY DEF Restarted, TypeOK
<1>2. RowsStay
  BY <1>1 DEF RowsStay, Exists
<1>3. CASE moved \/ cleared
  <2>1. /\ told'[a] = {}
        /\ hist'[a] = hist[a] \cup also \cup
                       IF moved # cleared \/ Reminding(a) THEN {"missed"} ELSE {}
    BY <1>3 DEF Restarted, TypeOK
  <2> SUFFICES ASSUME Known(a)' PROVE NoReminders(a)
    BY <1>1, <1>2 DEF Known, SameReminders, Exists
  <2>2. Known(a) /\ ~Reminding(a) /\ cleared
    BY <1>3, <2>1 DEF Known
  <2>3. "twice" \notin hist'[a]
    BY <2>1, <2>2 DEF Known, Reminders, RemindedOnce
  <2>4. \A r \in Requests : req[r].op = "claimed" => req[r].appt # a
    BY <2>2 DEF Reminding
  <2> QED
    BY <1>1, <2>1, <2>2, <2>3, <2>4 DEF NoReminders
<1>4. CASE ~moved /\ ~cleared
  <2>1. told' = told /\ hist'[a] = hist[a] \cup also
    BY <1>4 DEF Restarted, TypeOK
  <2> QED
    BY <1>1, <1>2, <1>4, <2>1 DEF Known, SameReminders, Exists
<1> QED
  BY <1>3, <1>4

LEMMA StatusRows ==
  ASSUME TypeOK, NEW a \in Appointments, appt' = WithStatus(a, "Closed")
  PROVE  \A b \in Appointments :
           /\ appt[b].status # "None" => appt'[b].status # "None"
           /\ Exists(b)' => Exists(b) /\ appt'[b].sent = appt[b].sent
<1>1. CASE Exists(a)
  <2> DEFINE new == [appt[a] EXCEPT !.status = "Closed"]
  <2>1. new.status = "Closed" /\ new.sent = appt[a].sent
    BY <1>1, RowTypes DEF Row
  <2>2. appt'[a] = new /\ \A b \in Appointments \ {a} : appt'[b] = appt[b]
    BY <1>1 DEF WithStatus, TypeOK
  <2> HIDE DEF new
  <2> QED
    BY <1>1, <2>1, <2>2 DEF Exists
<1>2. CASE ~Exists(a)
  BY <1>2 DEF WithStatus, Exists
<1> QED
  BY <1>1, <1>2

LEMMA OfficeReminders ==
  ASSUME TypeOK, TypeOK', Reminders, Office
  PROVE  Reminders'
<1>1. PICK a \in Appointments :
        \/ \E s \in MaybeStaff, t \in OfficeTimes : OfficeBook(a, s, t)
        \/ OfficeCancel(a) \/ Delete(a) \/ Complete(a)
  BY DEF Office
<1>2. ClaimsStay /\ Asking /\ UNCHANGED told
  BY <1>1 DEF OfficeBook, OfficeCancel, Delete, Complete, ClaimsStay, Asking
<1>3. \A b \in Appointments : /\ "missed" \in hist[b] => "missed" \in hist'[b]
                              /\ "twice" \in hist'[b] => "twice" \in hist[b]
  BY <1>1 DEF OfficeBook, OfficeCancel, Delete, Complete, TypeOK
<1>4. \A b \in Appointments :
        /\ appt[b].status # "None" => appt'[b].status # "None"
        /\ Exists(b)' => \/ Exists(b) /\ appt'[b].sent = appt[b].sent
                         \/ appt[b].status = "None" /\ appt'[b].sent = {}
  <2>1. CASE \E s \in MaybeStaff, t \in OfficeTimes : OfficeBook(a, s, t)
    <3>1. PICK s \in MaybeStaff, t \in OfficeTimes : OfficeBook(a, s, t)
      BY <2>1
    <3>2. /\ appt[a].status = "None"
          /\ appt'[a] = [status |-> "Scheduled", staff |-> s, time |-> t, sent |-> {}]
          /\ \A b \in Appointments \ {a} : appt'[b] = appt[b]
      BY <3>1 DEF OfficeBook, NoRow, TypeOK
    <3> QED
      BY <3>2 DEF Exists
  <2>2. CASE OfficeCancel(a) \/ Complete(a)
    BY <2>2, StatusRows DEF OfficeCancel, Complete
  <2>3. CASE Delete(a)
    <3>1. appt'[a] = Gone /\ \A b \in Appointments \ {a} : appt'[b] = appt[b]
      BY <2>3 DEF Delete, TypeOK
    <3> QED
      BY <3>1 DEF Exists, Gone
  <2> QED
    BY <1>1, <2>1, <2>2, <2>3
<1> QED
  BY <1>2, <1>3, <1>4, QuietRows, Quiet

LEMMA UnchangedRows ==
  ASSUME TypeOK, Reminders, UNCHANGED <<appt, told, hist>>
  PROVE  /\ RowsStay
         /\ \A a \in Appointments : Known(a)' => SameReminders(a) \/ NoReminders(a)
  BY DEF RowsStay, Known, SameReminders, Exists

LEMMA BeginReminders ==
  ASSUME TypeOK, TypeOK', Reminders, NEW r \in Requests, NEW step, Begin(r, step),
         \/ step.op \notin ReminderOps
         \/ /\ step.op = "due"
            /\ step.appt \in Appointments /\ appt[step.appt].status # "None"
  PROVE  Reminders'
<1>1. /\ req[r].op = "idle" /\ req'[r] = step
      /\ \A q \in Requests \ {r} : req'[q] = req[q]
  BY DEF Begin, TypeOK, Idle
<1>2. ClaimsStay
  BY <1>1 DEF ClaimsStay, ReminderOps
<1>3. Asking
  BY <1>1 DEF Asking
<1>4. UNCHANGED <<appt, told, hist>>
  BY DEF Begin
<1> QED
  BY <1>2, <1>3, <1>4, UnchangedRows, Quiet

LEMMA VisitorReminders ==
  ASSUME TypeOK, TypeOK', Reminders, NEW r \in Requests, Visitor(r)
  PROVE  Reminders'
<1>1. CASE \E who \in SUBSET Staff, t \in Time : BookBegin(r, who, t)
  BY <1>1, BeginReminders DEF BookBegin, ReminderOps
<1>2. CASE \E a \in Appointments, t \in Time : MoveBegin(r, a, t)
  BY <1>2, BeginReminders DEF MoveBegin, ReminderOps
<1>3. CASE \E a \in Appointments : CancelBegin(r, a)
  BY <1>3, BeginReminders DEF CancelBegin, ReminderOps
<1>4. CASE LockDay(r) \/ Check(r)
  <2>1. req[r].op \in {"wait", "check"} /\ UNCHANGED <<appt, told, hist>>
    BY <1>4 DEF LockDay, Check
  <2>2. req[r] \in Booking
    BY <2>1, RequestTypes DEF BookingOps
  <2>3. PICK new : req' = [req EXCEPT ![r] = new] /\ new.op \in {"check", "write"}
    <3>1. CASE LockDay(r)
      <4> DEFINE new == [req[r] EXCEPT !.op = "check"]
      <4>1. new.op = "check"
        BY <2>2 DEF Booking
      <4>2. req' = [req EXCEPT ![r] = new]
        BY <3>1 DEF LockDay, TypeOK
      <4> QED
        BY <4>1, <4>2
    <3>2. CASE Check(r)
      <4>1. PICK s : req' = [req EXCEPT ![r].op = "write", ![r].staff = s]
        BY <3>2 DEF Check
      <4> DEFINE new == [req[r] EXCEPT !.op = "write", !.staff = s]
      <4>2. new.op = "write"
        BY <2>2 DEF Booking
      <4>3. req' = [req EXCEPT ![r] = new]
        BY <4>1 DEF TypeOK
      <4> QED
        BY <4>2, <4>3
    <3> QED
      BY <1>4, <3>1, <3>2
  <2>4. ClaimsStay /\ Asking
    BY <2>1, <2>3, QuietRequest DEF ReminderOps
  <2> QED
    BY <2>1, <2>4, UnchangedRows, Quiet
<1>5. ASSUME req[r].op \notin ReminderOps, req' = [req EXCEPT ![r] = Idle]
      PROVE  ClaimsStay /\ Asking
  BY <1>5, QuietRequest DEF ReminderOps, Idle
<1>6. CASE GiveUp(r)
  <2>1. ClaimsStay /\ Asking
    BY <1>5, <1>6 DEF GiveUp, ReminderOps
  <2> QED
    BY <1>6, <2>1, UnchangedRows, Quiet DEF GiveUp
<1>7. CASE Move(r)
  <2>1. req[r].appt \in Appointments
    BY <1>7, RequestTypes DEF Move, BookingOps, MaybeAppointment
  <2>2. ClaimsStay /\ Asking
    BY <1>5, <1>7 DEF Move, ReminderOps
  <2>3. CASE Exists(req[r].appt)
    <3> DEFINE a == req[r].appt
               new == [appt[a] EXCEPT !.time = req[r].time, !.sent = {}]
    <3>1. new.status = appt[a].status /\ new.sent = {}
      BY <2>1, <2>3, RowTypes DEF Row
    <3>2. appt' = [appt EXCEPT ![a] = new]
      BY <1>7, <2>3 DEF Move, TypeOK
    <3>3. Restarted(a, req[r].time, TRUE, {})
      BY <1>7, <2>3 DEF Move
    <3> HIDE DEF new
    <3> QED
      BY <2>1, <2>2, <2>3, <3>1, <3>2, <3>3, Rescheduled, Quiet
  <2>4. CASE ~Exists(req[r].appt)
    BY <1>7, <2>2, <2>4, UnchangedRows, Quiet DEF Move
  <2> QED
    BY <2>3, <2>4
<1>8. CASE \E a \in Appointments : Book(r, a)
  <2>1. PICK a \in Appointments : Book(r, a)
    BY <1>8
  <2>2. ClaimsStay /\ Asking
    BY <1>5, <2>1 DEF Book, ReminderOps
  <2>3. /\ appt[a].status = "None" /\ UNCHANGED <<told, hist>>
        /\ appt'[a] = [status |-> "Scheduled", staff |-> req[r].staff,
                       time |-> req[r].time, sent |-> {}]
        /\ \A b \in Appointments \ {a} : appt'[b] = appt[b]
    BY <2>1 DEF Book, NoRow, TypeOK
  <2>4. /\ appt'[a].status = "Scheduled" /\ appt'[a].sent = {}
    BY <2>3
  <2>5. \A b \in Appointments :
          /\ appt[b].status # "None" => appt'[b].status # "None"
          /\ Exists(b)' => \/ Exists(b) /\ appt'[b].sent = appt[b].sent
                           \/ appt[b].status = "None" /\ appt'[b].sent = {}
    BY <2>3, <2>4 DEF Exists
  <2> QED
    BY <2>2, <2>3, <2>5, QuietRows, Quiet
<1>9. CASE CancelCommit(r)
  <2>1. req[r].appt \in Appointments
    BY <1>9, RequestTypes DEF CancelCommit
  <2>2. ClaimsStay /\ Asking /\ UNCHANGED <<told, hist>>
    BY <1>5, <1>9 DEF CancelCommit, ReminderOps
  <2>3. appt' = WithStatus(req[r].appt, "Closed")
    BY <1>9 DEF CancelCommit
  <2> QED
    BY <2>1, <2>2, <2>3, StatusRows, QuietRows, Quiet
<1> QED
  BY <1>1, <1>2, <1>3, <1>4, <1>6, <1>7, <1>8, <1>9 DEF Visitor

LEMMA EditingReminders ==
  ASSUME TypeOK, TypeOK', Reminders, NEW r \in Requests, Editing(r)
  PROVE  Reminders'
<1>1. CASE \E a \in Appointments : EditBegin(r, a)
  BY <1>1, BeginReminders DEF EditBegin, ReminderOps
<1>2. CASE EditCommit(r)
  <2>1. req[r].appt \in Appointments
    BY <1>2, RequestTypes DEF EditCommit
  <2>2. ClaimsStay /\ Asking
    BY <1>2, QuietRequest DEF EditCommit, ReminderOps, Idle
  <2>3. CASE Exists(req[r].appt)
    <3> DEFINE a == req[r].appt
    <3>1. PICK s \in MaybeStaff, t \in OfficeTimes \cup {req[r].time} :
            Edited(a, req[r], s, t)
      BY <1>2, <2>3 DEF EditCommit
    <3> DEFINE cleared == Start(t) # Start(req[r].time)
               events == IF t # appt[a].time \/ s # appt[a].staff THEN {"office"} ELSE {}
               new == [appt[a] EXCEPT !.staff = s, !.time = t,
                         !.sent = IF cleared THEN {} ELSE appt[a].sent]
    <3>2. appt' = [appt EXCEPT ![a] = new]
      BY <2>1, <3>1 DEF Edited, TypeOK
    <3>3. /\ new.status = appt[a].status
          /\ new.sent = IF cleared THEN {} ELSE appt[a].sent
      BY <2>1, <2>3, RowTypes DEF Row
    <3>4. Restarted(a, t, cleared, events)
      BY <3>1 DEF Edited
    <3>5. events \in SUBSET {"office"} /\ cleared \in BOOLEAN
      OBVIOUS
    <3> HIDE DEF new, events, cleared
    <3> QED
      BY <2>1, <2>2, <2>3, <3>2, <3>3, <3>4, <3>5, Rescheduled, Quiet
  <2>4. CASE ~Exists(req[r].appt)
    BY <1>2, <2>2, <2>4, UnchangedRows, Quiet DEF EditCommit
  <2> QED
    BY <2>3, <2>4
<1> QED
  BY <1>1, <1>2 DEF Editing

\* The row of one reminder and its request, as a sweep leaves them.
LEMMA OneRequest ==
  ASSUME TypeOK, NEW r \in Requests, req[r].op \in ReminderOps, NEW op \in ReminderOps,
         req' = [req EXCEPT ![r].op = op]
  PROVE  /\ req'[r] = [op |-> op, appt |-> req[r].appt, lead |-> req[r].lead]
         /\ req'[r].op = op /\ req'[r].appt = req[r].appt /\ req'[r].lead = req[r].lead
         /\ \A q \in Requests \ {r} : req'[q] = req[q]
<1>1. req[r] \in [op: ReminderOps, appt: Appointments, lead: Leads]
  BY RequestTypes
<1>2. req'[r] = [req[r] EXCEPT !.op = op] /\ \A q \in Requests \ {r} : req'[q] = req[q]
  BY DEF TypeOK
<1>3. [req[r] EXCEPT !.op = op] = [op |-> op, appt |-> req[r].appt, lead |-> req[r].lead]
  BY <1>1
<1> QED
  BY <1>2, <1>3

LEMMA Marked ==
  ASSUME TypeOK, NEW a \in Appointments, Exists(a), NEW sent,
         appt' = [appt EXCEPT ![a].sent = sent]
  PROVE  /\ appt'[a].sent = sent /\ appt'[a].status = appt[a].status
         /\ \A b \in Appointments \ {a} : appt'[b] = appt[b]
<1>1. [appt[a] EXCEPT !.sent = sent].sent = sent
      /\ [appt[a] EXCEPT !.sent = sent].status = appt[a].status
  BY RowTypes DEF Row
<1>2. appt'[a] = [appt[a] EXCEPT !.sent = sent]
      /\ \A b \in Appointments \ {a} : appt'[b] = appt[b]
  BY DEF TypeOK
<1> QED
  BY <1>1, <1>2

LEMMA ClaimReminders ==
  ASSUME TypeOK, TypeOK', Reminders, NEW r \in Requests, RemindClaim(r)
  PROVE  Reminders'
<1>0. PICK a \in Appointments, l \in Leads : a = req[r].appt /\ l = req[r].lead
  BY RequestTypes DEF RemindClaim, ReminderOps
<1>1. /\ req[r].op = "due" /\ req[r].appt = a /\ req[r].lead = l
      /\ appt[a].status # "None" /\ UNCHANGED <<told, hist>>
  BY <1>0 DEF RemindClaim, ReminderOps, Reminders, Asked
<1>2. CASE Claimable(a, l)
  <2>1. Exists(a) /\ l \notin appt[a].sent
    BY <1>2 DEF Claimable
  <2>2. /\ req' = [req EXCEPT ![r].op = "claimed"]
        /\ appt' = [appt EXCEPT ![a].sent = appt[a].sent \cup {l}]
    BY <1>1, <1>2 DEF RemindClaim, TypeOK
  <2>3. /\ req'[r] = [op |-> "claimed", appt |-> a, lead |-> l]
        /\ req'[r].op = "claimed" /\ req'[r].appt = a /\ req'[r].lead = l
        /\ \A q \in Requests \ {r} : req'[q] = req[q]
    BY <1>1, <2>2, OneRequest DEF ReminderOps
  <2>4. /\ appt'[a].sent = appt[a].sent \cup {l} /\ appt'[a].status = appt[a].status
        /\ \A b \in Appointments \ {a} : appt'[b] = appt[b]
    BY <1>1, <2>1, <2>2, Marked
  <2>5. Untold' /\ Asked'
    <3>1. Asking /\ RowsStay
      BY <1>1, <2>3, <2>4 DEF Asking, RowsStay, ReminderOps
    <3> QED
      BY <3>1, StillAsked DEF Reminders
  <2>6. Known(a) => l \notin told[a]
    BY <1>1, <2>1 DEF Reminders, RemindedOnce, Known
  <2>7. \A q \in Requests \ {r} : req[q].op = "claimed" /\ req[q].appt = a /\ Known(a) =>
          req[q].lead # l
    BY <2>1 DEF Reminders, Claims
  <2>8. Claims'
    <3>1. ASSUME NEW q \in Requests, req'[q].op = "claimed",
                 "missed" \notin hist'[req'[q].appt]
          PROVE  /\ req'[q].lead \notin told'[req'[q].appt]
                 /\ Exists(req[q].appt)' => req'[q].lead \in appt'[req'[q].appt].sent
      <4>1. CASE q = r
        BY <1>1, <2>3, <2>4, <2>6, <3>1, <4>1 DEF Known
      <4>2. CASE q # r
        <5>1. /\ req'[q] = req[q] /\ req[q].op = "claimed" /\ Known(req[q].appt)
              /\ req[q].appt \in Appointments
          BY <1>1, <2>3, <3>1, <4>2, ClaimingTypes DEF Known
        <5>2. /\ req[q].lead \notin told[req[q].appt]
              /\ Exists(req[q].appt) => req[q].lead \in appt[req[q].appt].sent
          BY <5>1 DEF Reminders, Claims
        <5> QED
          BY <1>1, <2>4, <5>1, <5>2 DEF Exists
      <4> QED
        BY <4>1, <4>2
    <3>2. ASSUME NEW p \in Requests, NEW q \in Requests,
                 req'[p].op = "claimed", req'[q].op = "claimed",
                 req'[p].appt = req'[q].appt, req'[p].lead = req'[q].lead,
                 "missed" \notin hist'[req'[p].appt]
          PROVE  p = q
      <4>1. CASE p # r /\ q # r
        BY <1>1, <2>3, <3>2, <4>1 DEF Reminders, Claims, Known
      <4>2. CASE p = r \/ q = r
        BY <1>1, <2>3, <2>7, <3>2, <4>2 DEF Known
      <4> QED
        BY <4>1, <4>2
    <3> QED
      BY <3>1, <3>2 DEF Claims, Known, Exists
  <2>9. RemindedOnce'
    <3> SUFFICES ASSUME NEW b \in Appointments, Known(b)'
                 PROVE  /\ "twice" \notin hist'[b]
                        /\ Exists(b)' => \A m \in Leads :
                             IF m \in appt'[b].sent
                             THEN m \in told'[b] \/ \E q \in Requests : Claiming(q, b, m)'
                             ELSE m \notin told'[b]
      BY DEF RemindedOnce, Known, Claiming
    <3>1. /\ "twice" \notin hist[b] /\ Known(b)
          /\ Exists(b) => \A m \in Leads :
               IF m \in appt[b].sent
               THEN m \in told[b] \/ \E q \in Requests : Claiming(q, b, m)
               ELSE m \notin told[b]
      BY <1>1 DEF Reminders, RemindedOnce, Known, Claiming
    <3>2. \A q \in Requests, m \in Leads : Claiming(q, b, m) => Claiming(q, b, m)'
      BY <1>1, <2>3, ClaimingTypes DEF Claiming
    <3>3. CASE b = a
      <4>1. Claiming(r, b, l)'
        BY <2>3, <3>3 DEF Claiming
      <4>2. Exists(b)
        BY <2>1, <3>3
      <4>3. ASSUME NEW m \in Leads
            PROVE  IF m \in appt'[b].sent
                   THEN m \in told'[b] \/ \E q \in Requests : Claiming(q, b, m)'
                   ELSE m \notin told'[b]
        BY <1>1, <2>4, <3>1, <3>2, <3>3, <4>1, <4>2
      <4> QED
        BY <1>1, <3>1, <4>3
    <3>4. CASE b # a
      BY <1>1, <2>4, <3>1, <3>2, <3>4 DEF Exists
    <3> QED
      BY <3>3, <3>4
  <2> QED
    BY <2>5, <2>8, <2>9 DEF Reminders
<1>3. CASE ~Claimable(a, l)
  <2>1. req' = [req EXCEPT ![r] = Idle] /\ UNCHANGED appt
    BY <1>1, <1>3 DEF RemindClaim
  <2>2. req'[r].op = "idle" /\ \A q \in Requests \ {r} : req'[q] = req[q]
    BY <2>1 DEF TypeOK, Idle
  <2>3. ClaimsStay /\ Asking
    BY <1>1, <2>2 DEF ClaimsStay, Asking, ReminderOps
  <2> QED
    BY <1>1, <2>1, <2>3, UnchangedRows, Quiet
<1> QED
  BY <1>2, <1>3

LEMMA TellReminders ==
  ASSUME TypeOK, TypeOK', Reminders, NEW r \in Requests, RemindClient(r)
  PROVE  Reminders'
<1>0. PICK a \in Appointments, l \in Leads : a = req[r].appt /\ l = req[r].lead
  BY RequestTypes DEF RemindClient, ReminderOps
<1>1. /\ req[r].op = "claimed" /\ req[r].appt = a /\ req[r].lead = l
      /\ appt[a].status # "None" /\ UNCHANGED appt
      /\ req' = [req EXCEPT ![r].op = "told"]
  BY <1>0 DEF RemindClient, ReminderOps, Reminders, Asked
<1>2. /\ req'[r].op = "told" /\ req'[r].appt = a
      /\ \A q \in Requests \ {r} : req'[q] = req[q]
  BY <1>1, OneRequest DEF ReminderOps
<1>3. /\ told'[a] = IF "missed" \in hist[a] THEN told[a] ELSE told[a] \cup {l}
      /\ hist'[a] = hist[a] \cup IF l \in told[a] THEN {"twice"} ELSE {}
      /\ \A b \in Appointments \ {a} : told'[b] = told[b] /\ hist'[b] = hist[b]
  BY <1>1 DEF RemindClient, TypeOK
<1>4. Untold' /\ Asked'
  <2>1. Asking /\ RowsStay
    BY <1>1, <1>2, <1>3 DEF Asking, RowsStay, ReminderOps
  <2> QED
    BY <2>1, StillAsked DEF Reminders
<1>5. Known(a) => l \notin told[a] /\ (Exists(a) => l \in appt[a].sent)
  BY <1>1 DEF Reminders, Claims
<1>6. \A q \in Requests \ {r} :
        req[q].op = "claimed" /\ req[q].appt = a /\ Known(a) => req[q].lead # l
  BY <1>1 DEF Reminders, Claims
<1>7. Claims'
  <2>1. ASSUME NEW q \in Requests, req'[q].op = "claimed",
               "missed" \notin hist'[req'[q].appt]
        PROVE  /\ q # r /\ req'[q] = req[q]
               /\ req'[q].lead \notin told'[req'[q].appt]
               /\ Exists(req[q].appt)' => req'[q].lead \in appt'[req'[q].appt].sent
    <3>1. /\ q # r /\ req'[q] = req[q] /\ req[q].op = "claimed" /\ Known(req[q].appt)
          /\ req[q].appt \in Appointments
      BY <1>2, <1>3, <2>1, ClaimingTypes DEF Known
    <3>2. /\ req[q].lead \notin told[req[q].appt]
          /\ Exists(req[q].appt) => req[q].lead \in appt[req[q].appt].sent
      BY <3>1 DEF Reminders, Claims
    <3> QED
      BY <1>1, <1>3, <1>6, <3>1, <3>2 DEF Exists
  <2>2. ASSUME NEW p \in Requests, NEW q \in Requests,
               req'[p].op = "claimed", req'[q].op = "claimed",
               req'[p].appt = req'[q].appt, req'[p].lead = req'[q].lead,
               "missed" \notin hist'[req'[p].appt]
        PROVE  p = q
    <3>1. req'[p] = req[p] /\ req'[q] = req[q] /\ req[p].appt \in Appointments
      BY <2>1, <2>2, ClaimingTypes
    <3>2. Known(req[p].appt)
      BY <1>3, <2>2, <3>1 DEF Known
    <3> QED
      BY <2>2, <3>1, <3>2 DEF Reminders, Claims
  <2> QED
    BY <2>1, <2>2 DEF Claims, Known, Exists
<1>8. RemindedOnce'
  <2> SUFFICES ASSUME NEW b \in Appointments, Known(b)'
               PROVE  /\ "twice" \notin hist'[b]
                      /\ Exists(b)' => \A m \in Leads :
                           IF m \in appt'[b].sent
                           THEN m \in told'[b] \/ \E q \in Requests : Claiming(q, b, m)'
                           ELSE m \notin told'[b]
    BY DEF RemindedOnce, Known, Claiming
  <2>1. Known(b)
    BY <1>3 DEF Known
  <2>2. /\ "twice" \notin hist[b]
        /\ Exists(b) => \A m \in Leads :
             IF m \in appt[b].sent
             THEN m \in told[b] \/ \E q \in Requests : Claiming(q, b, m)
             ELSE m \notin told[b]
    BY <2>1 DEF Reminders, RemindedOnce, Known, Claiming
  <2>3. \A q \in Requests, m \in Leads : Claiming(q, b, m) /\ ~(b = a /\ m = l) =>
          Claiming(q, b, m)'
    BY <1>1, <1>2, ClaimingTypes DEF Claiming
  <2>4. CASE b = a
    <3>1. told'[a] = told[a] \cup {l} /\ "twice" \notin hist'[a]
      BY <1>3, <1>5, <2>1, <2>2, <2>4 DEF Known
    <3>2. ASSUME Exists(a), NEW m \in Leads
          PROVE  IF m \in appt[a].sent
                 THEN m \in told'[a] \/ \E q \in Requests : Claiming(q, a, m)'
                 ELSE m \notin told'[a]
      BY <1>5, <2>1, <2>2, <2>3, <2>4, <3>1, <3>2
    <3> QED
      BY <1>1, <2>4, <3>1, <3>2 DEF Exists
  <2>5. CASE b # a
    BY <1>1, <1>3, <2>2, <2>3, <2>5 DEF Exists
  <2> QED
    BY <2>4, <2>5
<1> QED
  BY <1>4, <1>7, <1>8 DEF Reminders

LEMMA FailReminders ==
  ASSUME TypeOK, TypeOK', Reminders, NEW r \in Requests, RemindFail(r)
  PROVE  Reminders'
<1>0. PICK a \in Appointments, l \in Leads : a = req[r].appt /\ l = req[r].lead
  BY RequestTypes DEF RemindFail, ReminderOps
<1>1. /\ req[r].op \in {"claimed", "told"} /\ req[r].appt = a /\ req[r].lead = l
      /\ appt[a].status # "None" /\ req' = [req EXCEPT ![r] = Idle]
  BY <1>0 DEF RemindFail, ReminderOps, Reminders, Asked
<1>2. req'[r].op = "idle" /\ \A q \in Requests \ {r} : req'[q] = req[q]
  BY <1>1 DEF TypeOK, Idle
<1>3. /\ Exists(a) => appt'[a].sent = appt[a].sent \ {l}
      /\ appt'[a].status = appt[a].status
      /\ \A b \in Appointments \ {a} : appt'[b] = appt[b]
  <2>1. CASE Exists(a)
    <3>1. appt' = [appt EXCEPT ![a].sent = appt[a].sent \ {l}]
      BY <1>1, <2>1 DEF RemindFail, TypeOK
    <3> QED
      BY <2>1, <3>1, Marked
  <2>2. CASE ~Exists(a)
    BY <1>1, <2>2 DEF RemindFail
  <2> QED
    BY <2>1, <2>2
<1>4. /\ \A b \in Appointments \ {a} : told'[b] = told[b] /\ hist'[b] = hist[b]
      /\ req[r].op = "told" => told'[a] = {} /\ "missed" \in hist'[a]
      /\ req[r].op = "claimed" => told'[a] = told[a] /\ hist'[a] = hist[a]
  BY <1>1 DEF RemindFail, Missed, TypeOK
<1>5. CASE req[r].op = "told"
  <2>1. ClaimsStay /\ Asking /\ RowsStay
    BY <1>1, <1>2, <1>3, <1>4, <1>5 DEF ClaimsStay, Asking, RowsStay, ReminderOps
  <2>2. \A b \in Appointments : Known(b)' => SameReminders(b)
    BY <1>3, <1>4, <1>5 DEF Known, SameReminders, Exists
  <2> QED
    BY <2>1, <2>2, Quiet
<1>6. CASE req[r].op = "claimed"
  <2>1. Untold' /\ Asked'
    <3>1. Asking /\ RowsStay
      BY <1>1, <1>2, <1>3, <1>4 DEF Asking, RowsStay, ReminderOps
    <3> QED
      BY <3>1, StillAsked DEF Reminders
  <2>2. Known(a) => l \notin told[a]
    BY <1>1, <1>6 DEF Reminders, Claims
  <2>3. \A q \in Requests \ {r} :
          req[q].op = "claimed" /\ req[q].appt = a /\ Known(a) => req[q].lead # l
    BY <1>1, <1>6 DEF Reminders, Claims
  <2>4. \A b \in Appointments : Known(b)' => Known(b)
    BY <1>4, <1>6 DEF Known
  <2>5. Claims'
    <3>1. ASSUME NEW q \in Requests, req'[q].op = "claimed",
                 "missed" \notin hist'[req'[q].appt]
          PROVE  /\ q # r /\ req'[q] = req[q] /\ Known(req[q].appt)
                 /\ req'[q].lead \notin told'[req'[q].appt]
                 /\ Exists(req[q].appt)' => req'[q].lead \in appt'[req'[q].appt].sent
      <4>1. /\ q # r /\ req'[q] = req[q] /\ req[q].op = "claimed" /\ Known(req[q].appt)
            /\ req[q].appt \in Appointments
        BY <1>2, <1>4, <1>6, <3>1, ClaimingTypes DEF Known
      <4>2. /\ req[q].lead \notin told[req[q].appt]
            /\ Exists(req[q].appt) => req[q].lead \in appt[req[q].appt].sent
        BY <4>1 DEF Reminders, Claims
      <4> QED
        BY <1>3, <1>4, <1>6, <2>3, <4>1, <4>2 DEF Exists
    <3>2. ASSUME NEW p \in Requests, NEW q \in Requests,
                 req'[p].op = "claimed", req'[q].op = "claimed",
                 req'[p].appt = req'[q].appt, req'[p].lead = req'[q].lead,
                 "missed" \notin hist'[req'[p].appt]
          PROVE  p = q
      <4>1. /\ req'[p] = req[p] /\ req'[q] = req[q] /\ Known(req[p].appt)
        BY <3>1, <3>2
      <4> QED
        BY <3>2, <4>1 DEF Reminders, Claims
    <3> QED
      BY <3>1, <3>2 DEF Claims, Known, Exists
  <2>6. RemindedOnce'
    <3> SUFFICES ASSUME NEW b \in Appointments, Known(b)'
                 PROVE  /\ "twice" \notin hist'[b]
                        /\ Exists(b)' => \A m \in Leads :
                             IF m \in appt'[b].sent
                             THEN m \in told'[b] \/ \E q \in Requests : Claiming(q, b, m)'
                             ELSE m \notin told'[b]
      BY DEF RemindedOnce, Known, Claiming
    <3>1. Known(b)
      BY <2>4
    <3>2. /\ "twice" \notin hist[b]
          /\ Exists(b) => \A m \in Leads :
               IF m \in appt[b].sent
               THEN m \in told[b] \/ \E q \in Requests : Claiming(q, b, m)
               ELSE m \notin told[b]
      BY <3>1 DEF Reminders, RemindedOnce, Known, Claiming
    <3>3. \A q \in Requests, m \in Leads : Claiming(q, b, m) /\ ~(b = a /\ m = l) =>
            Claiming(q, b, m)'
      BY <1>1, <1>2, ClaimingTypes DEF Claiming
    <3>4. CASE b = a
      <4>1. Exists(a)' => Exists(a)
        BY <1>3 DEF Exists
      <4>2. ASSUME Exists(a), NEW m \in Leads
            PROVE  IF m \in appt'[a].sent
                   THEN m \in told'[a] \/ \E q \in Requests : Claiming(q, a, m)'
                   ELSE m \notin told'[a]
        BY <1>3, <1>4, <1>6, <2>2, <3>1, <3>2, <3>3, <3>4, <4>2
      <4> QED
        BY <1>4, <1>6, <3>2, <3>4, <4>1, <4>2
    <3>5. CASE b # a
      BY <1>3, <1>4, <3>2, <3>3, <3>5 DEF Exists
    <3> QED
      BY <3>4, <3>5
  <2> QED
    BY <2>1, <2>5, <2>6 DEF Reminders
<1> QED
  BY <1>1, <1>5, <1>6

LEMMA RemindReminders ==
  ASSUME TypeOK, TypeOK', Reminders, NEW r \in Requests, Remind(r)
  PROVE  Reminders'
<1>1. CASE \E a \in Appointments, l \in Leads : RemindBegin(r, a, l)
  BY <1>1, BeginReminders DEF RemindBegin, Scheduled
<1>2. CASE RemindDone(r)
  <2>1. req'[r].op = "idle" /\ \A q \in Requests \ {r} : req'[q] = req[q]
    BY <1>2 DEF RemindDone, TypeOK, Idle
  <2>2. ClaimsStay /\ Asking
    BY <1>2, <2>1 DEF RemindDone, ClaimsStay, Asking, ReminderOps
  <2> QED
    BY <1>2, <2>2, UnchangedRows, Quiet DEF RemindDone
<1>3. CASE GiveBackFails(r)
  <2>1. req'[r].op = "idle" /\ \A q \in Requests \ {r} : req'[q] = req[q]
    BY <1>3 DEF GiveBackFails, TypeOK, Idle
  <2>2. PICK a \in Appointments : a = req[r].appt
    BY <1>3, RequestTypes DEF GiveBackFails, ReminderOps
  <2>3. /\ UNCHANGED appt
        /\ \A b \in Appointments \ {a} : told'[b] = told[b] /\ hist'[b] = hist[b]
        /\ req[r].op = "claimed" => told'[a] = {} /\ "missed" \in hist'[a]
        /\ req[r].op = "told" => told'[a] = told[a] /\ hist'[a] = hist[a]
        /\ req[r].op \in {"claimed", "told"}
    BY <1>3, <2>2 DEF GiveBackFails, Missed, TypeOK
  <2>4. ClaimsStay /\ Asking /\ RowsStay
    BY <2>1, <2>2, <2>3 DEF ClaimsStay, Asking, RowsStay, ReminderOps
  <2>5. \A b \in Appointments : Known(b)' => SameReminders(b)
    BY <2>3 DEF Known, SameReminders, Exists
  <2> QED
    BY <2>4, <2>5, Quiet
<1> QED
  BY <1>1, <1>2, <1>3, ClaimReminders, TellReminders, FailReminders DEF Remind

LEMMA RestartReminders ==
  ASSUME TypeOK, TypeOK', Reminders, Restart
  PROVE  Reminders'
<1> DEFINE lost == {a \in Appointments : \E r \in Requests :
                      req[r].op = "claimed" /\ req[r].appt = a}
<1>1. /\ UNCHANGED appt /\ \A r \in Requests : req'[r].op = "idle"
      /\ \A a \in Appointments :
           /\ told'[a] = IF a \in lost THEN {} ELSE told[a]
           /\ hist'[a] = hist[a] \cup IF a \in lost THEN {"missed"} ELSE {}
  BY DEF Restart, Missed, Idle
<1>2. ClaimsStay
  <2> SUFFICES ASSUME NEW r \in Requests, req[r].op = "claimed"
               PROVE  "missed" \in hist'[req[r].appt]
    BY <1>1 DEF ClaimsStay
  <2>1. req[r].appt \in lost
    BY ClaimingTypes
  <2> QED
    BY <1>1, <2>1
<1>3. Asking /\ RowsStay
  BY <1>1 DEF Asking, RowsStay, ReminderOps
<1>4. \A a \in Appointments : Known(a)' => SameReminders(a)
  BY <1>1 DEF Known, SameReminders, Exists
<1> QED
  BY <1>2, <1>3, <1>4, Quiet

LEMMA RemindersStep == TypeOK /\ TypeOK' /\ Reminders /\ [Next]_vars => Reminders'
<1> SUFFICES ASSUME TypeOK, TypeOK', Reminders, [Next]_vars PROVE Reminders'
  OBVIOUS
<1>1. CASE UNCHANGED vars
  <2>1. ClaimsStay /\ Asking
    BY <1>1 DEF vars, ClaimsStay, Asking
  <2> QED
    BY <1>1, <2>1, UnchangedRows, Quiet DEF vars
<1> QED
  BY <1>1, OfficeReminders, VisitorReminders, EditingReminders, RemindReminders,
     RestartReminders DEF Next

\* Whatever sweeps overlap, fail and are cut short, a reminder goes out once for
\* the time an appointment has, and one that is marked as sent went out.
THEOREM EachReminderOnce == Spec => []RemindedOnce
<1>1. Init => Reminders
  BY DEF Init, Reminders, RemindedOnce, Untold, Asked, Claims, Exists, NoRow, Idle, ReminderOps
<1>2. Reminders => RemindedOnce
  BY DEF Reminders
<1> QED
  BY <1>1, <1>2, RemindersStep, TypeCorrect, PTL DEF Spec
=============================================================================
