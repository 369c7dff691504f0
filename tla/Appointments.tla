---------------------------- MODULE Appointments ----------------------------
(***************************************************************************)
(* Appointments, booked by visitors of the public page and moved by the    *)
(* clients' own links (src/src/modules/publicAppointments/                 *)
(* publicAppointments.routes.ts), or kept by the office on its calendar    *)
(* (src/src/modules/appointments/appointments.routes.ts), with their       *)
(* reminders.                                                              *)
(*                                                                         *)
(* A visitor's request checks the slot, waits for the advisory lock of its *)
(* day, checks the slot again and writes, each in a statement of its own;  *)
(* the office takes no lock.  A sweep reads the appointments that are due, *)
(* and for each one claims the reminder, sends it, and gives the claim     *)
(* back when that failed; an appointment of a sweep is a process here, and *)
(* the request for a confirmation is one more reminder.  A channel that    *)
(* fails inside the send does not count: the sweeps take it as sent.       *)
(*                                                                         *)
(* Of the clock only the order of events is kept: an appointment may come  *)
(* due, or be over, at any time.  No appointment runs past midnight, every *)
(* day has the same hours, and the settings do not change.                 *)
(***************************************************************************)
EXTENDS Integers

CONSTANTS
  Appointments,  \* appointment_id of v3_appointments
  Staff,         \* user_id of those who take bookings from the public
  Days,
  DayLength,     \* of a day, in units of time
  HourLength,    \* of an hour
  SlotLength,    \* slotMinutes of the settings
  Gap,           \* gapMinutes of the settings
  Opens, Closes, \* of each member of staff: the working day
  Lengths,       \* of appointments
  OfficeTimes,   \* BOUND: times the office gives appointments
  Leads,         \* reminderLeadMinutes of the settings, and the confirmation's
  Reminded,      \* BOUND: appointments that come due for a reminder
  Requests,      \* handlers, and reminders in flight
  NoStaff, NoAppointment, Nobody

DayTimes == 0..DayLength
Time == {t \in [day: Days, from: DayTimes, to: DayTimes] : t.from <= t.to}

ASSUME LengthsAssumption ==
  /\ DayLength \in Nat /\ Gap \in Nat /\ Lengths \subseteq Nat
  /\ HourLength \in Nat \ {0} /\ SlotLength \in Nat \ {0}
ASSUME HoursAssumption == Opens \in [Staff -> DayTimes] /\ Closes \in [Staff -> DayTimes]
ASSUME TimesAssumption == OfficeTimes \subseteq Time
ASSUME NullsAssumption ==
  NoStaff \notin Staff /\ NoAppointment \notin Appointments /\ Nobody \notin Requests

VARIABLES
  appt,  \* v3_appointments
  lock,  \* who holds the advisory lock of a day
  req,   \* what a handler or a sweep works on, and its step
  told,  \* reminders the client got for the time the appointment has
  hist   \* office: kept by the office; missed: its reminders are uncertain

vars == <<appt, lock, req, told, hist>>

-----------------------------------------------------------------------------
MaybeStaff == Staff \cup {NoStaff}
MaybeAppointment == Appointments \cup {NoAppointment}

\* Closed: Completed or Cancelled, which nobody but the display tells apart.
\* sent: reminder_lead_minutes_sent and confirmation_request_sent_at.
NoRow == [status |-> "None"]
Row == [status: {"Scheduled", "Closed"}, staff: MaybeStaff,
        time: Time, sent: SUBSET Leads]
Gone == [status |-> "Deleted"]

Idle == [op |-> "idle"]
Booking == [op: {"wait", "check", "write"}, appt: MaybeAppointment,
            who: SUBSET Staff, staff: MaybeStaff, time: Time]
Request == {Idle} \cup Booking
  \cup [op: {"edit"}, appt: Appointments, staff: MaybeStaff, time: Time]
  \cup [op: {"cancel"}, appt: Appointments]
  \cup [op: {"due", "claimed", "told"}, appt: Appointments, lead: Leads]

TypeOK ==
  /\ appt \in [Appointments -> {NoRow, Gone} \cup Row]
  /\ lock \in [Days -> Requests \cup {Nobody}]
  /\ req \in [Requests -> Request]
  /\ told \in [Appointments -> SUBSET Leads]
  /\ hist \in [Appointments -> SUBSET {"office", "missed", "twice"}]

Init ==
  /\ appt = [a \in Appointments |-> NoRow]
  /\ lock = [d \in Days |-> Nobody]
  /\ req = [r \in Requests |-> Idle]
  /\ told = [a \in Appointments |-> {}]
  /\ hist = [a \in Appointments |-> {}]

Exists(a) == appt[a].status \notin {"None", "Deleted"}
Scheduled(a) == appt[a].status = "Scheduled"

Begin(r, step) ==
  /\ req[r] = Idle
  /\ req' = [req EXCEPT ![r] = step]
  /\ UNCHANGED <<appt, lock, told, hist>>

-----------------------------------------------------------------------------
(***************************************************************************)
(* Slots                                                                   *)
(***************************************************************************)
Apart(t, u) == t.from >= u.to + Gap \/ u.from >= t.to + Gap

\* The calendar of a member of staff on a day, without one appointment.
BookedOn(s, d, except) ==
  {appt[a].time : a \in {b \in Appointments \ {except} :
     Scheduled(b) /\ appt[b].staff = s /\ appt[b].time.day = d}}

Works(s, t) == Opens[s] <= t.from /\ t.to <= Closes[s]
FreeAt(s, t, except) == \A u \in BookedOn(s, t.day, except) : Apart(t, u)

\* The grid of the working hours, and the moments an appointment's gap clears.
OnGrid(s, t) == t.from >= Opens[s] /\ (t.from % HourLength) % SlotLength = 0
AfterGap(s, t, except) == \E u \in BookedOn(s, t.day, except) : t.from = u.to + Gap
Available(who, t, except) ==
  \E s \in who : /\ OnGrid(s, t) \/ AfterGap(s, t, except)
                 /\ Works(s, t) /\ FreeAt(s, t, except)

\* The members of staff who can take it.
FreeStaff(who, t, except) == {s \in who : Works(s, t) /\ FreeAt(s, t, except)}

-----------------------------------------------------------------------------
(***************************************************************************)
(* The public page                                                         *)
(***************************************************************************)
\* Somebody in particular, or anybody.
BookBegin(r, who, t) ==
  /\ Begin(r, [op |-> "wait", appt |-> NoAppointment, who |-> who,
               staff |-> NoStaff, time |-> t])
  /\ who = Staff \/ \E s \in Staff : who = {s}
  /\ t.to - t.from \in Lengths
  /\ Available(who, t, NoAppointment)

\* Moving keeps the length, and the member of staff if there is one.
MoveBegin(r, a, t) ==
  LET who == IF appt[a].staff = NoStaff THEN Staff ELSE {appt[a].staff} IN
  /\ Scheduled(a)
  /\ Begin(r, [op |-> "wait", appt |-> a, who |-> who,
               staff |-> appt[a].staff, time |-> t])
  /\ t.to - t.from = appt[a].time.to - appt[a].time.from
  /\ Available(who, t, a)

LockableAlways(d) == d \in Days                                      \* mutation
Lockable(d) == lock[d] = Nobody

LockDay(r) ==
  /\ req[r].op = "wait" /\ Lockable(req[r].time.day)
  /\ lock' = [lock EXCEPT ![req[r].time.day] = r]
  /\ req' = [req EXCEPT ![r].op = "check"]
  /\ UNCHANGED <<appt, told, hist>>

Check(r) ==
  /\ req[r].op = "check"
  /\ \E s \in FreeStaff(req[r].who, req[r].time, req[r].appt) :
       req' = [req EXCEPT ![r].op = "write",
                 ![r].staff = IF req[r].appt = NoAppointment THEN s ELSE @]
  /\ UNCHANGED <<appt, lock, told, hist>>

\* The finally of withDayBookingLock.
StillLocked(r) == lock                                               \* mutation
Unlocked(r) == [lock EXCEPT ![req[r].time.day] = Nobody]

\* Somebody else took the slot, or a statement throws.
GiveUp(r) ==
  /\ req[r].op \in {"check", "write"}
  /\ lock' = Unlocked(r)
  /\ req' = [req EXCEPT ![r] = Idle]
  /\ UNCHANGED <<appt, told, hist>>

Book(r, a) ==
  /\ req[r].op = "write" /\ req[r].appt = NoAppointment
  /\ appt[a] = NoRow
  /\ appt' = [appt EXCEPT ![a] = [status |-> "Scheduled", staff |-> req[r].staff,
                                  time |-> req[r].time, sent |-> {}]]
  /\ lock' = Unlocked(r)
  /\ req' = [req EXCEPT ![r] = Idle]
  /\ UNCHANGED <<told, hist>>

\* A row is given a start, and its reminders are cleared to go out again or are
\* kept.  What goes out is uncertain when they are in flight, as those read the
\* time before, and when they are cleared for the start the row already has or
\* kept for another (a write of what was read before somebody else's).
Start(t) == <<t.day, t.from>>
Reminding(a) == \E r \in Requests :
  req[r].op \in {"due", "claimed", "told"} /\ req[r].appt = a
Restarted(a, t, cleared, also) ==
  LET moved == Start(t) # Start(appt[a].time) IN
  IF moved \/ cleared
  THEN /\ told' = [told EXCEPT ![a] = {}]
       /\ hist' = [hist EXCEPT ![a] = @ \cup also \cup
                     IF moved # cleared \/ Reminding(a) THEN {"missed"} ELSE {}]
  ELSE /\ hist' = [hist EXCEPT ![a] = @ \cup also]
       /\ UNCHANGED told

Move(r) ==
  LET a == req[r].appt IN
  /\ req[r].op = "write" /\ a # NoAppointment
  /\ IF Exists(a)
     THEN /\ appt' = [appt EXCEPT ![a].time = req[r].time, ![a].sent = {}]
          /\ Restarted(a, req[r].time, TRUE, {})
     ELSE UNCHANGED <<appt, told, hist>>
  /\ lock' = Unlocked(r)
  /\ req' = [req EXCEPT ![r] = Idle]

CancelBegin(r, a) == Scheduled(a) /\ Begin(r, [op |-> "cancel", appt |-> a])

WithStatus(a, status) == IF Exists(a) THEN [appt EXCEPT ![a].status = status] ELSE appt

CancelCommit(r) ==
  /\ req[r].op = "cancel"
  /\ appt' = WithStatus(req[r].appt, "Closed")
  /\ req' = [req EXCEPT ![r] = Idle]
  /\ UNCHANGED <<lock, told, hist>>

-----------------------------------------------------------------------------
(***************************************************************************)
(* The office                                                              *)
(***************************************************************************)
OfficeBook(a, s, t) ==
  /\ appt[a] = NoRow
  /\ appt' = [appt EXCEPT ![a] = [status |-> "Scheduled", staff |-> s,
                                  time |-> t, sent |-> {}]]
  /\ hist' = [hist EXCEPT ![a] = @ \cup {"office"}]
  /\ UNCHANGED <<lock, req, told>>

EditBegin(r, a) ==
  /\ Exists(a)
  /\ Begin(r, [op |-> "edit", appt |-> a, staff |-> appt[a].staff, time |-> appt[a].time])

\* What the form does not send is written back as it was read.
Edited(a, read, s, t) ==
  LET cleared == Start(t) # Start(read.time)
      changed == t # appt[a].time \/ s # appt[a].staff IN
  /\ appt' = [appt EXCEPT ![a].staff = s, ![a].time = t,
                          ![a].sent = IF cleared THEN {} ELSE @]
  /\ Restarted(a, t, cleared, IF changed THEN {"office"} ELSE {})

EditCommit(r) ==
  /\ req[r].op = "edit"
  /\ IF Exists(req[r].appt)
     THEN \E s \in MaybeStaff, t \in OfficeTimes \cup {req[r].time} :
            Edited(req[r].appt, req[r], s, t)
     ELSE UNCHANGED <<appt, told, hist>>
  /\ req' = [req EXCEPT ![r] = Idle]
  /\ UNCHANGED lock

OfficeCancel(a) ==
  /\ Exists(a)
  /\ appt' = WithStatus(a, "Closed")
  /\ UNCHANGED <<lock, req, told, hist>>

Delete(a) ==
  /\ Exists(a)
  /\ appt' = [appt EXCEPT ![a] = Gone]
  /\ UNCHANGED <<lock, req, told, hist>>

\* runAppointmentAutoComplete.
Complete(a) ==
  /\ Scheduled(a)
  /\ appt' = WithStatus(a, "Closed")
  /\ UNCHANGED <<lock, req, told, hist>>

-----------------------------------------------------------------------------
(***************************************************************************)
(* Reminders                                                               *)
(***************************************************************************)
RemindBegin(r, a, l) ==
  /\ a \in Reminded /\ Scheduled(a) /\ l \notin appt[a].sent
  /\ Begin(r, [op |-> "due", appt |-> a, lead |-> l])

ClaimableAlways(a, l) == Exists(a) /\ l \in Leads                     \* mutation
Claimable(a, l) == Exists(a) /\ l \notin appt[a].sent

RemindClaim(r) ==
  /\ req[r].op = "due"
  /\ IF Claimable(req[r].appt, req[r].lead)
     THEN /\ appt' = [appt EXCEPT ![req[r].appt].sent = @ \cup {req[r].lead}]
          /\ req' = [req EXCEPT ![r].op = "claimed"]
     ELSE /\ req' = [req EXCEPT ![r] = Idle]
          /\ UNCHANGED appt
  /\ UNCHANGED <<lock, told, hist>>

RemindClient(r) ==
  LET a == req[r].appt IN
  /\ req[r].op = "claimed"
  /\ told' = [told EXCEPT ![a] = IF "missed" \in hist[a] THEN @ ELSE @ \cup {req[r].lead}]
  /\ hist' = [hist EXCEPT ![a] = @ \cup IF req[r].lead \in told[a] THEN {"twice"} ELSE {}]
  /\ req' = [req EXCEPT ![r].op = "told"]
  /\ UNCHANGED <<appt, lock>>

RemindDone(r) ==
  /\ req[r].op = "told"
  /\ req' = [req EXCEPT ![r] = Idle]
  /\ UNCHANGED <<appt, lock, told, hist>>

\* Nothing is known any more of the reminders of these appointments.
Missed(as) ==
  /\ told' = [a \in Appointments |-> IF a \in as THEN {} ELSE told[a]]
  /\ hist' = [a \in Appointments |-> hist[a] \cup IF a \in as THEN {"missed"} ELSE {}]

\* Sending throws, before or after the client's message went out: the claim is
\* given back.
RemindFail(r) ==
  LET a == req[r].appt IN
  /\ req[r].op \in {"claimed", "told"}
  /\ appt' = IF Exists(a) THEN [appt EXCEPT ![a].sent = @ \ {req[r].lead}] ELSE appt
  /\ Missed(IF req[r].op = "told" THEN {a} ELSE {})
  /\ req' = [req EXCEPT ![r] = Idle]
  /\ UNCHANGED lock

\* The catch's UPDATE throws as well, and ends the sweep: the reminder stays
\* marked, sent or not.
GiveBackFails(r) ==
  /\ req[r].op \in {"claimed", "told"}
  /\ Missed(IF req[r].op = "claimed" THEN {req[r].appt} ELSE {})
  /\ req' = [req EXCEPT ![r] = Idle]
  /\ UNCHANGED <<appt, lock>>

\* The process stops: its sessions end, and with them the advisory locks.
Restart ==
  /\ \E r \in Requests : req[r] # Idle
  /\ req' = [r \in Requests |-> Idle]
  /\ lock' = [d \in Days |-> Nobody]
  /\ Missed({a \in Appointments : \E r \in Requests :
                req[r].op = "claimed" /\ req[r].appt = a})
  /\ UNCHANGED appt

-----------------------------------------------------------------------------
Visitor(r) ==
  \/ \E who \in SUBSET Staff, t \in Time : BookBegin(r, who, t)
  \/ \E a \in Appointments, t \in Time : MoveBegin(r, a, t)
  \/ LockDay(r) \/ Check(r) \/ GiveUp(r) \/ Move(r)
  \/ \E a \in Appointments : Book(r, a) \/ CancelBegin(r, a)
  \/ CancelCommit(r)

Office ==
  \E a \in Appointments :
    \/ \E s \in MaybeStaff, t \in OfficeTimes : OfficeBook(a, s, t)
    \/ OfficeCancel(a) \/ Delete(a) \/ Complete(a)

Editing(r) ==
  \/ \E a \in Appointments : EditBegin(r, a)
  \/ EditCommit(r)

Remind(r) ==
  \/ \E a \in Appointments, l \in Leads : RemindBegin(r, a, l)
  \/ RemindClaim(r) \/ RemindClient(r) \/ RemindDone(r)
  \/ RemindFail(r) \/ GiveBackFails(r)

Next ==
  \/ Office \/ Restart
  \/ \E r \in Requests : Visitor(r) \/ Editing(r) \/ Remind(r)

Spec == Init /\ [][Next]_vars

-----------------------------------------------------------------------------
(***************************************************************************)
(* Properties                                                              *)
(***************************************************************************)
\* withDayBookingLock: visitors and clients who book and move at once never give
\* a member of staff two appointments closer than the gap; only the office does.
NoDoubleBooking ==
  \A a, b \in Appointments :
    /\ a # b /\ Scheduled(a) /\ Scheduled(b)
    /\ "office" \notin hist[a] \cup hist[b]
    /\ appt[a].staff = appt[b].staff /\ appt[a].time.day = appt[b].time.day
    => Apart(appt[a].time, appt[b].time)

\* No way out of a booking leaves its day locked, and a day is locked by one
\* booking at a time.
DayLockComesBack ==
  \A d \in Days : lock[d] # Nobody =>
    req[lock[d]].op \in {"check", "write"} /\ req[lock[d]].time.day = d

\* The claim of the sweeps: whatever sweeps overlap and fail, each reminder goes
\* out once for the time an appointment has, and one that is marked sent went
\* out.  Left out (missed) are appointments whose time changed under a sweep or
\* was written over, and those on which a failure came after the message, or a
\* restart or the failure of the catch itself before it.
RemindedOnce ==
  \A a \in Appointments : "missed" \notin hist[a] =>
    /\ "twice" \notin hist[a]
    /\ Exists(a) => \A l \in Leads :
         IF l \in appt[a].sent
         THEN l \in told[a] \/ \E r \in Requests :
                req[r] = [op |-> "claimed", appt |-> a, lead |-> l]
         ELSE l \notin told[a]

\* The catch of the sweeps, of its give-back: "instead of being permanently
\* marked 'sent' despite never sending".  Refuted when the give-back throws too,
\* and by a restart.
MarkedIsSent ==
  \A a \in Appointments : Exists(a) => \A l \in appt[a].sent :
    \/ l \in told[a]
    \/ \E r \in Requests : req[r] = [op |-> "claimed", appt |-> a, lead |-> l]
=============================================================================
