--------------------------- MODULE MCAppointments ---------------------------
(***************************************************************************)
(* TLC's instance of Appointments: everybody works the whole day, and the  *)
(* office gives appointments the last hour of the day.                     *)
(***************************************************************************)
EXTENDS Appointments, TLC

MCOpens == [s \in Staff |-> 0]
MCCloses == [s \in Staff |-> DayLength]
MCOfficeTimes == {[day |-> d, from |-> DayLength - 1, to |-> DayLength] : d \in Days}

Symmetry ==
  UNION {Permutations(S) : S \in {Staff, Days, Requests, Reminded, Appointments \ Reminded}}
=============================================================================
