SPECIFICATION Spec
CONSTANTS
  Appointments = {a1, a2}
  Staff = {s1, s2}
  Days = {d1}
  DayLength = 3
  HourLength = 3
  SlotLength = 3
  Gap = 1
  Opens <- MCOpens
  Closes <- MCCloses
  Lengths = {1}
  OfficeTimes <- MCOfficeTimes
  Leads = {m1}
  Reminded = {a1}
  Requests = {r1, r2}
  NoStaff = NoStaff
  NoAppointment = NoAppointment
  Nobody = Nobody
SYMMETRY Symmetry
CHECK_DEADLOCK FALSE
INVARIANTS
  NoDoubleBooking
  DayLockComesBack
  RemindedOnce
