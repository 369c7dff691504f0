\* A reminder fails, and so does the statement that gives its claim back.
SPECIFICATION Spec
CONSTANTS
  Appointments = {a1}
  Staff = {s1}
  Days = {d1}
  DayLength = 3
  HourLength = 3
  SlotLength = 3
  Gap = 1
  Opens <- MCOpens
  Closes <- MCCloses
  Lengths = {1}
  OfficeTimes <- MCOfficeTimes
  Leads = {m1}
  Reminded = {a1}
  Requests = {r1}
  NoStaff = NoStaff
  NoAppointment = NoAppointment
  Nobody = Nobody
SYMMETRY Symmetry
CHECK_DEADLOCK FALSE
INVARIANTS
  MarkedIsSent
