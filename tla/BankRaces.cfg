\* Two requests at once on two bank lines and a card sale.
SPECIFICATION Spec
CONSTANTS
  Lines = {l1, l2}
  Sales = {s1}
  Entries = {e1, e2, e3}
  Requests = {r1, r2}
  NoLine = NoLine
  NoEntry = NoEntry
SYMMETRY Symmetry
CHECK_DEADLOCK FALSE
INVARIANTS
  TypeOK
  EntryMatchedOnce
  LinePostedOnce
  PostedIsAttached
PROPERTIES
  DepositClaimsOnce
