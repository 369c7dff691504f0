\* The posting fails, and so does the statement that takes the claim back.
SPECIFICATION Spec
CONSTANTS
  Drafts = {d1}
  Contents = {c1, c2}
  Requests = {r1}
  NoContent = NoContent
CHECK_DEADLOCK FALSE
INVARIANTS
  NothingStranded
