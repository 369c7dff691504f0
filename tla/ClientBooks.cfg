\* Two submissions under review by two members of staff, with failures and restarts.
SPECIFICATION Spec
CONSTANTS
  Drafts = {d1, d2}
  Contents = {c1, c2}
  Requests = {r1, r2}
  NoContent = NoContent
CHECK_DEADLOCK FALSE
INVARIANTS
  PostedAsReviewed
PROPERTIES
  PostsOnce
  ReviewEnds
