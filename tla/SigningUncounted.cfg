\* Everyone has signed, and a query throws before the document is completed.
SPECIFICATION Spec
CONSTANTS
  Documents = {d1}
  Letters = {}
  Signers = {s1, s2}
  Requests = {r1, r2}
  MaxSigners = 2
SYMMETRY Symmetry
CHECK_DEADLOCK FALSE
INVARIANTS
  SignaturesAreCounted
