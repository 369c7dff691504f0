\* Two handlers at once on a document with two signers, who may be replaced, and on the letters of one service.
SPECIFICATION Spec
CONSTANTS
  Documents = {d1}
  Letters = {l1}
  Signers = {s1, s2, s3}
  Requests = {r1, r2}
  MaxSigners = 2
SYMMETRY Symmetry
CHECK_DEADLOCK FALSE
INVARIANTS
  NobodySkipped
  LastSignatureCompletes
PROPERTIES
  SignatureWrittenOnce
  VoidStands
