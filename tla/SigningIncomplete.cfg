\* A multi-signer document ends Signed without every signature.
SPECIFICATION Spec
CONSTANTS
  Documents = {d1}
  Letters = {}
  Signers = {s1, s2}
  Requests = {r1, r2}
  MaxSigners = 2
SYMMETRY Symmetry
CHECK_DEADLOCK FALSE
INVARIANTS
  SignedOnlyByEveryone
