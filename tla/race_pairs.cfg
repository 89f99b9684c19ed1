SPECIFICATION Spec
CONSTANTS
  Requests = {r1, r2}
  Streams = {r2}
  Circuits = {a, b, c}
  None = None
  MaxAttempts = 2
  PairsPossible = TRUE
  Cancelling = FALSE
SYMMETRY Symmetry
INVARIANTS
  InUseIsUsed
