SPECIFICATION Spec
CONSTANTS
  Requests = {r1, r2}
  Streams = {}
  Circuits = {a, b, c}
  None = None
  MaxAttempts = 1
  PairsPossible = TRUE
  Cancelling = FALSE
SYMMETRY Symmetry
INVARIANTS
  UsedIsNotReady
