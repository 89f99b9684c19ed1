SPECIFICATION Spec
CONSTANTS
  Requests = {r1}
  Streams = {}
  Circuits = {a, b}
  None = None
  MaxAttempts = 1
  PairsPossible = TRUE
  Cancelling = TRUE
SYMMETRY Symmetry
INVARIANTS
  InUseIsUsed
