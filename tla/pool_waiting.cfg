SPECIFICATION LiveSpec
CONSTANTS
  Singles = {p1}
  Pairs = {p2}
  Circuits = {a, b}
  ExitIPs = {e1}
  Probers = {}
  None = None
  MinReady = 1
  MaxCapacity = 2
  MaxUses = 2
  Ageing = FALSE
  CanClose = FALSE
  Cancelling = FALSE
INVARIANTS
  InUseIsLeased
PROPERTIES
  AcquireServed
  PairAttemptEnds
