SPECIFICATION Spec
CONSTANTS
  Singles = {}
  Pairs = {p1}
  Circuits = {a, b}
  ExitIPs = {e1}
  Probers = {d1}
  None = None
  MinReady = 1
  MaxCapacity = 2
  MaxUses = 2
  Ageing = TRUE
  CanClose = FALSE
  Cancelling = TRUE
SYMMETRY Symmetry
INVARIANTS
  LeasedStaysInUse
PROPERTIES
  ImplementsLease
