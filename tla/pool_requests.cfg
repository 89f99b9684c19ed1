SPECIFICATION Spec
CONSTANTS
  Singles = {}
  Pairs = {p1}
  Circuits = {a, b, c, d}
  ExitIPs = {e1, e2}
  Probers = {}
  None = None
  MinReady = 1
  MaxCapacity = 2
  MaxUses = 2
  Ageing = FALSE
  CanClose = FALSE
  Cancelling = TRUE
SYMMETRY Symmetry
INVARIANTS
  TypeOK
  InUseIsLeased
  BoundedOvershoot
