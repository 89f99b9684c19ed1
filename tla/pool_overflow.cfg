SPECIFICATION Spec
CONSTANTS
  Singles = {p1}
  Pairs = {}
  Circuits = {a, b, c, d}
  ExitIPs = {e1}
  Probers = {}
  None = None
  MinReady = 2
  MaxCapacity = 2
  MaxUses = 1
  Ageing = TRUE
  CanClose = FALSE
  Cancelling = FALSE
SYMMETRY Symmetry
INVARIANTS
  SinglePlace
