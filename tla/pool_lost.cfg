SPECIFICATION Spec
CONSTANTS
  Singles = {p1}
  Pairs = {}
  Circuits = {a, b, c, d}
  ExitIPs = {e1}
  Probers = {}
  None = None
  MinReady = 2
  MaxCapacity = 2
  MaxUses = 3
  Ageing = FALSE
  CanClose = FALSE
  Cancelling = TRUE
SYMMETRY Symmetry
INVARIANTS
  ReadyIsQueued
