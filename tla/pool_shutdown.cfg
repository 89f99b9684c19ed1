SPECIFICATION LiveSpec
CONSTANTS
  Singles = {}
  Pairs = {p1}
  Circuits = {a, b}
  ExitIPs = {e1}
  Probers = {}
  None = None
  MinReady = 1
  MaxCapacity = 2
  MaxUses = 2
  Ageing = FALSE
  CanClose = TRUE
  Cancelling = FALSE
CHECK_DEADLOCK FALSE
INVARIANTS
  ClosedTracksNothing
  FewOutliveClose
PROPERTIES
  Replenished
  CloseReturns
