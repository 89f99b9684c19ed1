SPECIFICATION LiveSpec
CONSTANTS
  Requests = {r1}
  Streams = {r1}
  Circuits = {a, b, c}
  None = None
  MaxAttempts = 2
  PairsPossible = TRUE
  Cancelling = TRUE
INVARIANTS
  RaceTypeOK
  WinnerNotCancelled
  OneResponse
PROPERTIES
  RoundEnds
