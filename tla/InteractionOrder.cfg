\* A session, two runs and a snapshot that overtakes the start of the first.
CONSTANTS
  Sessions = {s1}
  NoSession = none
  MaxRuns = 2
  MaxAsks = 1
  Questions = {1}
  MaxMoves = 2
SPECIFICATION Spec
PROPERTY StaleStartIsPassedOver
CHECK_DEADLOCK FALSE
