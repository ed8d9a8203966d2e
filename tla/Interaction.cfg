\* Two sessions, two runs and a request; a session is opened and disturbed twice.
CONSTANTS
  Sessions = {s1, s2}
  NoSession = none
  MaxRuns = 2
  MaxAsks = 1
  Questions = {1}
  MaxMoves = 3
SPECIFICATION Spec
SYMMETRY Symmetry
INVARIANTS
  RequestHasOneTaker
  OwnedByOpenPrompt
  NoRevival
  LoadingHasEnd
  GateWaitsForCancelled
CHECK_DEADLOCK FALSE
