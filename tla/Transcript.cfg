\* Two turns of up to four entries and a failing call; batches of two.
CONSTANTS
  BatchMax = 2
  FailedMax = 2
  MaxEntries = 4
  MaxTurns = 2
  MaxFailures = 1
SPECIFICATION FairSpec
INVARIANTS
  TypeOK
  ShownIsDurable
  ConfirmedIsDurable
PROPERTIES
  ImplementsDurableHistory
  TurnSettles
CHECK_DEADLOCK FALSE
