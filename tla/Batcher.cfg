\* Four overlapping calls on a queue of two places, under DropOldest and
\* under Block (try_add under Block refuses as under DropNew).
CONSTANTS
  MaxCalls = 4
  MaxEvents = 2
  Policies = {"DropOldest", "Block"}
SPECIFICATION FairSpec
INVARIANTS
  PermitsKept
  EventsKeptInOrder
  FlushCovers
  NothingConfirmedUnseen
  ShutdownDrains
PROPERTIES
  AnswerComes
