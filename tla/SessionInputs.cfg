\* Three inputs for a mailbox that holds two, three commands and a retry; one
\* disruption: a stop, an external prompt, an error, an abort, a failed flush or a close.
CONSTANTS
  Inputs = {i1, i2, i3}
  Commands = {c1, c2, c3}
  Capacity = 2
  NoRun = NoRun
  NoReceipt = NoReceipt
  MaxIterations = 1
  MaxKicks = 1
  MaxDisruptions = 1
SPECIFICATION Spec
SYMMETRY Symmetry
INVARIANTS
  Custody
  NothingAdmittedWhilePaused
  OrdinaryFifo
  RunIsRegistered
  UninterruptedIsUncancelled
  NoStaleStop
PROPERTIES
  OnlyFreshCommandsResume
  ImplementsDelivery
  FrozenForGood
CHECK_DEADLOCK FALSE
