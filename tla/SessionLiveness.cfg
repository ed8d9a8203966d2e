\* Fair runs of two inputs, two commands and one disruption.
CONSTANTS
  Inputs = {i1, i2}
  Commands = {c1, c2}
  Capacity = 2
  NoRun = NoRun
  NoReceipt = NoReceipt
  MaxIterations = 1
  MaxKicks = 0
  MaxDisruptions = 1
SPECIFICATION FairSpec
PROPERTIES
  SelectedIsServed
  CancelledRunEnds
CHECK_DEADLOCK FALSE
