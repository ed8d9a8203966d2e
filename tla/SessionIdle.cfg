\* An input is selected, an external prompt runs first and idles.
CONSTANTS
  Inputs = {i1, i2}
  Commands = {c1, c2}
  Capacity = 2
  NoRun = NoRun
  NoReceipt = NoReceipt
  MaxIterations = 1
  MaxKicks = 0
  MaxDisruptions = 1
SPECIFICATION Spec
SYMMETRY Symmetry
INVARIANT IdleTakesNext
CHECK_DEADLOCK FALSE
