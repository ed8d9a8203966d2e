\* Three of: two shells with room for one, a sub-agent and a workflow; one panic
\* and one shutdown.
CONSTANTS
  Shells = {s1, s2}
  Agents = {a1}
  Workflows = {w1}
  ShellLimit = 1
  AgentLimit = 1
  WorkflowLimit = 1
  MaxBegun = 3
  MaxPanics = 1
  MaxShutdowns = 1
SPECIFICATION Spec
SYMMETRY Symmetry
INVARIANTS
  OneOutcome
  HeldUntilRouted
  ClaimIsOwned
  CompleteMeansStopped
  OnlyUncancellableRemain
CHECK_DEADLOCK FALSE
