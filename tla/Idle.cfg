\* Fair turns with a shell and a sub-agent; every execution ends or panics.
CONSTANTS
  Shells = {s1}
  Agents = {a1}
  Workflows = {}
  ShellLimit = 1
  AgentLimit = 1
  WorkflowLimit = 1
  MaxBegun = 2
  MaxPanics = 1
  MaxShutdowns = 0
  MaxWork = 1
SPECIFICATION FairIdleSpec
INVARIANTS
  NoWakeLost
PROPERTIES
  NothingLeftBehind
  TurnEnds
CHECK_DEADLOCK FALSE
