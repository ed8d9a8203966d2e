\* Two agents, a trigger of cron and a prompt around two cancels and a failure.
CONSTANTS
  Results = {r1, r2}
  Crons = {c1}
  Prompts = {p1}
  MaxCancels = 2
  MaxFailures = 1
SPECIFICATION Spec
INVARIANTS
  TypeOK
  ResultHasTaker
  NoChain
  NoEmptyRun
  TriggerHasTaker
SYMMETRY Symmetry
CHECK_DEADLOCK FALSE
