\* A prompt for a turn that waits for its agent; nothing fails or is cancelled.
CONSTANTS
  Results = {r1}
  Crons = {}
  Prompts = {p1}
  MaxCancels = 0
  MaxFailures = 0
SPECIFICATION Spec
INVARIANT InjectedPromptTaken
CHECK_DEADLOCK FALSE
