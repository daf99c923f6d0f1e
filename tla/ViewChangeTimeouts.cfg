SPECIFICATION Spec
CHECK_DEADLOCK FALSE
CONSTANTS
  N = 4
  Dead = {0}
  MaxIdx = 2
  MaxBlocks = 0
  MaxSendFailures = 0
  MaxHeld = 0
  MaxRestarts = 0
  NormalBlocks = FALSE
INVARIANTS NoPanic StartedTimerRuns
