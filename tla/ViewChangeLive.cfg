SPECIFICATION Spec
CHECK_DEADLOCK FALSE
CONSTANTS
  N = 4
  Dead = {0}
  MaxIdx = 1
  MaxBlocks = 1
  MaxSendFailures = 0
  MaxHeld = 1
  MaxRestarts = 0
  NormalBlocks = FALSE
PROPERTIES LeaderReplaced
