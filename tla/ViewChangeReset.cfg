SPECIFICATION Spec
CHECK_DEADLOCK FALSE
CONSTANTS
  N = 4
  Dead = {0}
  MaxIdx = 1
  MaxBlocks = 2
  MaxSendFailures = 1
  MaxHeld = 0
  MaxRestarts = 1
  NormalBlocks = TRUE
INVARIANTS TypeOK  ViewBlockJustified ProofsAreRequests
