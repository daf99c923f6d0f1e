SPECIFICATION Spec
CHECK_DEADLOCK FALSE
CONSTANTS
  t1 = t1
  t2 = t2
  c = c
  Tx = {t1, t2, c}
  ConfigTx = {c}
  After <- MCAfter
  Weight <- MCWeight
  Overhead = 1
  MaxBlockSize = 4
  MaxVersion = 0
  CtxCap = 2
  MaxTxHashes = 3
  MaxSubmit = 4
  MaxFailures = 0
  MayStop = FALSE
INVARIANTS RosterMatchesConfig
PROPERTIES CommittedBeforeUsed 
