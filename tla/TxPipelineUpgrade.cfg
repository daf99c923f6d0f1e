SPECIFICATION Spec
CHECK_DEADLOCK FALSE
CONSTANTS
  t1 = t1
  t2 = t2
  c = c
  Tx = {t1, t2, c}
  ConfigTx = {c}
  After <- MCAfter
  Weight <- MCWeight
  Overhead = 1
  MaxBlockSize = 3
  MaxVersion = 1
  CtxCap = 1
  MaxTxHashes = 2
  MaxSubmit = 3
  MaxFailures = 1
  MayStop = TRUE
INVARIANTS TypeOK NoTxLost ProposedInOrder BlockFits
