SPECIFICATION Spec
CHECK_DEADLOCK FALSE
CONSTANTS
  Unchanged = {2}
  DownloadAll = 1
  FetchBlocks = 2
  MaxBlocks = 3
  MaxStorers = 1
  MaxCrashes = 1
  MaxFailures = 1
  MaxTruncated = 1
  Concurrent = FALSE
INVARIANTS TypeOK 
PROPERTIES CatchesUp
