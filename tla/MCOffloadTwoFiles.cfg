CONSTANTS
  FileOps = {f1, f2}
  NetOps = {}
  NumThreads = 1
  PoolBound = 2
  TagBound = 4
  OtherWakers = FALSE
  NoJob = NoJob
SPECIFICATION FairOffSpec
PROPERTY OperationCompletes
CHECK_DEADLOCK FALSE
