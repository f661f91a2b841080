CONSTANTS
  FileOps = {f1}
  NetOps = {n1}
  NumThreads = 2
  PoolBound = 1
  TagBound = 2
  OtherWakers = TRUE
  NoJob = NoJob
SPECIFICATION FairOffSpec
INVARIANT OffTypeOK JobOnce ResultSignalled
PROPERTY CompletesUnlessEarly
CHECK_DEADLOCK FALSE
