CONSTANTS
  tx = tx
  Senders = {tx}
  Bound = 1
  Workers = 2
  TagBound = 2
  MaxSends = 1
  MaxOthers = 0
  MaxYields = 0
SPECIFICATION FairJSpec
PROPERTY PanicReported
CHECK_DEADLOCK FALSE
