CONSTANTS
  tx = tx
  Senders = {tx}
  Bound = 1
  Workers = 2
  TagBound = 2
  MaxSends = 1
  MaxOthers = 3
  MaxYields = 2
SPECIFICATION FairJSpec
INVARIANT JTypeOK JoinOutcome
PROPERTY ChildEnds JoinWoken
CHECK_DEADLOCK FALSE
