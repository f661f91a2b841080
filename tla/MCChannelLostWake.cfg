CONSTANTS
  Senders = {s1, s2}
  Bound = 1
  Workers = 3
  TagBound = 2
  MaxSends = 1
  MaxOthers = 0
SPECIFICATION FairChSpec
PROPERTY RecvWoken
CHECK_DEADLOCK FALSE
