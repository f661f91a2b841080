CONSTANTS
  Senders = {s1, s2}
  Bound = 1
  Workers = 3
  TagBound = 2
  MaxSends = 3
  MaxOthers = 1
SPECIFICATION FairParkedSpec
INVARIANT ChTypeOK CountAgrees NoFalseRecvError WakeInFlight
PROPERTY RecvWoken
CHECK_DEADLOCK FALSE
