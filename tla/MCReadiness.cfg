CONSTANTS
  a = a
  b = b
  s = s
  Tasks = {a, b, z}
  Tokens = {s, a, z}
  Listeners = {}
  Streams = {s}
  Udps = {}
  Sleepers = {z}
  Timed = {a}
  SocketOf <- Shared
  MaxItems = 1
SPECIFICATION FairRdSpec
INVARIANT RdTypeOK ReadinessTold NoEarlyEnd
PROPERTY TimerEnds OpServed
CHECK_DEADLOCK FALSE
