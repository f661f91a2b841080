CONSTANTS
  Producers = {p1}
  Consumers = {c1}
  Values = {a, b}
  Uninit = Uninit
  Capacity = 2
  UsizeMod = 4
SPECIFICATION Spec
INVARIANT NoUninitRead
CHECK_DEADLOCK FALSE
