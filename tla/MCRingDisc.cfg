CONSTANTS
  Producers = {p1, p2}
  Consumers = {c1, c2}
  Values = {a, b}
  Uninit = Uninit
  Capacity = 2
  UsizeMod = 4
SPECIFICATION DisciplinedSpec
INVARIANT NoUninitRead NoOverwrite IInv
PROPERTY ImplementsQueue
