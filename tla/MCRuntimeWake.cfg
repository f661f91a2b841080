CONSTANTS
  e1 = e1
  e2 = e2
  Executors = {e1, e2}
  Clients = {c1, w1}
  Callers = {c1}
  Tasks = {t1}
  TaskBound = 1
  ExecutorBound = 2
  MaxQueuedTasks = 1
  RegisterOrder <- TwoExecutors
  Panicking = {t1}
  MaxCalls = 2
  MaxPending = 1
  MaxSelfWakes = 1
  NoTask = NoTask
SPECIFICATION RTSpec
INVARIANT TMTypeOK SendsSucceed ExecutorTokens WakeNotLost
PROPERTY EndsOnce StrandedOnlyFromOutside
CHECK_DEADLOCK FALSE
