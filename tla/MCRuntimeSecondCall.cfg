CONSTANTS
  e1 = e1
  e2 = e2
  Executors = {e1}
  Clients = {c1}
  Callers = {c1}
  Tasks = {t1, t2}
  TaskBound = 4
  ExecutorBound = 2
  MaxQueuedTasks = 1
  RegisterOrder <- OneExecutor
  Panicking = {}
  MaxCalls = 2
  MaxPending = 0
  MaxSelfWakes = 0
  NoTask = NoTask
SPECIFICATION FairRTSpec
PROPERTY RunBlockingReturns
CHECK_DEADLOCK FALSE
