CONSTANTS
  e1 = e1
  e2 = e2
  Executors = {e1, e2}
  Clients = {c1}
  Callers = {c1}
  Tasks = {t1, t2}
  TaskBound = 1
  ExecutorBound = 2
  MaxQueuedTasks = 1
  RegisterOrder <- TwoExecutors
  Panicking = {t1}
  MaxCalls = 1
  MaxPending = 1
  MaxSelfWakes = 1
  NoTask = NoTask
SPECIFICATION FairRTSpec
INVARIANT RTTypeOK CallMatchesFuture NoStrandedTask
PROPERTY ImplementsTaskManager AbortIsFinal RunBlockingReturns
CHECK_DEADLOCK FALSE
