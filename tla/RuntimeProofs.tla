--------------------------- MODULE RuntimeProofs ---------------------------
(***************************************************************************)
(* The runtime implements the task manager's specification, so that what   *)
(* TaskManagerProofs proves of TMSpec holds of the runtime.  Then, for     *)
(* every number of executors, threads and tasks: the types, that no        *)
(* wake-up is lost, that a call returns what its own future did, and that  *)
(* a future ends once.                                                     *)
(***************************************************************************)
EXTENDS Runtime, TaskManagerProofs

\* What an executor does in forward_task is a step of the manager's, or none.
LEMMA ExecutorStepRefines ==
  ASSUME TMTypeOK, NEW e \in Executors, ExecutorStep(e) \/ PollStep(e)
  PROVE  TMNext \/ UNCHANGED tmvars
<1>1. e \in Threads /\ running[e] \in Tasks
  BY DEF Threads, TMTypeOK
<1>2. CASE \E t \in Tasks : Spawn(e, t) \/ WakeInside(e, t)
  BY <1>1, <1>2, Zenon DEF Spawn, WakeInside, TMNext
<1>10. CASE WakeSelf(e)
  BY <1>1, <1>10, Zenon DEF WakeSelf, TMNext
<1>3. CASE Arm(e) \/ SendResult(e) \/ PollPanic(e) \/ Lock(e) \/ SignalDeath(e)
  BY <1>3 DEF Arm, SendResult, PollPanic, Lock, SignalDeath
<1>4. CASE PollPending(e) \/ PollReady(e) \/ PollNone(e) \/ SignalPanic(e)
  <2>1. RunEnd(e)
    BY <1>4 DEF PollPending, PollReady, PollNone, SignalPanic
  <2>2. QED
    BY <2>1 DEF TMNext
<1>5. CASE Registering(e) \/ PollOverflow(e)
  <2>1. RegisterStep(e)
    BY <1>5 DEF Registering, PollOverflow, RegisterStep
  <2>2. QED
    BY <1>1, <2>1 DEF TMNext
<1>6. CASE RecvTask(e)
  BY <1>6 DEF RecvTask, TMNext
<1>7. CASE LockPoisoned(e)
  BY <1>7 DEF LockPoisoned, TMNext
<1>8. CASE ExecutorReady(e)
  BY <1>8 DEF ExecutorReady, TMNext
<1>9. QED
  BY <1>2, <1>3, <1>4, <1>5, <1>6, <1>7, <1>8, <1>10, Zenon DEF ExecutorStep, PollStep

\* So is what a thread outside the executors does.
LEMMA ClientStepRefines ==
  ASSUME NEW c \in Clients,
         \/ c \in Callers /\ ((\E t \in Tasks : RunBlocking(c, t) \/ HandleSpawn(c, t)) \/ CallerStep(c))
         \/ \E t \in Tasks : WakeOutside(c, t)
         \/ Registering(c) \/ ClientOverflow(c)
  PROVE  TMNext \/ UNCHANGED tmvars
<1>1. c \in Threads
  BY DEF Threads
<1>2. CASE \E t \in Tasks : RunBlocking(c, t) \/ HandleSpawn(c, t) \/ WakeOutside(c, t)
  BY <1>1, <1>2, Zenon DEF RunBlocking, HandleSpawn, WakeOutside, TMNext
<1>3. CASE CallerStep(c)
  BY <1>3 DEF CallerStep, AwaitResult, GotResult, TaskFailed, ExecutorPanicked, Return
<1>4. CASE Registering(c) \/ ClientOverflow(c)
  <2>1. RegisterStep(c)
    BY <1>4 DEF Registering, ClientOverflow, RegisterStep
  <2>2. QED
    BY <1>1, <2>1 DEF TMNext
<1>5. QED
  BY <1>2, <1>3, <1>4, Zenon

\* So is every step of the runtime.
LEMMA RTStepRefines == TMTypeOK /\ [RTNext]_vars => [TMNext]_tmvars
<1> SUFFICES ASSUME TMTypeOK, [RTNext]_vars PROVE TMNext \/ UNCHANGED tmvars
  OBVIOUS
<1>1. CASE UNCHANGED vars
  BY <1>1 DEF vars
<1>2. ASSUME NEW c \in Callers,
             (\E t \in Tasks : RunBlocking(c, t) \/ HandleSpawn(c, t)) \/ CallerStep(c)
      PROVE  TMNext \/ UNCHANGED tmvars
  BY <1>2, ClientStepRefines, RuntimeAssumption
<1>3. ASSUME NEW w \in Wakers, NEW t \in Tasks, WakeOutside(w, t)
      PROVE  TMNext \/ UNCHANGED tmvars
  BY <1>3, ClientStepRefines DEF Wakers
<1>4. ASSUME NEW c \in Clients, Registering(c) \/ ClientOverflow(c)
      PROVE  TMNext \/ UNCHANGED tmvars
  BY <1>4, ClientStepRefines
<1>5. ASSUME NEW e \in Executors, ExecutorStep(e) \/ PollStep(e)
      PROVE  TMNext \/ UNCHANGED tmvars
  BY <1>5, ExecutorStepRefines
<1>6. ASSUME NEW t \in Tasks, AbortSpawned(t) PROVE TMNext \/ UNCHANGED tmvars
  BY <1>6 DEF AbortSpawned, TMNext
<1>7. QED
  BY <1>1, <1>2, <1>3, <1>4, <1>5, <1>6 DEF RTNext

\* Every step of the runtime is a step of the task manager or leaves it alone:
\* forward_task, its panics and run_blocking use the manager only through
\* register_or_execute_non_blocking_task and executor_ready.
THEOREM RTImplementsTaskManager == RTSpec => ImplementsTaskManager
<1>1. RTInit => TMInit
  BY DEF RTInit
<1>2. TMTypeOK /\ [RTNext]_vars => TMTypeOK'
  BY RTStepRefines, TMTypeOKStep
<1>3. QED
  BY <1>1, <1>2, TMInitTypeOK, RTStepRefines, PTL DEF RTSpec, TMSpec, ImplementsTaskManager

\* In the runtime, with panics, poisoned mutexes, dead executors and full queues, no
\* executor is lost, no send blocks or fails, an aborted task stays aborted, and a queued
\* task is stranded only by a registration from outside the executors or by a death.
THEOREM RTManagerSafe ==
  RTSpec => []ExecutorTokens /\ []SendsSucceed /\ AbortIsFinal /\ StrandedOnlyFromOutside
BY RTImplementsTaskManager, TMTokens, TMSendsSucceed, TMAbortIsFinal, TMStrandedOnlyFromOutside, PTL
   DEF ImplementsTaskManager

-----------------------------------------------------------------------------
(* Types *)

\* The types of the variables that are not the task manager's.
FutureTypeOK ==
  /\ future \in [Tasks -> {"new", "some", "none", "poisoned"}]
  /\ result \in [Tasks -> {"open", "sent", "dropped"}]
  /\ spawned \subseteq Tasks /\ armed \subseteq Tasks
  /\ pending \in [Tasks -> 0 .. MaxPending]
  /\ stage \in [Executors -> {"out", "lock", "poll", "sent", "signal"}]
  /\ roused \in [Executors -> 0 .. MaxSelfWakes] /\ arranged \subseteq Executors
  /\ refused \subseteq Tasks

CallTypeOK ==
  /\ panics \in 0 .. 1
  /\ calls \in [Callers -> 0 .. MaxCalls]
  /\ call \in [Callers -> {"out", "register", "recv", "try_recv"}]
  /\ job \in [Callers -> Tasks \cup {NoTask}]
  /\ outcome \in [Callers -> {"none", "ok", "task_failed", "executor_panicked"}]

\* The types, in three parts.
LEMMA TypeParts == RTTypeOK <=> TMTypeOK /\ FutureTypeOK /\ CallTypeOK
BY DEF RTTypeOK, FutureTypeOK, CallTypeOK

\* The types hold after build.
LEMMA RTInitTypeOK == RTInit => RTTypeOK
<1> SUFFICES ASSUME RTInit PROVE RTTypeOK
  OBVIOUS
<1>1. TMTypeOK
  BY TMInitTypeOK DEF RTInit
<1>2. FutureTypeOK
  BY RuntimeAssumption DEF RTInit, FutureTypeOK
<1>3. CallTypeOK
  BY RuntimeAssumption DEF RTInit, CallTypeOK
<1>4. QED
  BY <1>1, <1>2, <1>3, TypeParts

\* run_blocking and spawn keep the types.
LEMMA CallerTypes ==
  ASSUME RTTypeOK, NEW c \in Callers,
         (\E t \in Tasks : RunBlocking(c, t) \/ HandleSpawn(c, t)) \/ CallerStep(c)
  PROVE  FutureTypeOK' /\ CallTypeOK'
<1> USE RuntimeAssumption, TypeParts DEF FutureTypeOK, CallTypeOK
<1>1. ASSUME NEW t \in Tasks, RunBlocking(c, t) PROVE FutureTypeOK' /\ CallTypeOK'
  BY <1>1 DEF RunBlocking
<1>2. ASSUME NEW t \in Tasks, HandleSpawn(c, t) PROVE FutureTypeOK' /\ CallTypeOK'
  BY <1>2 DEF HandleSpawn
<1>3. CASE AwaitResult(c) \/ GotResult(c) \/ TaskFailed(c)
  BY <1>3 DEF AwaitResult, GotResult, TaskFailed
<1>4. CASE ExecutorPanicked(c) \/ Return(c)
  BY <1>4 DEF ExecutorPanicked, Return
<1>5. QED
  BY <1>1, <1>2, <1>3, <1>4 DEF CallerStep

\* forward_task keeps the types.
LEMMA ExecutorTypes ==
  ASSUME RTTypeOK, NEW e \in Executors, ExecutorStep(e) \/ PollStep(e)
  PROVE  FutureTypeOK' /\ CallTypeOK'
<1> USE RuntimeAssumption, TypeParts DEF FutureTypeOK, CallTypeOK
<1>0. running \in [Executors -> Tasks] /\ running[e] \in Tasks
  BY DEF TMTypeOK
<1>1. CASE Registering(e) \/ ExecutorReady(e)
  BY <1>1 DEF Registering, ExecutorReady, rtvars
<1>2. CASE RecvTask(e) \/ Lock(e) \/ LockPoisoned(e) \/ PollNone(e)
  BY <1>2 DEF RecvTask, Lock, LockPoisoned, PollNone
<1>3. CASE PollOverflow(e) \/ PollPanic(e)
  <2>1. task[e] \in Tasks
    BY DEF TMTypeOK, Threads
  <2>2. QED
    BY <1>0, <1>3, <2>1 DEF PollOverflow, PollPanic, Unwind
<1>4. CASE SignalPanic(e) \/ SignalDeath(e)
  BY <1>4 DEF SignalPanic, SignalDeath
<1>5. ASSUME NEW t \in Tasks, Spawn(e, t) PROVE FutureTypeOK' /\ CallTypeOK'
  BY <1>5 DEF Spawn
<1>6. ASSUME NEW t \in Tasks, WakeInside(e, t) PROVE FutureTypeOK' /\ CallTypeOK'
  BY <1>6 DEF WakeInside, UseWaker
<1>7. CASE Arm(e)
  BY <1>0, <1>7 DEF Arm
<1>11. CASE WakeSelf(e)
  BY <1>0, <1>11 DEF WakeSelf
<1>12. CASE SendResult(e)
  BY <1>0, <1>12 DEF SendResult
<1>8. CASE PollPending(e)
  BY <1>0, <1>8 DEF PollPending
<1>9. CASE PollReady(e)
  BY <1>0, <1>9 DEF PollReady
<1>10. QED
  BY <1>1, <1>2, <1>3, <1>4, <1>5, <1>6, <1>7, <1>8, <1>9, <1>11, <1>12 DEF ExecutorStep, PollStep

\* Every step keeps the types.
LEMMA RTTypeOKStep == RTTypeOK /\ [RTNext]_vars => RTTypeOK'
<1> SUFFICES ASSUME RTTypeOK, [RTNext]_vars PROVE RTTypeOK'
  OBVIOUS
<1>0. TMTypeOK'
  BY RTStepRefines, TMTypeOKStep, TypeParts
<1> SUFFICES FutureTypeOK' /\ CallTypeOK'
  BY <1>0 DEF RTTypeOK, FutureTypeOK, CallTypeOK
<1>1. CASE UNCHANGED rtvars
  BY <1>1, TypeParts DEF rtvars, FutureTypeOK, CallTypeOK
<1>2. ASSUME NEW c \in Callers,
             (\E t \in Tasks : RunBlocking(c, t) \/ HandleSpawn(c, t)) \/ CallerStep(c)
      PROVE  FutureTypeOK' /\ CallTypeOK'
  BY <1>2, CallerTypes
<1>3. ASSUME NEW w \in Wakers, NEW t \in Tasks, WakeOutside(w, t) PROVE FutureTypeOK' /\ CallTypeOK'
  BY <1>3, TypeParts DEF WakeOutside, UseWaker, FutureTypeOK, CallTypeOK
<1>4. ASSUME NEW c \in Clients, Registering(c) PROVE UNCHANGED rtvars
  BY <1>4 DEF Registering
<1>5. ASSUME NEW c \in Clients, ClientOverflow(c) PROVE FutureTypeOK' /\ CallTypeOK'
  <2>1. task[c] \in Tasks
    BY TypeParts DEF TMTypeOK, Threads
  <2>2. QED
    BY <1>5, <2>1, TypeParts DEF ClientOverflow, FutureTypeOK, CallTypeOK
<1>6. ASSUME NEW e \in Executors, ExecutorStep(e) \/ PollStep(e) PROVE FutureTypeOK' /\ CallTypeOK'
  BY <1>6, ExecutorTypes
<1>7. ASSUME NEW t \in Tasks, AbortSpawned(t) PROVE UNCHANGED rtvars
  BY <1>7 DEF AbortSpawned
<1>8. ASSUME UNCHANGED vars PROVE UNCHANGED rtvars
  BY <1>8 DEF vars
<1>9. QED
  BY <1>1, <1>2, <1>3, <1>4, <1>5, <1>6, <1>7, <1>8, Zenon DEF RTNext

\* Every variable of the runtime keeps its type: the panic channel never holds two
\* messages (executor.rs:136, runtime.rs).
THEOREM RTTypes == RTSpec => []RTTypeOK
BY RTInitTypeOK, RTTypeOKStep, PTL DEF RTSpec

-----------------------------------------------------------------------------
(* The inductive invariant. *)

\* Where forward_task is, and where the thread is in the task manager.
StageAgrees ==
  \A e \in Executors :
    /\ stage[e] = "out" => pc[e] \notin {"run"} \cup RegisterPC
    /\ stage[e] = "lock" => pc[e] = "run"
    /\ stage[e] = "poll" => pc[e] \in {"run"} \cup RegisterPC
    /\ stage[e] = "sent" => pc[e] = "run" /\ future[running[e]] = "some" /\ result[running[e]] = "sent"
    /\ stage[e] = "signal" => pc[e] \in {"run", "dead"}
    /\ pc[e] \in RegisterPC => future[running[e]] = "some"

\* The executor holds the mutex of the task it runs.
HasLock(e) == stage[e] \in {"poll", "sent"}

\* task.future's mutex: one executor at a time polls a task.
OnePoll ==
  \A e, f \in Executors : HasLock(e) /\ HasLock(f) /\ running[e] = running[f] => e = f

\* Nothing in the runtime leads to t, registrations under way aside.
Untouched(t) ==
  /\ t \notin armed
  /\ \A i \in 1 .. Len(waiting_tasks) : waiting_tasks[i] # t
  /\ \A e \in Executors : \A i \in 1 .. Len(ready_queue[e]) : ready_queue[e][i] # t
  /\ \A e \in Executors : stage[e] # "out" => running[e] # t
  /\ \A e \in Executors : pc[e] \in {"screen", "resend"} => task[e] # t

\* A task that was not created yet is nowhere.
NewUntouched ==
  \A t \in Tasks : future[t] = "new" =>
    /\ Untouched(t) /\ t \notin spawned
    /\ \A th \in Threads : pc[th] \in RegisterPC => task[th] # t
    /\ \A c \in Callers : job[c] # t

\* t's future has sent its result and its last poll is about to end.
Ending(t) == \E e \in Executors : stage[e] = "sent" /\ running[e] = t

\* The result is what the future's end made of it.
ResultFollows ==
  \A t \in Tasks :
    /\ future[t] = "new" => result[t] = "open"
    /\ future[t] = "some" /\ result[t] # "open" => Ending(t)
    /\ result[t] = "sent" => future[t] = "none" \/ Ending(t)
    /\ result[t] = "dropped" => future[t] = "poisoned"

\* The task of a run_blocking call has no join handle, so it is never aborted.
JobNotSpawned ==
  /\ \A c \in Callers : job[c] \notin spawned /\ (call[c] # "out" \/ outcome[c] # "none" => job[c] \in Tasks)
  /\ \A t \in Tasks : abort[t] => t \in spawned

\* A poll that may return Pending has its wake-up: it is still there when the poll ends.
ArrangedKept ==
  \A e \in Executors :
    stage[e] = "poll" /\ e \in arranged /\ future[running[e]] = "some" /\ ~abort[running[e]] =>
      OnItsWay(running[e]) \/ running[e] \in armed \/ running[e] \in refused

RTInv == /\ RTTypeOK /\ StageAgrees /\ OnePoll /\ NewUntouched
         /\ ResultFollows /\ JobNotSpawned /\ ArrangedKept /\ WakeNotLost /\ CallMatchesFuture

-----------------------------------------------------------------------------
(* What one thread does to the state of the others. *)

\* A step of the thread a.
Acts(a) ==
  \/ a \in Callers /\ ((\E t \in Tasks : RunBlocking(a, t) \/ HandleSpawn(a, t)) \/ CallerStep(a))
  \/ a \in Wakers /\ \E t \in Tasks : WakeOutside(a, t)
  \/ a \in Clients /\ (Registering(a) \/ ClientOverflow(a))
  \/ a \in Executors /\ (ExecutorStep(a) \/ PollStep(a))

\* A step is some thread's, an abort, or none.
LEMMA StepIsSomeonesOrAbort ==
  ASSUME [RTNext]_vars
  PROVE  (\E a \in Threads : Acts(a)) \/ (\E t \in Tasks : AbortSpawned(t)) \/ UNCHANGED vars
<1>1. \A c \in Callers : c \in Threads
  BY RuntimeAssumption DEF Threads
<1>2. \A w \in Wakers : w \in Threads
  BY DEF Threads, Wakers
<1>3. (\A c \in Clients : c \in Threads) /\ (\A e \in Executors : e \in Threads)
  BY DEF Threads
<1>4. QED
  BY <1>1, <1>2, <1>3, Zenon DEF RTNext, Acts

\* The thread a calls register_or_execute_non_blocking_task with t.
Enters(a, t) ==
  \/ a \in Callers /\ (RunBlocking(a, t) \/ HandleSpawn(a, t))
  \/ a \in Wakers /\ WakeOutside(a, t)
  \/ a \in Executors /\ (Spawn(a, t) \/ WakeInside(a, t) \/ (t = running[a] /\ WakeSelf(a)))

\* What an executor does besides.
Forwards(e) ==
  \/ RecvTask(e) \/ Lock(e) \/ LockPoisoned(e) \/ PollNone(e) \/ SignalPanic(e) \/ SignalDeath(e)
  \/ Arm(e) \/ PollPending(e) \/ SendResult(e) \/ PollReady(e) \/ PollPanic(e)

\* What a thread may do.
LEMMA ActsCases ==
  ASSUME RTTypeOK, NEW a \in Threads, Acts(a)
  PROVE  \/ \E t \in Tasks : Enters(a, t)
         \/ a \in Callers /\ CallerStep(a)
         \/ Registering(a)
         \/ a \in Clients /\ ClientOverflow(a)
         \/ a \in Executors /\ (Forwards(a) \/ PollOverflow(a) \/ ExecutorReady(a))
<1>1. a \in Executors => running[a] \in Tasks
  BY TypeParts DEF TMTypeOK
<1>2. a \in Executors /\ WakeSelf(a) => \E t \in Tasks : Enters(a, t)
  BY <1>1, Zenon DEF Enters
<1>3. QED
  BY <1>2, Zenon DEF Acts, Enters, Forwards, ExecutorStep, PollStep

\* A thread is a client or an executor.
LEMMA ThreadKinds == \A th \in Threads : th \in Clients <=> th \notin Executors
BY Bounds DEF Threads

\* Callers and wakers are clients.
LEMMA CallersAreClients ==
  /\ \A c \in Callers : c \in Clients /\ c \in Threads /\ c \notin Executors
  /\ \A w \in Wakers : w \in Clients /\ w \in Threads /\ w \notin Executors
BY RuntimeAssumption, Bounds DEF Threads, Wakers

\* A registration moves its thread from where it may be called to the abort check.
LEMMA EntersIsRegister ==
  ASSUME NEW a \in Threads, NEW t \in Tasks, Enters(a, t)
  PROVE  /\ Register(a, t)
         /\ UNCHANGED <<result, pending, stage, panics, outcome, refused>>
         /\ armed' \subseteq armed /\ armed \subseteq armed' \cup {t}
         /\ arranged \subseteq arranged' /\ arranged' \subseteq arranged \cup ({a} \cap Executors)
         /\ a \in Executors => UNCHANGED <<calls, call, job>>
BY CallersAreClients DEF Enters, RunBlocking, HandleSpawn, WakeOutside, Spawn, WakeInside, WakeSelf, UseWaker

\* The thread u stays where it is.
SameSpot(u) ==
  /\ pc'[u] = pc[u] /\ task'[u] = task[u]
  /\ u \in Executors => /\ running'[u] = running[u] /\ stage'[u] = stage[u]
                        /\ u \in arranged' <=> u \in arranged

\* A step of one thread leaves every other where it is.
LEMMA OthersStay ==
  ASSUME RTTypeOK, NEW a \in Threads, Acts(a), NEW u \in Threads, u # a
  PROVE  SameSpot(u)
<1> USE TypeParts DEF SameSpot, TMTypeOK, FutureTypeOK, Goto
<1>1. ASSUME NEW t \in Tasks, Enters(a, t) PROVE SameSpot(u)
  <2>1. Register(a, t) /\ stage' = stage
    BY <1>1, EntersIsRegister
  <2>2. u \in Executors => (u \in arranged' <=> u \in arranged)
    BY <1>1, EntersIsRegister
  <2>3. QED
    BY <2>1, <2>2 DEF Register
<1>2. CASE a \in Callers /\ CallerStep(a)
  BY <1>2 DEF CallerStep, AwaitResult, GotResult, TaskFailed, ExecutorPanicked, Return, tmvars
<1>3. CASE Registering(a)
  BY <1>3 DEF Registering, RegisterAborted, RegisterLive, PopExecutor, PopNoExecutor, SendTask, PushTask,
              rtvars
<1>4. CASE ClientOverflow(a)
  BY <1>4 DEF ClientOverflow, PushTaskFull
<1>5. CASE a \in Executors /\ Forwards(a)
  <2>4. CASE SendResult(a)
    BY <1>5, <2>4 DEF SendResult, tmvars
  <2>1. CASE RecvTask(a) \/ Lock(a) \/ LockPoisoned(a) \/ PollNone(a)
    BY <1>5, <2>1 DEF RecvTask, Recv, Lock, LockPoisoned, Die, PollNone, RunEnd, tmvars
  <2>2. CASE SignalPanic(a) \/ SignalDeath(a) \/ Arm(a)
    BY <1>5, <2>2 DEF SignalPanic, SignalDeath, Arm, RunEnd, tmvars
  <2>3. CASE PollPending(a)
    BY <1>5, <2>3 DEF PollPending, RunEnd, tmvars
  <2>6. CASE PollReady(a)
    BY <1>5, <2>6 DEF PollReady, RunEnd, tmvars
  <2>7. CASE PollPanic(a)
    BY <1>5, <2>7 DEF PollPanic, Unwind, RunEnd, tmvars
  <2>5. QED
    BY <1>5, <2>1, <2>2, <2>3, <2>4, <2>6, <2>7 DEF Forwards
<1>6. CASE a \in Executors /\ PollOverflow(a)
  BY <1>6 DEF PollOverflow, Unwind, PushTaskFull
<1>7. CASE a \in Executors /\ ExecutorReady(a)
  BY <1>7 DEF ExecutorReady, ExecutorReadyStep, ReadyPop, ReadyNone, SkipAborted, KeepTask, SendSelf, Park,
              rtvars
<1>8. QED
  BY <1>1, <1>2, <1>3, <1>4, <1>5, <1>6, <1>7, ActsCases

\* How the future and the result of a task may change.
Creates(a, t) ==
  Enters(a, t) /\ future[t] = "new" /\ future'[t] = "some" /\ result'[t] = result[t]

EndsPoll(a, t) ==
  /\ a \in Executors /\ HasLock(a) /\ running[a] = t /\ future[t] = "some"
  /\ \/ stage[a] = "poll" /\ stage'[a] = "sent" /\ future'[t] = "some" /\ result'[t] = "sent"
     \/ stage[a] = "sent" /\ PollReady(a) /\ stage'[a] = "out" /\ future'[t] = "none"
        /\ result'[t] = result[t]
     \/ stage[a] = "poll" /\ stage'[a] = "signal" /\ future'[t] = "poisoned" /\ result'[t] = "dropped"

\* A future and its result change only when it is created or its last poll ends.
LEMMA FutureSteps ==
  ASSUME RTTypeOK, StageAgrees, NEW a \in Threads, Acts(a), NEW t \in Tasks
  PROVE  \/ future'[t] = future[t] /\ result'[t] = result[t]
         \/ Creates(a, t) \/ EndsPoll(a, t)
<1> DEFINE Goal == \/ future'[t] = future[t] /\ result'[t] = result[t]
                   \/ Creates(a, t) \/ EndsPoll(a, t)
<1> USE TypeParts DEF TMTypeOK, FutureTypeOK
<1>1. ASSUME NEW u \in Tasks, Enters(a, u) PROVE Goal
  <2>1. result' = result
    BY <1>1, EntersIsRegister
  <2>2. future' = future \/ (future[u] = "new" /\ future' = [future EXCEPT ![u] = "some"])
    BY <1>1 DEF Enters, RunBlocking, HandleSpawn, WakeOutside, Spawn, WakeInside, WakeSelf
  <2>3. QED
    BY <1>1, <2>1, <2>2 DEF Creates
<1>2. CASE a \in Callers /\ CallerStep(a)
  BY <1>2 DEF CallerStep, AwaitResult, GotResult, TaskFailed, ExecutorPanicked, Return
<1>3. CASE Registering(a)
  BY <1>3 DEF Registering, rtvars
<1>4. CASE a \in Clients /\ ClientOverflow(a)
  BY <1>4 DEF ClientOverflow
<1>5. CASE a \in Executors /\ Forwards(a)
  <2>1. CASE RecvTask(a) \/ Lock(a) \/ LockPoisoned(a) \/ PollNone(a)
    BY <2>1 DEF RecvTask, Lock, LockPoisoned, PollNone
  <2>2. CASE SignalPanic(a) \/ SignalDeath(a) \/ Arm(a) \/ PollPending(a)
    BY <2>2 DEF SignalPanic, SignalDeath, Arm, PollPending
  <2>3. CASE SendResult(a)
    <3>1. /\ stage[a] = "poll" /\ future[running[a]] = "some" /\ stage'[a] = "sent" /\ future' = future
          /\ result'[t] = IF t = running[a] THEN "sent" ELSE result[t]
      BY <1>5, <2>3 DEF SendResult, Polling
    <3>2. QED
      BY <1>5, <3>1 DEF EndsPoll, HasLock
  <2>4. CASE PollReady(a)
    <3>1. /\ stage[a] = "sent" /\ future[running[a]] = "some" /\ stage'[a] = "out"
          /\ future'[t] = IF t = running[a] THEN "none" ELSE future[t]
          /\ result' = result
      BY <1>5, <2>4 DEF PollReady, StageAgrees
    <3>2. QED
      BY <1>5, <2>4, <3>1 DEF EndsPoll, HasLock
  <2>5. CASE PollPanic(a)
    <3>1. /\ stage[a] = "poll" /\ future[running[a]] = "some" /\ stage'[a] = "signal"
          /\ future'[t] = IF t = running[a] THEN "poisoned" ELSE future[t]
          /\ result'[t] = IF t = running[a] THEN "dropped" ELSE result[t]
      BY <1>5, <2>5 DEF PollPanic, Unwind, Polling
    <3>2. QED
      BY <1>5, <3>1 DEF EndsPoll, HasLock
  <2>6. QED
    BY <1>5, <2>1, <2>2, <2>3, <2>4, <2>5 DEF Forwards
<1>6. CASE a \in Executors /\ PollOverflow(a)
  <2>1. /\ pc[a] = "push" /\ stage'[a] = "signal"
        /\ future'[t] = IF t = running[a] THEN "poisoned" ELSE future[t]
        /\ result'[t] = IF t = running[a] THEN "dropped" ELSE result[t]
    BY <1>6 DEF PollOverflow, PushTaskFull, Unwind, Goto
  <2>2. stage[a] = "poll" /\ future[running[a]] = "some"
    BY <1>6, <2>1 DEF StageAgrees, RegisterPC
  <2>3. QED
    BY <1>6, <2>1, <2>2 DEF EndsPoll, HasLock
<1>7. CASE a \in Executors /\ ExecutorReady(a)
  BY <1>7 DEF ExecutorReady, rtvars
<1>8. QED
  BY <1>1, <1>2, <1>3, <1>4, <1>5, <1>6, <1>7, ActsCases

\* The registrations after a step were under way before it, or are the one that begins.
LEMMA RegisterSteps ==
  ASSUME RTTypeOK, StageAgrees, NEW a \in Threads, Acts(a), pc'[a] \in RegisterPC
  PROVE  \/ /\ pc[a] \in RegisterPC /\ task'[a] = task[a]
            /\ a \in Executors => running'[a] = running[a] /\ stage'[a] = stage[a]
         \/ \E t \in Tasks : Enters(a, t)
<1> USE TypeParts DEF TMTypeOK, FutureTypeOK, RegisterPC, Goto
<1>1. CASE a \in Callers /\ CallerStep(a)
  BY <1>1 DEF CallerStep, AwaitResult, GotResult, TaskFailed, ExecutorPanicked, Return, tmvars
<1>2. CASE Registering(a)
  BY <1>2 DEF Registering, RegisterAborted, RegisterLive, PopExecutor, PopNoExecutor, SendTask, PushTask,
              rtvars
<1>3. CASE ClientOverflow(a)
  BY <1>3 DEF ClientOverflow, PushTaskFull
<1>4. CASE a \in Executors /\ Forwards(a)
  <2>1. CASE RecvTask(a) \/ LockPoisoned(a) \/ PollNone(a) \/ SignalPanic(a)
    BY <1>4, <2>1 DEF RecvTask, Recv, LockPoisoned, Die, PollNone, SignalPanic, RunEnd
  <2>2. CASE Lock(a)
    BY <1>4, <2>2 DEF Lock, tmvars, StageAgrees
  <2>3. CASE SignalDeath(a) \/ Arm(a) \/ PollPanic(a) \/ SendResult(a)
    BY <1>4, <2>3 DEF SignalDeath, Arm, PollPanic, SendResult, tmvars
  <2>4. CASE PollPending(a) \/ PollReady(a)
    BY <1>4, <2>4 DEF PollPending, PollReady, RunEnd
  <2>5. QED
    BY <1>4, <2>1, <2>2, <2>3, <2>4 DEF Forwards
<1>5. CASE a \in Executors /\ PollOverflow(a)
  BY <1>5 DEF PollOverflow, PushTaskFull
<1>6. CASE a \in Executors /\ ExecutorReady(a)
  BY <1>6 DEF ExecutorReady, ExecutorReadyStep, ReadyPop, ReadyNone, SkipAborted, KeepTask, SendSelf, Park
<1>7. QED
  BY <1>1, <1>2, <1>3, <1>4, <1>5, <1>6, ActsCases

\* What a thread may register: a task it creates, one an outside waker holds, or the
\* one it polls.
LEMMA EntersWhat ==
  ASSUME RTTypeOK, NEW a \in Threads, NEW t \in Tasks, Enters(a, t)
  PROVE  /\ a \in Executors => stage[a] = "poll" /\ future[running[a]] = "some"
         /\ \/ future[t] = "new" /\ future'[t] = "some"
            \/ t \in armed /\ UNCHANGED <<future, spawned, job>>
            \/ a \in Executors /\ running[a] = t /\ UNCHANGED <<future, spawned, job>>
<1> USE TypeParts, CallersAreClients DEF FutureTypeOK
<1>1. CASE a \in Callers /\ (RunBlocking(a, t) \/ HandleSpawn(a, t))
  BY <1>1 DEF RunBlocking, HandleSpawn
<1>2. CASE a \in Wakers /\ WakeOutside(a, t)
  BY <1>2 DEF WakeOutside
<1>3. CASE a \in Executors /\ Spawn(a, t)
  BY <1>3 DEF Spawn, Polling
<1>4. CASE a \in Executors /\ WakeInside(a, t)
  BY <1>4 DEF WakeInside, Polling
<1>5. CASE a \in Executors /\ t = running[a] /\ WakeSelf(a)
  BY <1>5 DEF WakeSelf, Polling
<1>6. QED
  BY <1>1, <1>2, <1>3, <1>4, <1>5 DEF Enters

\* A sequence of tasks after Append and Tail.
LEMMA AppendElements ==
  ASSUME NEW s \in Seq(Tasks), NEW x \in Tasks
  PROVE  /\ Append(s, x) \in Seq(Tasks) /\ Len(Append(s, x)) = Len(s) + 1
         /\ \A i \in 1 .. Len(s) : Append(s, x)[i] = s[i]
         /\ Append(s, x)[Len(s) + 1] = x
BY AppendProperties

\* What Head and Tail are of a queue of tasks.
LEMMA TailElements ==
  ASSUME NEW s \in Seq(Tasks), s # <<>>
  PROVE  /\ Head(s) = s[1] /\ Len(s) >= 1 /\ Head(s) \in Tasks
         /\ Tail(s) \in Seq(Tasks) /\ Len(Tail(s)) = Len(s) - 1
         /\ \A i \in 1 .. Len(Tail(s)) : Tail(s)[i] = s[i + 1]
BY HeadTailProperties

\* A task that nothing leads to stays so until its registration ends.
LEMMA UntouchedKept ==
  ASSUME RTTypeOK, StageAgrees, NEW a \in Threads, Acts(a), NEW t \in Tasks, Untouched(t),
         pc[a] \in RegisterPC /\ pc'[a] \notin RegisterPC => task[a] # t
  PROVE  Untouched(t)'
<1> USE TypeParts DEF TMTypeOK, FutureTypeOK
<1>o. \A u \in Threads \ {a} : SameSpot(u)
  BY OthersStay
<1>e. \A e \in Executors : e \in Threads
  BY DEF Threads
<1>1. ASSUME NEW u \in Tasks, Enters(a, u) PROVE Untouched(t)'
  <2>1. Register(a, u) /\ stage' = stage /\ armed' \subseteq armed
    BY <1>1, EntersIsRegister
  <2>2. UNCHANGED <<waiting_tasks, ready_queue, running>> /\ pc'[a] = "check"
    BY <2>1 DEF Register, Goto
  <2>3. QED
    BY <1>o, <1>e, <2>1, <2>2 DEF Untouched, SameSpot
<1>2. CASE a \in Callers /\ CallerStep(a)
  <2>1. UNCHANGED <<armed, stage, waiting_tasks, ready_queue, running, pc, task>>
    BY <1>2 DEF CallerStep, AwaitResult, GotResult, TaskFailed, ExecutorPanicked, Return, tmvars
  <2>2. QED
    BY <2>1 DEF Untouched
<1>3. CASE Registering(a)
  <2>0. UNCHANGED <<armed, stage, running>> /\ pc'[a] \notin {"screen", "resend"}
    BY <1>3 DEF Registering, RegisterAborted, RegisterLive, PopExecutor, PopNoExecutor, SendTask, PushTask,
                rtvars, Goto, Home
  <2>1. CASE UNCHANGED <<waiting_tasks, ready_queue>>
    BY <1>o, <1>e, <2>0, <2>1 DEF Untouched, SameSpot
  <2>2. CASE SendTask(a)
    <3>1. task[a] # t /\ UNCHANGED waiting_tasks
      BY <2>2 DEF SendTask, Goto, Home, RegisterPC
    <3>2. /\ target[a] \in Executors /\ task[a] \in Tasks
          /\ ready_queue' = [ready_queue EXCEPT ![target[a]] = Append(@, task[a])]
      BY <2>2 DEF SendTask
    <3>3. \A e \in Executors : \A i \in 1 .. Len(ready_queue'[e]) : ready_queue'[e][i] # t
      <4> TAKE e \in Executors
      <4> TAKE i \in 1 .. Len(ready_queue'[e])
      <4>1. CASE e = target[a]
        <5>1. ready_queue'[e] = Append(ready_queue[e], task[a]) /\ ready_queue[e] \in Seq(Tasks)
          BY <3>2, <4>1
        <5>2. QED
          BY <3>1, <3>2, <5>1, AppendElements, SMTT(20) DEF Untouched
      <4>2. CASE e # target[a]
        BY <3>2, <4>2 DEF Untouched
      <4>3. QED
        BY <4>1, <4>2
    <3>4. QED
      BY <1>o, <1>e, <2>0, <3>1, <3>3 DEF Untouched, SameSpot
  <2>3. CASE PushTask(a)
    <3>1. task[a] # t /\ UNCHANGED ready_queue
      BY <2>3 DEF PushTask, Goto, Home, RegisterPC
    <3>2. waiting_tasks' = Append(waiting_tasks, task[a]) /\ task[a] \in Tasks
      BY <2>3 DEF PushTask
    <3>3. \A i \in 1 .. Len(waiting_tasks') : waiting_tasks'[i] # t
      BY <3>1, <3>2, AppendElements DEF Untouched
    <3>4. QED
      BY <1>o, <1>e, <2>0, <3>1, <3>3 DEF Untouched, SameSpot
  <2>4. QED
    BY <1>3, <2>1, <2>2, <2>3
       DEF Registering, RegisterAborted, RegisterLive, PopExecutor, PopNoExecutor
<1>4. CASE ClientOverflow(a)
  <2>1. UNCHANGED <<armed, stage, waiting_tasks, ready_queue, running>> /\ pc'[a] \notin {"screen", "resend"}
    BY <1>4 DEF ClientOverflow, PushTaskFull, Goto
  <2>2. QED
    BY <1>o, <1>e, <2>1 DEF Untouched, SameSpot
<1>5. CASE a \in Executors /\ Forwards(a)
  <2>1. CASE RecvTask(a)
    <3>1. /\ pc'[a] = "run" /\ running'[a] = Head(ready_queue[a]) /\ ready_queue[a] # <<>>
          /\ ready_queue' = [ready_queue EXCEPT ![a] = Tail(@)]
          /\ UNCHANGED <<armed, waiting_tasks>>
      BY <1>5, <2>1 DEF RecvTask, Recv, Goto
    <3>2. running'[a] # t
      <4>1. PICK q \in Seq(Tasks) : q = ready_queue[a] /\ q # <<>>
        BY <1>5, <3>1
      <4>2. Head(q) = q[1] /\ 1 \in 1 .. Len(q)
        BY <4>1, TailElements
      <4>3. QED
        BY <1>5, <3>1, <4>1, <4>2 DEF Untouched
    <3>3. \A e \in Executors : \A i \in 1 .. Len(ready_queue'[e]) : ready_queue'[e][i] # t
      <4>1. PICK q \in Seq(Tasks) : q = ready_queue[a] /\ q # <<>>
        BY <1>5, <3>1
      <4>2. ready_queue'[a] = Tail(q) /\ \A e \in Executors : e # a => ready_queue'[e] = ready_queue[e]
        BY <1>5, <3>1, <4>1
      <4>3. \A i \in 1 .. Len(Tail(q)) : Tail(q)[i] = q[i + 1] /\ i + 1 \in 1 .. Len(q)
        <5>1. Len(q) \in Nat /\ Len(Tail(q)) = Len(q) - 1 /\ \A i \in 1 .. Len(Tail(q)) : Tail(q)[i] = q[i + 1]
          BY <4>1, TailElements
        <5>2. QED
          BY <5>1
      <4>4. \A i \in 1 .. Len(q) : q[i] # t
        BY <1>5, <4>1 DEF Untouched
      <4>5. \A i \in 1 .. Len(ready_queue'[a]) : ready_queue'[a][i] # t
        BY <4>2, <4>3, <4>4
      <4>6. QED
        BY <4>2, <4>5 DEF Untouched
    <3>4. \A e \in Executors : e # a => pc'[e] = pc[e] /\ task'[e] = task[e] /\ running'[e] = running[e]
                                       /\ stage'[e] = stage[e]
      BY <1>o, <1>e DEF SameSpot
    <3>5. \A e \in Executors : stage'[e] # "out" => running'[e] # t
      BY <3>2, <3>4 DEF Untouched
    <3>6. \A e \in Executors : pc'[e] \in {"screen", "resend"} => task'[e] # t
      BY <3>1, <3>4 DEF Untouched
    <3>7. QED
      BY <3>1, <3>3, <3>5, <3>6 DEF Untouched
  <2>2. CASE ~RecvTask(a)
    <3>1. UNCHANGED <<waiting_tasks, ready_queue, running>>
      BY <1>5, <2>2 DEF Forwards, Lock, LockPoisoned, Die, PollNone, SignalPanic, SignalDeath, Arm, PollPending,
                        SendResult, PollReady, PollPanic, RunEnd, tmvars
    <3>2. stage[a] # "out"
      BY <1>5, <2>2 DEF Forwards, Lock, LockPoisoned, PollNone, SignalPanic, SignalDeath, Arm, PollPending,
                        SendResult, PollReady, PollPanic, Polling
    <3>3. armed' \subseteq armed \cup {running[a]}
      BY <1>5, <2>2 DEF Forwards, Lock, LockPoisoned, PollNone, SignalPanic, SignalDeath, Arm, PollPending,
                        SendResult, PollReady, PollPanic, Unwind
    <3>4. pc'[a] \notin {"screen", "resend"}
      <4>1. pc[a] \in {"run", "dead"} \cup RegisterPC
        BY <1>5, <3>2 DEF StageAgrees
      <4>2. pc'[a] = pc[a] \/ pc'[a] \in {"ready", "dead"}
        BY <1>5, <2>2 DEF Forwards, Lock, LockPoisoned, Die, PollNone, SignalPanic, SignalDeath, Arm, PollPending,
                          SendResult, PollReady, PollPanic, RunEnd, Goto, tmvars
      <4>3. QED
        BY <4>1, <4>2 DEF RegisterPC
    <3>5. QED
      BY <1>o, <1>e, <1>5, <3>1, <3>2, <3>3, <3>4 DEF Untouched, SameSpot
  <2>3. QED
    BY <2>1, <2>2
<1>6. CASE a \in Executors /\ PollOverflow(a)
  <2>1. UNCHANGED <<armed, waiting_tasks, ready_queue, running>> /\ pc'[a] = "run" /\ pc[a] = "push"
    BY <1>6 DEF PollOverflow, PushTaskFull, Unwind, Goto
  <2>2. stage[a] # "out"
    BY <1>6, <2>1 DEF StageAgrees, RegisterPC
  <2>3. QED
    BY <1>o, <1>e, <1>6, <2>1, <2>2 DEF Untouched, SameSpot
<1>7. CASE a \in Executors /\ ExecutorReady(a)
  <2>0. UNCHANGED <<armed, stage, running>>
    BY <1>7 DEF ExecutorReady, rtvars, ExecutorReadyStep, ReadyPop, ReadyNone, SkipAborted, KeepTask, SendSelf, Park
  <2>1. CASE ReadyPop(a)
    <3>1. /\ pc'[a] = "screen" /\ task'[a] = Head(waiting_tasks) /\ waiting_tasks # <<>>
          /\ waiting_tasks' = Tail(waiting_tasks) /\ UNCHANGED ready_queue
      BY <1>7, <2>1 DEF ReadyPop, Goto
    <3>2. task'[a] # t /\ \A i \in 1 .. Len(waiting_tasks') : waiting_tasks'[i] # t
      BY <3>1, TailElements DEF Untouched
    <3>3. QED
      BY <1>o, <1>e, <1>7, <2>0, <3>1, <3>2 DEF Untouched, SameSpot
  <2>2. CASE SendSelf(a)
    <3>1. /\ pc[a] = "resend" /\ pc'[a] = "recv" /\ UNCHANGED <<waiting_tasks, task>>
          /\ ready_queue' = [ready_queue EXCEPT ![a] = Append(@, task[a])]
          /\ task[a] \in Tasks
      BY <1>7, <2>2 DEF SendSelf, Goto
    <3>2. task[a] # t
      BY <1>7, <3>1 DEF Untouched
    <3>3. \A e \in Executors : \A i \in 1 .. Len(ready_queue'[e]) : ready_queue'[e][i] # t
      <4>1. PICK q \in Seq(Tasks), u \in Tasks : q = ready_queue[a] /\ u = task[a]
        BY <1>7, <3>1
      <4>2. ready_queue'[a] = Append(q, u) /\ \A e \in Executors : e # a => ready_queue'[e] = ready_queue[e]
        BY <1>7, <3>1, <4>1
      <4>3. \A i \in 1 .. Len(q) : q[i] # t
        BY <1>7, <4>1 DEF Untouched
      <4>4. \A i \in 1 .. Len(ready_queue'[a]) : ready_queue'[a][i] # t
        BY <3>2, <4>1, <4>2, <4>3, AppendElements, SMTT(20)
      <4>5. QED
        BY <4>2, <4>4 DEF Untouched
    <3>4. QED
      BY <1>o, <1>e, <1>7, <2>0, <3>1, <3>3 DEF Untouched, SameSpot
  <2>3. CASE ReadyNone(a) \/ SkipAborted(a) \/ KeepTask(a) \/ Park(a)
    <3>1. /\ UNCHANGED <<waiting_tasks, ready_queue, task>>
          /\ pc'[a] \in {"screen", "resend"} => pc[a] \in {"screen", "resend"}
      BY <1>7, <2>3 DEF ReadyNone, SkipAborted, KeepTask, Park, Goto
    <3>2. QED
      BY <1>o, <1>e, <1>7, <2>0, <3>1 DEF Untouched, SameSpot
  <2>4. QED
    BY <1>7, <2>1, <2>2, <2>3 DEF ExecutorReady, ExecutorReadyStep
<1>8. QED
  BY <1>1, <1>2, <1>3, <1>4, <1>5, <1>6, <1>7, ActsCases

-----------------------------------------------------------------------------
(* The parts of the invariant, for a step of the thread a. *)

\* The lock of the future is taken only when no other executor has it.
LEMMA PollsAfterLock ==
  ASSUME RTTypeOK, StageAgrees, NEW a \in Executors, Acts(a), HasLock(a)'
  PROVE  running'[a] = running[a] /\ (HasLock(a) \/ LockFree(running[a]))
<1> USE TypeParts DEF TMTypeOK, FutureTypeOK, HasLock
<1>0. a \in Threads /\ a \notin Clients /\ a \notin Callers
  BY ThreadKinds, CallersAreClients DEF Threads
<1>1. ASSUME NEW t \in Tasks, Enters(a, t) PROVE running' = running /\ stage' = stage
  BY <1>0, <1>1, EntersIsRegister DEF Register
<1>2. ASSUME Registering(a) PROVE running' = running /\ stage' = stage
  BY <1>2 DEF Registering, RegisterAborted, RegisterLive, PopExecutor, PopNoExecutor, SendTask, PushTask, rtvars
<1>3. CASE Lock(a)
  BY <1>3 DEF Lock, tmvars
<1>4. CASE Arm(a)
  BY <1>4 DEF Arm, tmvars
<1>9. CASE SendResult(a)
  BY <1>9 DEF SendResult, Polling, tmvars
<1>5. ASSUME Forwards(a), ~Lock(a), ~Arm(a), ~SendResult(a) PROVE ~HasLock(a)'
  BY <1>5 DEF Forwards, RecvTask, LockPoisoned, PollNone, SignalPanic, SignalDeath, PollPending,
              PollReady, PollPanic, Unwind
<1>6. ASSUME PollOverflow(a) PROVE ~HasLock(a)'
  BY <1>6 DEF PollOverflow, Unwind
<1>7. ASSUME ExecutorReady(a) PROVE running' = running /\ stage' = stage
  BY <1>7 DEF ExecutorReady, ExecutorReadyStep, ReadyPop, ReadyNone, SkipAborted, KeepTask, SendSelf, Park, rtvars
<1>8. QED
  BY <1>0, <1>1, <1>2, <1>3, <1>4, <1>5, <1>6, <1>7, <1>9, ActsCases

\* The mutex keeps a second executor out.
LEMMA OnePollStep ==
  ASSUME RTTypeOK, StageAgrees, OnePoll, NEW a \in Threads, Acts(a)
  PROVE  OnePoll'
<1> SUFFICES ASSUME NEW e \in Executors, NEW f \in Executors, HasLock(e)', HasLock(f)',
                    running'[e] = running'[f], e # f
             PROVE  FALSE
  BY DEF OnePoll
<1>0. e \in Threads /\ f \in Threads
  BY DEF Threads
<1>1. ASSUME NEW x \in Executors, NEW y \in Executors, x # y, x = a,
             HasLock(x)', HasLock(y)', running'[x] = running'[y]
      PROVE  FALSE
  <2>1. y \in Threads /\ SameSpot(y)
    BY <1>1, OthersStay DEF Threads
  <2>2. HasLock(y) /\ running'[y] = running[y]
    BY <1>1, <2>1 DEF SameSpot, HasLock
  <2>3. running'[x] = running[x] /\ (HasLock(x) \/ LockFree(running[x]))
    BY <1>1, PollsAfterLock DEF HasLock
  <2>4. QED
    BY <1>1, <2>2, <2>3 DEF OnePoll, LockFree, HasLock
<1>2. CASE e # a /\ f # a
  BY <1>0, <1>2, OthersStay DEF OnePoll, SameSpot, HasLock
<1>3. QED
  BY <1>1, <1>2

\* A future that is being polled changes only by the end of that poll.
LEMMA PolledFutureKept ==
  ASSUME RTTypeOK, StageAgrees, OnePoll, NEW a \in Threads, Acts(a),
         NEW e \in Executors, HasLock(e), HasLock(e)', future[running[e]] = "some"
  PROVE  /\ future'[running[e]] = "some"
         /\ stage[e] = "sent" => result'[running[e]] = result[running[e]]
<1>0. running[e] \in Tasks /\ e \in Threads
  BY TypeParts DEF TMTypeOK, Threads
<1>1. ~Creates(a, running[e])
  BY DEF Creates
<1>2. CASE EndsPoll(a, running[e])
  <2>1. a = e
    BY <1>2 DEF EndsPoll, OnePoll
  <2>2. QED
    BY <1>2, <2>1 DEF EndsPoll, HasLock
<1>3. CASE future'[running[e]] = future[running[e]] /\ result'[running[e]] = result[running[e]]
  BY <1>3
<1>4. QED
  BY <1>0, <1>1, <1>2, <1>3, FutureSteps

\* stage and pc of the executor that acts still agree.
LEMMA StageAgreesActor ==
  ASSUME RTTypeOK, StageAgrees, NEW a \in Executors, Acts(a)
  PROVE  /\ stage'[a] = "out" => pc'[a] \notin {"run"} \cup RegisterPC
         /\ stage'[a] = "lock" => pc'[a] = "run"
         /\ stage'[a] = "poll" => pc'[a] \in {"run"} \cup RegisterPC
         /\ stage'[a] = "sent" => /\ pc'[a] = "run" /\ stage[a] = "poll" /\ running'[a] = running[a]
                                 /\ future[running[a]] = "some" /\ result'[running[a]] = "sent"
         /\ stage'[a] = "signal" => pc'[a] \in {"run", "dead"}
         /\ pc'[a] \in RegisterPC => stage[a] = "poll" /\ stage'[a] = "poll" /\ running'[a] = running[a]
<1> USE TypeParts DEF TMTypeOK, FutureTypeOK
<1>0. a \in Threads /\ a \notin Clients /\ a \notin Callers
  BY ThreadKinds, CallersAreClients DEF Threads
<1> DEFINE Goal ==
         /\ stage'[a] = "out" => pc'[a] \notin {"run"} \cup RegisterPC
         /\ stage'[a] = "lock" => pc'[a] = "run"
         /\ stage'[a] = "poll" => pc'[a] \in {"run"} \cup RegisterPC
         /\ stage'[a] = "sent" => /\ pc'[a] = "run" /\ stage[a] = "poll" /\ running'[a] = running[a]
                                 /\ future[running[a]] = "some" /\ result'[running[a]] = "sent"
         /\ stage'[a] = "signal" => pc'[a] \in {"run", "dead"}
         /\ pc'[a] \in RegisterPC => stage[a] = "poll" /\ stage'[a] = "poll" /\ running'[a] = running[a]
<1>1. ASSUME NEW t \in Tasks, Enters(a, t) PROVE Goal
  <2>1. stage[a] = "poll" /\ stage' = stage /\ running' = running /\ pc'[a] = "check"
    BY <1>0, <1>1, EntersIsRegister, EntersWhat DEF Register, Goto
  <2>2. QED
    BY <2>1 DEF RegisterPC
<1>2. CASE Registering(a)
  <2>1. /\ pc[a] \in RegisterPC /\ pc'[a] \in {"run"} \cup RegisterPC
        /\ stage' = stage /\ running' = running
    BY <1>0, <1>2 DEF Registering, RegisterAborted, RegisterLive, PopExecutor, PopNoExecutor, SendTask,
                      PushTask, rtvars, Goto, Home, RegisterPC
  <2>2. stage[a] = "poll"
    BY <2>1 DEF StageAgrees, RegisterPC
  <2>3. QED
    BY <2>1, <2>2
<1>3. CASE RecvTask(a)
  BY <1>0, <1>3 DEF RecvTask, Recv, Goto, RegisterPC
<1>4. CASE Lock(a)
  BY <1>4 DEF Lock, tmvars, StageAgrees, RegisterPC
<1>5. CASE LockPoisoned(a)
  BY <1>5 DEF LockPoisoned, Die, Goto, RegisterPC
<1>6. CASE PollNone(a) \/ SignalPanic(a) \/ PollPending(a) \/ PollReady(a)
  BY <1>0, <1>6 DEF PollNone, SignalPanic, PollPending, PollReady, RunEnd, Goto, RegisterPC
<1>7. CASE SignalDeath(a)
  BY <1>7 DEF SignalDeath, tmvars, RegisterPC
<1>8. CASE Arm(a)
  BY <1>8 DEF Arm, Polling, tmvars, RegisterPC
<1>13. CASE SendResult(a)
  <2>1. running[a] \in Tasks /\ running' = running
    BY <1>13 DEF SendResult, tmvars
  <2>2. QED
    BY <1>13, <2>1 DEF SendResult, Polling, tmvars, RegisterPC
<1>9. CASE PollPanic(a)
  BY <1>9 DEF PollPanic, Unwind, tmvars, RegisterPC
<1>10. CASE PollOverflow(a)
  BY <1>0, <1>10 DEF PollOverflow, Unwind, PushTaskFull, Goto, RegisterPC
<1>11. CASE ExecutorReady(a)
  <2>1. /\ pc[a] \in {"ready", "screen", "resend", "park"}
        /\ pc'[a] \in {"ready", "screen", "resend", "park", "recv"} /\ stage' = stage
    BY <1>0, <1>11 DEF ExecutorReady, ExecutorReadyStep, ReadyPop, ReadyNone, SkipAborted, KeepTask, SendSelf,
                 Park, rtvars, Goto
  <2>2. stage[a] = "out"
    BY <2>1 DEF StageAgrees, RegisterPC
  <2>3. QED
    BY <2>1, <2>2 DEF RegisterPC
<1>12. QED
  BY <1>0, <1>1, <1>2, <1>3, <1>4, <1>5, <1>6, <1>7, <1>8, <1>9, <1>10, <1>11, <1>13, ActsCases DEF Forwards

\* So do those of all others.
LEMMA StageAgreesStep ==
  ASSUME RTTypeOK, StageAgrees, OnePoll, NEW a \in Threads, Acts(a)
  PROVE  StageAgrees'
<1> SUFFICES ASSUME NEW e \in Executors
             PROVE  /\ stage'[e] = "out" => pc'[e] \notin {"run"} \cup RegisterPC
                    /\ stage'[e] = "lock" => pc'[e] = "run"
                    /\ stage'[e] = "poll" => pc'[e] \in {"run"} \cup RegisterPC
                    /\ stage'[e] = "sent" => /\ pc'[e] = "run" /\ future'[running'[e]] = "some"
                                            /\ result'[running'[e]] = "sent"
                    /\ stage'[e] = "signal" => pc'[e] \in {"run", "dead"}
                    /\ pc'[e] \in RegisterPC => future'[running'[e]] = "some"
  BY DEF StageAgrees, RegisterPC
<1>0. e \in Threads
  BY DEF Threads
<1>1. CASE e = a
  <2>1. ASSUME pc'[e] \in RegisterPC PROVE future[running[e]] = "some"
    <3>1. pc[e] \in RegisterPC \/ \E t \in Tasks : Enters(a, t)
      BY <1>0, <1>1, <2>1, RegisterSteps
    <3>2. QED
      BY <1>0, <1>1, <3>1, EntersWhat DEF StageAgrees
  <2>2. QED
    BY <1>1, <2>1, StageAgreesActor, PolledFutureKept DEF HasLock
<1>2. CASE e # a
  <2>1. SameSpot(e)
    BY <1>0, <1>2, OthersStay
  <2>2. pc[e] \in RegisterPC => stage[e] = "poll" /\ future[running[e]] = "some"
    <3>1. stage[e] \in {"out", "lock", "poll", "sent", "signal"}
      BY TypeParts DEF FutureTypeOK
    <3>2. QED
      BY <3>1 DEF StageAgrees, RegisterPC
  <2>3. stage[e] = "sent" => future[running[e]] = "some" /\ result[running[e]] = "sent"
    BY DEF StageAgrees
  <2>4. HasLock(e) => HasLock(e)'
    BY <2>1 DEF SameSpot, HasLock
  <2>5. QED
    BY <2>1, <2>2, <2>3, <2>4, PolledFutureKept DEF SameSpot, StageAgrees, HasLock
<1>3. QED
  BY <1>1, <1>2

\* Only a spawn extends spawned, with a task it creates; only run_blocking sets job.
LEMMA SpawnSteps ==
  ASSUME RTTypeOK, NEW a \in Threads, Acts(a)
  PROVE  \/ spawned' = spawned /\ job' = job
         \/ \E t \in Tasks : /\ Creates(a, t) /\ spawned' = spawned \cup {t} /\ job' = job
         \/ \E t \in Tasks : /\ Creates(a, t) /\ spawned' = spawned
                             /\ a \in Callers /\ job' = [job EXCEPT ![a] = t]
<1> DEFINE Goal ==
         \/ spawned' = spawned /\ job' = job
         \/ \E t \in Tasks : /\ Creates(a, t) /\ spawned' = spawned \cup {t} /\ job' = job
         \/ \E t \in Tasks : /\ Creates(a, t) /\ spawned' = spawned
                             /\ a \in Callers /\ job' = [job EXCEPT ![a] = t]
<1> USE TypeParts DEF FutureTypeOK
<1>1. ASSUME NEW t \in Tasks, Enters(a, t) PROVE Goal
  <2>1. CASE a \in Callers /\ RunBlocking(a, t)
    <3>1. /\ future[t] = "new" /\ future'[t] = "some" /\ result' = result /\ spawned' = spawned
          /\ job' = [job EXCEPT ![a] = t]
      BY <2>1 DEF RunBlocking
    <3>2. QED
      BY <1>1, <2>1, <3>1 DEF Creates
  <2>2. CASE (a \in Callers /\ HandleSpawn(a, t)) \/ (a \in Executors /\ Spawn(a, t))
    <3>1. /\ future[t] = "new" /\ future'[t] = "some" /\ result' = result
          /\ spawned' = spawned \cup {t} /\ job' = job
      BY <2>2 DEF HandleSpawn, Spawn
    <3>2. QED
      BY <1>1, <3>1 DEF Creates
  <2>3. CASE WakeOutside(a, t) \/ WakeInside(a, t) \/ WakeSelf(a)
    BY <2>3 DEF WakeOutside, WakeInside, WakeSelf
  <2>4. QED
    BY <1>1, <2>1, <2>2, <2>3 DEF Enters
<1>2. CASE a \in Callers /\ CallerStep(a)
  BY <1>2 DEF CallerStep, AwaitResult, GotResult, TaskFailed, ExecutorPanicked, Return
<1>3. CASE Registering(a) \/ ExecutorReady(a)
  BY <1>3 DEF Registering, ExecutorReady, rtvars
<1>4. CASE ClientOverflow(a)
  BY <1>4 DEF ClientOverflow
<1>5. CASE Forwards(a)
  BY <1>5 DEF Forwards, RecvTask, Lock, LockPoisoned, PollNone, SignalPanic, SignalDeath, Arm, PollPending,
              SendResult, PollReady, PollPanic, Unwind
<1>6. CASE PollOverflow(a)
  BY <1>6 DEF PollOverflow, Unwind
<1>7. QED
  BY <1>1, <1>2, <1>3, <1>4, <1>5, <1>6, ActsCases

\* A waker that is used up has put its task on its way.
LEMMA ArmedKept ==
  ASSUME RTTypeOK, NEW a \in Threads, Acts(a), NEW t \in armed
  PROVE  t \in armed' \/ Enters(a, t)
<1>1. ASSUME NEW u \in Tasks, Enters(a, u) PROVE armed \subseteq armed' \cup {u}
  BY <1>1, EntersIsRegister
<1>2. ASSUME CallerStep(a) PROVE armed' = armed
  BY <1>2 DEF CallerStep, AwaitResult, GotResult, TaskFailed, ExecutorPanicked, Return
<1>3. ASSUME Registering(a) \/ ExecutorReady(a) PROVE armed' = armed
  BY <1>3 DEF Registering, ExecutorReady, rtvars
<1>4. ASSUME ClientOverflow(a) \/ PollOverflow(a) PROVE armed' = armed
  BY <1>4 DEF ClientOverflow, PollOverflow, Unwind
<1>5. ASSUME Forwards(a) PROVE armed \subseteq armed'
  BY <1>5 DEF Forwards, RecvTask, Lock, LockPoisoned, PollNone, SignalPanic, SignalDeath, Arm, PollPending,
              SendResult, PollReady, PollPanic, Unwind
<1>6. QED
  BY <1>1, <1>2, <1>3, <1>4, <1>5, ActsCases

\* A refusal is remembered.
LEMMA RefusedGrows ==
  ASSUME RTTypeOK, NEW a \in Threads, Acts(a)
  PROVE  refused \subseteq refused'
<1>1. ASSUME NEW u \in Tasks, Enters(a, u) PROVE refused' = refused
  BY <1>1, EntersIsRegister
<1>2. ASSUME CallerStep(a) PROVE refused' = refused
  BY <1>2 DEF CallerStep, AwaitResult, GotResult, TaskFailed, ExecutorPanicked, Return
<1>3. ASSUME Registering(a) \/ ExecutorReady(a) PROVE refused' = refused
  BY <1>3 DEF Registering, ExecutorReady, rtvars
<1>4. ASSUME ClientOverflow(a) \/ PollOverflow(a) PROVE refused \subseteq refused'
  BY <1>4 DEF ClientOverflow, PollOverflow
<1>5. ASSUME Forwards(a) PROVE refused' = refused
  BY <1>5 DEF Forwards, RecvTask, Lock, LockPoisoned, PollNone, SignalPanic, SignalDeath, Arm, PollPending,
              SendResult, PollReady, PollPanic, Unwind
<1>6. QED
  BY <1>1, <1>2, <1>3, <1>4, <1>5, ActsCases

\* A task that is not new never becomes new; a live one was live or is being created.
LEMMA FutureBefore ==
  ASSUME RTTypeOK, StageAgrees, NEW a \in Threads, Acts(a), NEW t \in Tasks
  PROVE  /\ future'[t] = "new" => future[t] = "new"
         /\ future'[t] = "some" => future[t] = "some" \/ Creates(a, t)
BY FutureSteps DEF Creates, EndsPoll

\* A task reaches a queue only after it was created.
LEMMA NewUntouchedStep ==
  ASSUME RTTypeOK, StageAgrees, NewUntouched, NEW a \in Threads, Acts(a)
  PROVE  NewUntouched'
<1> SUFFICES ASSUME NEW t \in Tasks, future'[t] = "new"
             PROVE  /\ Untouched(t)' /\ t \notin spawned'
                    /\ \A th \in Threads : pc'[th] \in RegisterPC => task'[th] # t
                    /\ \A c \in Callers : job'[c] # t
  BY DEF NewUntouched, RegisterPC
<1>1. future[t] = "new"
  BY FutureBefore
<1>2. /\ Untouched(t) /\ t \notin spawned
      /\ \A th \in Threads : pc[th] \in RegisterPC => task[th] # t
      /\ \A c \in Callers : job[c] # t
  BY <1>1 DEF NewUntouched
<1>3. Untouched(t)'
  BY <1>2, UntouchedKept
<1>4. ~Creates(a, t)
  BY DEF Creates
<1>5. t \notin spawned' /\ \A c \in Callers : job'[c] # t
  BY <1>2, <1>4, SpawnSteps, TypeParts DEF CallTypeOK
<1>6. ASSUME NEW th \in Threads, pc'[th] \in RegisterPC PROVE task'[th] # t
  <2>1. CASE th # a
    BY <1>2, <1>6, <2>1, OthersStay DEF SameSpot
  <2>2. CASE th = a
    <3>1. CASE pc[a] \in RegisterPC /\ task'[a] = task[a]
      BY <1>2, <2>2, <3>1
    <3>2. ASSUME NEW u \in Tasks, Enters(a, u) PROVE task'[th] # t
      <4>1. task'[a] = u
        BY <3>2, EntersIsRegister, TypeParts DEF Register, TMTypeOK
      <4>2. u # t
        BY <1>2, <3>2, EntersWhat DEF Untouched
      <4>3. QED
        BY <2>2, <4>1, <4>2
    <3>3. QED
      BY <1>6, <2>2, <3>1, <3>2, RegisterSteps
  <2>3. QED
    BY <2>1, <2>2
<1>7. QED
  BY <1>3, <1>5, <1>6

\* A poll that is about to end its future does so, or goes on.
LEMMA EndingSteps ==
  ASSUME RTTypeOK, StageAgrees, OnePoll, NEW a \in Threads, Acts(a), NEW t \in Tasks, Ending(t)
  PROVE  /\ Ending(t)' \/ (future'[t] = "none" /\ result'[t] = "sent")
         /\ result'[t] = result[t]
         /\ \/ future'[t] = future[t]
            \/ \E e \in Executors : running[e] = t /\ PollReady(e)
<1>0. PICK e \in Executors : stage[e] = "sent" /\ running[e] = t
  BY DEF Ending
<1>1. HasLock(e) /\ future[t] = "some" /\ result[t] = "sent" /\ e \in Threads
  BY <1>0 DEF HasLock, StageAgrees, Threads
<1>2. CASE EndsPoll(a, t)
  <2>1. a = e
    BY <1>0, <1>1, <1>2 DEF EndsPoll, OnePoll
  <2>2. QED
    BY <1>0, <1>1, <1>2, <2>1 DEF EndsPoll
<1>3. CASE future'[t] = future[t] /\ result'[t] = result[t]
  <2>1. CASE a # e
    BY <1>0, <1>1, <1>3, <2>1, OthersStay DEF SameSpot, Ending
  <2>2. CASE a = e
    <3>1. a \notin Callers /\ a \notin Clients /\ pc[a] = "run" /\ running[a] \in Tasks
          /\ future \in [Tasks -> {"new", "some", "none", "poisoned"}]
      BY <1>0, <2>2, CallersAreClients, ThreadKinds, TypeParts DEF StageAgrees, TMTypeOK, FutureTypeOK
    <3>2. \A u \in Tasks : ~Enters(a, u)
      BY <1>0, <2>2, EntersWhat
    <3>3. ~Registering(a) /\ ~PollOverflow(a) /\ ~ExecutorReady(a)
      BY <1>1, <3>1 DEF Registering, RegisterAborted, RegisterLive, PopExecutor, PopNoExecutor, SendTask, PushTask,
                  PollOverflow, PushTaskFull, ExecutorReady, ExecutorReadyStep, ReadyPop, ReadyNone,
                  SkipAborted, KeepTask, SendSelf, Park, Goto
    <3>4. PollReady(a)
      BY <1>0, <1>1, <2>2, <3>1, <3>2, <3>3, ActsCases
         DEF Forwards, RecvTask, Recv, Lock, LockPoisoned, PollNone, SignalPanic, SignalDeath, Arm, PollPending,
             SendResult, PollPanic, Polling, Goto
    <3>5. future'[t] = "none"
      BY <1>0, <2>2, <3>1, <3>4 DEF PollReady
    <3>6. QED
      BY <1>1, <1>3, <3>5
  <2>3. QED
    BY <2>1, <2>2
<1>4. ~Creates(a, t)
  BY <1>1 DEF Creates
<1>5. QED
  BY <1>2, <1>3, <1>4, FutureSteps

\* The result changes only with the future's end.
LEMMA ResultFollowsStep ==
  ASSUME RTTypeOK, StageAgrees, OnePoll, ResultFollows, NEW a \in Threads, Acts(a)
  PROVE  ResultFollows'
<1> SUFFICES ASSUME NEW t \in Tasks
             PROVE  /\ future'[t] = "new" => result'[t] = "open"
                    /\ future'[t] = "some" /\ result'[t] # "open" => Ending(t)'
                    /\ result'[t] = "sent" => future'[t] = "none" \/ Ending(t)'
                    /\ result'[t] = "dropped" => future'[t] = "poisoned"
  BY DEF ResultFollows, Ending
<1>1. CASE Ending(t)
  <2>1. result'[t] = "sent"
    BY <1>1, EndingSteps DEF Ending, StageAgrees
  <2>2. QED
    BY <1>1, <2>1, EndingSteps, FutureBefore DEF Ending, StageAgrees
<1>2. CASE ~Ending(t)
  <2>1. CASE future'[t] = future[t] /\ result'[t] = result[t]
    BY <1>2, <2>1 DEF ResultFollows
  <2>2. CASE Creates(a, t)
    BY <2>2 DEF Creates, ResultFollows
  <2>3. CASE EndsPoll(a, t)
    <3>1. stage[a] # "sent"
      BY <1>2, <2>3 DEF EndsPoll, Ending
    <3>2. CASE stage'[a] = "sent"
      <4>1. running'[a] = t
        BY <2>3, <3>2, PollsAfterLock DEF EndsPoll, HasLock
      <4>2. QED
        BY <2>3, <3>1, <3>2, <4>1 DEF EndsPoll, Ending
    <3>3. CASE stage'[a] # "sent"
      BY <2>3, <3>1, <3>3 DEF EndsPoll
    <3>4. QED
      BY <3>2, <3>3
  <2>4. QED
    BY <2>1, <2>2, <2>3, FutureSteps
<1>3. QED
  BY <1>1, <1>2

\* The steps of a run_blocking call.
LEMMA CallSteps ==
  ASSUME RTTypeOK, NEW a \in Threads, Acts(a), NEW c \in Callers
  PROVE  \/ call'[c] = call[c] /\ outcome'[c] = outcome[c] /\ job'[c] = job[c]
         \/ call'[c] = "register" /\ job'[c] \in Tasks
         \/ /\ call[c] # "out" /\ job'[c] = job[c] /\ UNCHANGED <<future, result>>
            /\ \/ call'[c] = "recv"
               \/ call'[c] = "try_recv" /\ result[job[c]] = "sent"
               \/ /\ call'[c] = "out" /\ outcome'[c] = "task_failed" /\ UNCHANGED tmvars
                  /\ result[job[c]] = "dropped" \/ (future[job[c]] = "some" /\ ~Referenced(job[c]))
               \/ call'[c] = "out" /\ outcome'[c] \in {"ok", "executor_panicked"}
<1> DEFINE Goal ==
         \/ call'[c] = call[c] /\ outcome'[c] = outcome[c] /\ job'[c] = job[c]
         \/ call'[c] = "register" /\ job'[c] \in Tasks
         \/ /\ call[c] # "out" /\ job'[c] = job[c] /\ UNCHANGED <<future, result>>
            /\ \/ call'[c] = "recv"
               \/ call'[c] = "try_recv" /\ result[job[c]] = "sent"
               \/ /\ call'[c] = "out" /\ outcome'[c] = "task_failed" /\ UNCHANGED tmvars
                  /\ result[job[c]] = "dropped" \/ (future[job[c]] = "some" /\ ~Referenced(job[c]))
               \/ call'[c] = "out" /\ outcome'[c] \in {"ok", "executor_panicked"}
<1> USE TypeParts DEF CallTypeOK
<1>1. ASSUME NEW t \in Tasks, Enters(a, t) PROVE Goal
  <2>1. CASE a \in Callers /\ RunBlocking(a, t)
    BY <2>1 DEF RunBlocking
  <2>2. CASE (a \in Callers /\ HandleSpawn(a, t)) \/ (a \in Executors /\ Spawn(a, t))
    BY <2>2 DEF HandleSpawn, Spawn
  <2>3. CASE WakeOutside(a, t) \/ WakeInside(a, t) \/ WakeSelf(a)
    BY <2>3 DEF WakeOutside, WakeInside, WakeSelf
  <2>4. QED
    BY <1>1, <2>1, <2>2, <2>3 DEF Enters
<1>2. CASE a \in Callers /\ CallerStep(a)
  <2>1. CASE AwaitResult(a)
    BY <1>2, <2>1 DEF AwaitResult
  <2>2. CASE GotResult(a)
    BY <1>2, <2>2 DEF GotResult
  <2>3. CASE TaskFailed(a)
    BY <1>2, <2>3 DEF TaskFailed
  <2>4. CASE ExecutorPanicked(a) \/ Return(a)
    BY <1>2, <2>4 DEF ExecutorPanicked, Return
  <2>5. QED
    BY <1>2, <2>1, <2>2, <2>3, <2>4 DEF CallerStep
<1>3. CASE Registering(a) \/ ExecutorReady(a)
  BY <1>3 DEF Registering, ExecutorReady, rtvars
<1>4. CASE ClientOverflow(a) \/ PollOverflow(a)
  BY <1>4 DEF ClientOverflow, PollOverflow, Unwind
<1>5. CASE Forwards(a)
  BY <1>5 DEF Forwards, RecvTask, Lock, LockPoisoned, PollNone, SignalPanic, SignalDeath, Arm, PollPending,
              SendResult, PollReady, PollPanic, Unwind
<1>6. QED
  BY <1>1, <1>2, <1>3, <1>4, <1>5, ActsCases

\* Only abort sets a flag.
LEMMA ActsKeepAbort ==
  ASSUME RTTypeOK, NEW a \in Threads, Acts(a)
  PROVE  abort' = abort
<1>1. ASSUME NEW u \in Tasks, Enters(a, u) PROVE abort' = abort
  BY <1>1, EntersIsRegister DEF Register
<1>2. ASSUME CallerStep(a) PROVE abort' = abort
  BY <1>2 DEF CallerStep, AwaitResult, GotResult, TaskFailed, ExecutorPanicked, Return, tmvars
<1>3. ASSUME Registering(a) PROVE abort' = abort
  BY <1>3 DEF Registering, RegisterAborted, RegisterLive, PopExecutor, PopNoExecutor, SendTask, PushTask
<1>4. ASSUME ClientOverflow(a) \/ PollOverflow(a) PROVE abort' = abort
  BY <1>4 DEF ClientOverflow, PollOverflow, PushTaskFull
<1>5. ASSUME Forwards(a) PROVE abort' = abort
  BY <1>5 DEF Forwards, RecvTask, Recv, Lock, LockPoisoned, Die, PollNone, SignalPanic, SignalDeath, Arm, PollPending,
              SendResult, PollReady, PollPanic, RunEnd, tmvars
<1>6. ASSUME ExecutorReady(a) PROVE abort' = abort
  BY <1>6 DEF ExecutorReady, ExecutorReadyStep, ReadyPop, ReadyNone, SkipAborted, KeepTask, SendSelf, Park
<1>7. QED
  BY <1>1, <1>2, <1>3, <1>4, <1>5, <1>6, ActsCases

\* A task is created by run_blocking or by spawn, not by both; only a spawned task is aborted.
LEMMA JobNotSpawnedStep ==
  ASSUME RTTypeOK, NewUntouched, JobNotSpawned, NEW a \in Threads, Acts(a)
  PROVE  JobNotSpawned'
<1>a. \A t \in Tasks : abort'[t] => t \in spawned'
  <2>1. abort' = abort
    BY ActsKeepAbort
  <2>2. spawned \subseteq spawned'
    BY SpawnSteps
  <2>3. QED
    BY <2>1, <2>2 DEF JobNotSpawned
<1> SUFFICES ASSUME NEW c \in Callers
             PROVE  /\ job'[c] \notin spawned'
                    /\ call'[c] # "out" \/ outcome'[c] # "none" => job'[c] \in Tasks
  BY <1>a DEF JobNotSpawned
<1>0. job[c] \notin spawned /\ job \in [Callers -> Tasks \cup {NoTask}]
  BY TypeParts DEF JobNotSpawned, CallTypeOK
<1>1. job'[c] \notin spawned'
  <2>1. CASE spawned' = spawned /\ job' = job
    BY <1>0, <2>1
  <2>2. ASSUME NEW t \in Tasks, Creates(a, t), spawned' = spawned \cup {t}, job' = job
        PROVE  job'[c] \notin spawned'
    BY <1>0, <2>2 DEF Creates, NewUntouched
  <2>3. ASSUME NEW t \in Tasks, Creates(a, t), spawned' = spawned, a \in Callers,
               job' = [job EXCEPT ![a] = t]
        PROVE  job'[c] \notin spawned'
    BY <1>0, <2>3 DEF Creates, NewUntouched
  <2>4. QED
    BY <2>1, <2>2, <2>3, SpawnSteps
<1>2. call'[c] # "out" \/ outcome'[c] # "none" => job'[c] \in Tasks
  BY CallSteps DEF JobNotSpawned
<1>3. QED
  BY <1>1, <1>2

\* A future that has ended stays ended.
LEMMA EndedStays ==
  ASSUME RTTypeOK, StageAgrees, NEW a \in Threads, Acts(a), NEW t \in Tasks,
         future[t] \notin {"new", "some"}
  PROVE  future'[t] = future[t] /\ result'[t] = result[t]
BY FutureSteps DEF Creates, EndsPoll

\* What a caller has learnt is its own future's doing, which stays as it is.
LEMMA CallMatchesFutureStep ==
  ASSUME RTTypeOK, StageAgrees, OnePoll, ResultFollows, JobNotSpawned, WakeNotLost, CallMatchesFuture,
         NEW a \in Threads, Acts(a)
  PROVE  CallMatchesFuture'
<1> SUFFICES ASSUME NEW c \in Callers
             PROVE  /\ call'[c] = "try_recv" =>
                         \/ future'[job'[c]] = "none"
                         \/ \E e \in Executors : stage'[e] = "sent" /\ running'[e] = job'[c]
                    /\ call'[c] = "out" /\ outcome'[c] = "task_failed" =>
                         future'[job'[c]] = "poisoned" \/ job'[c] \in refused'
  BY DEF CallMatchesFuture
<1>0. call[c] # "out" \/ outcome[c] # "none" => job[c] \in Tasks
  BY DEF JobNotSpawned
<1>r. refused \subseteq refused'
  BY RefusedGrows
<1>s. ASSUME NEW t \in Tasks, future[t] = "none" \/ Ending(t)
      PROVE  future'[t] = "none" \/ \E e \in Executors : stage'[e] = "sent" /\ running'[e] = t
  BY <1>s, EndedStays, EndingSteps DEF Ending
<1>1. CASE call'[c] = call[c] /\ outcome'[c] = outcome[c] /\ job'[c] = job[c]
  <2>1. CASE call[c] = "try_recv"
    <3>1. job[c] \in Tasks /\ (future[job[c]] = "none" \/ Ending(job[c]))
      BY <1>0, <2>1 DEF CallMatchesFuture, Ending
    <3>2. QED
      BY <1>1, <1>s, <2>1, <3>1
  <2>2. CASE call[c] = "out" /\ outcome[c] = "task_failed"
    <3>1. job[c] \in Tasks /\ (future[job[c]] = "poisoned" \/ job[c] \in refused)
      BY <1>0, <2>2 DEF CallMatchesFuture
    <3>2. QED
      BY <1>1, <1>r, <2>2, <3>1, EndedStays
  <2>3. QED
    BY <1>1, <2>1, <2>2
<1>2. CASE call'[c] \in {"register", "recv"}
  BY <1>2
<1>3. CASE call[c] # "out" /\ job'[c] = job[c] /\ future' = future /\ call'[c] = "try_recv"
           /\ result[job[c]] = "sent"
  <2>1. job[c] \in Tasks /\ (future[job[c]] = "none" \/ Ending(job[c]))
    BY <1>0, <1>3 DEF ResultFollows
  <2>2. QED
    BY <1>3, <1>s, <2>1
<1>4. CASE call[c] # "out" /\ job'[c] = job[c] /\ future' = future /\ call'[c] = "out"
           /\ (result[job[c]] = "dropped" \/ (future[job[c]] = "some" /\ ~Referenced(job[c])))
  <2>1. job[c] \in Tasks /\ ~abort[job[c]]
    BY <1>0, <1>4 DEF JobNotSpawned
  <2>2. future[job[c]] = "poisoned" \/ job[c] \in refused
    BY <1>4, <2>1 DEF ResultFollows, WakeNotLost
  <2>3. QED
    BY <1>4, <1>r, <2>2
<1>5. CASE call'[c] = "out" /\ outcome'[c] \in {"ok", "executor_panicked"}
  BY <1>5
<1>6. QED
  BY <1>1, <1>2, <1>3, <1>4, <1>5, CallSteps

-----------------------------------------------------------------------------
(* Wake-ups: what may happen to an instance of t that is on its way. *)

InstancePC == {"check", "pop", "send", "push", "screen", "resend"}

Waits(t)   == \E i \in 1 .. Len(waiting_tasks) : waiting_tasks[i] = t
Held(t)    == \E th \in Threads : pc[th] \in InstancePC /\ task[th] = t
Sent(t)    == \E e \in Executors : \E i \in 1 .. Len(ready_queue[e]) : ready_queue[e][i] = t
Locking(t) == \E e \in Executors : stage[e] = "lock" /\ running[e] = t

\* The four places an instance can be.
LEMMA OnItsWayParts ==
  ASSUME NEW t \in Tasks
  PROVE  /\ OnItsWay(t) <=> Waits(t) \/ Held(t) \/ Sent(t) \/ Locking(t)
         /\ OnItsWay(t)' <=> Waits(t)' \/ Held(t)' \/ Sent(t)' \/ Locking(t)'
BY DEF OnItsWay, Waits, Held, Sent, Locking, InstancePC

\* An instance leaves waiting_tasks only into the hands of the executor that pops it.
LEMMA WaitsKept ==
  ASSUME RTTypeOK, NEW a \in Threads, Acts(a), NEW t \in Tasks, Waits(t)
  PROVE  Waits(t)' \/ Held(t)'
<1> USE TypeParts DEF TMTypeOK
<1>0. PICK i \in 1 .. Len(waiting_tasks) : waiting_tasks[i] = t
  BY DEF Waits
<1>1. CASE waiting_tasks' = waiting_tasks
  BY <1>0, <1>1 DEF Waits
<1>2. CASE PushTask(a)
  <2>1. waiting_tasks' = Append(waiting_tasks, task[a]) /\ task[a] \in Tasks
    BY <1>2 DEF PushTask
  <2>2. i \in 1 .. Len(waiting_tasks') /\ waiting_tasks'[i] = t
    BY <1>0, <2>1, AppendElements
  <2>3. QED
    BY <2>2 DEF Waits
<1>3. CASE ReadyPop(a)
  <2>1. /\ waiting_tasks # <<>> /\ waiting_tasks' = Tail(waiting_tasks)
        /\ task'[a] = Head(waiting_tasks) /\ pc'[a] = "screen"
    BY <1>3 DEF ReadyPop, Goto
  <2>2. CASE i = 1
    BY <1>0, <2>1, <2>2, TailElements DEF Held, InstancePC
  <2>3. CASE i # 1
    <3>1. i - 1 \in 1 .. Len(waiting_tasks') /\ (i - 1) + 1 = i
      BY <1>0, <2>1, <2>3, TailElements
    <3>2. waiting_tasks'[i - 1] = waiting_tasks[(i - 1) + 1]
      BY <2>1, <3>1, TailElements
    <3>3. QED
      BY <1>0, <3>1, <3>2 DEF Waits
  <2>4. QED
    BY <2>2, <2>3
<1>4. ASSUME NEW u \in Tasks, Enters(a, u) PROVE waiting_tasks' = waiting_tasks
  BY <1>4, EntersIsRegister DEF Register
<1>5. ASSUME CallerStep(a) PROVE waiting_tasks' = waiting_tasks
  BY <1>5 DEF CallerStep, AwaitResult, GotResult, TaskFailed, ExecutorPanicked, Return, tmvars
<1>6. ASSUME Registering(a), ~PushTask(a) PROVE waiting_tasks' = waiting_tasks
  BY <1>6 DEF Registering, RegisterAborted, RegisterLive, PopExecutor, PopNoExecutor, SendTask
<1>7. ASSUME ClientOverflow(a) \/ PollOverflow(a) PROVE waiting_tasks' = waiting_tasks
  BY <1>7 DEF ClientOverflow, PollOverflow, PushTaskFull
<1>8. ASSUME Forwards(a) PROVE waiting_tasks' = waiting_tasks
  BY <1>8 DEF Forwards, RecvTask, Recv, Lock, LockPoisoned, Die, PollNone, SignalPanic, SignalDeath, Arm,
              PollPending, SendResult, PollReady, PollPanic, RunEnd, tmvars
<1>9. ASSUME ExecutorReady(a), ~ReadyPop(a) PROVE waiting_tasks' = waiting_tasks
  BY <1>9 DEF ExecutorReady, ExecutorReadyStep, ReadyNone, SkipAborted, KeepTask, SendSelf, Park
<1>10. QED
  BY <1>1, <1>2, <1>3, <1>4, <1>5, <1>6, <1>7, <1>8, <1>9, ActsCases

\* An instance leaves an executor's channel only into forward_task.
LEMMA SentKept ==
  ASSUME RTTypeOK, NEW a \in Threads, Acts(a), NEW t \in Tasks, Sent(t)
  PROVE  Sent(t)' \/ Locking(t)'
<1> USE TypeParts DEF TMTypeOK
<1>0. PICK e \in Executors : \E i \in 1 .. Len(ready_queue[e]) : ready_queue[e][i] = t
  BY DEF Sent
<1>i. PICK i \in 1 .. Len(ready_queue[e]) : ready_queue[e][i] = t
  BY <1>0
<1>s. ready_queue[e] \in Seq(Tasks)
  OBVIOUS
<1>1. CASE ready_queue' = ready_queue
  BY <1>i, <1>1 DEF Sent
<1>2. ASSUME NEW x \in Executors, NEW u \in Tasks,
             ready_queue' = [ready_queue EXCEPT ![x] = Append(@, u)]
      PROVE  Sent(t)'
  <2>1. CASE x = e
    <3>1. ready_queue'[e] = Append(ready_queue[e], u)
      BY <1>2, <2>1
    <3>2. i \in 1 .. Len(ready_queue'[e]) /\ ready_queue'[e][i] = t
      BY <1>i, <1>s, <3>1, AppendElements
    <3>3. QED
      BY <3>2 DEF Sent
  <2>2. CASE x # e
    <3>1. ready_queue'[e] = ready_queue[e]
      BY <1>2, <2>2
    <3>2. QED
      BY <1>i, <3>1 DEF Sent
  <2>3. QED
    BY <2>1, <2>2
<1>3. CASE a \in Executors /\ RecvTask(a)
  <2>1. /\ ready_queue[a] # <<>> /\ ready_queue' = [ready_queue EXCEPT ![a] = Tail(@)]
        /\ running'[a] = Head(ready_queue[a]) /\ stage'[a] = "lock"
    BY <1>3 DEF RecvTask, Recv, FutureTypeOK
  <2>2. CASE a # e
    <3>1. ready_queue'[e] = ready_queue[e]
      BY <1>3, <2>1, <2>2
    <3>2. QED
      BY <1>i, <3>1 DEF Sent
  <2>3. CASE a = e /\ i = 1
    BY <1>i, <1>s, <2>1, <2>3, TailElements DEF Locking
  <2>4. CASE a = e /\ i # 1
    <3>0. ready_queue'[e] = Tail(ready_queue[e])
      BY <2>1, <2>4
    <3>1. i - 1 \in 1 .. Len(ready_queue'[e]) /\ (i - 1) + 1 = i
      BY <1>i, <1>s, <2>1, <2>4, <3>0, TailElements
    <3>2. ready_queue'[e][i - 1] = ready_queue[e][(i - 1) + 1]
      BY <1>s, <2>1, <2>4, <3>0, <3>1, TailElements
    <3>3. QED
      BY <1>i, <3>1, <3>2 DEF Sent
  <2>5. QED
    BY <2>2, <2>3, <2>4
<1>4. ASSUME NEW u \in Tasks, Enters(a, u) PROVE ready_queue' = ready_queue
  BY <1>4, EntersIsRegister DEF Register
<1>5. ASSUME CallerStep(a) PROVE ready_queue' = ready_queue
  BY <1>5 DEF CallerStep, AwaitResult, GotResult, TaskFailed, ExecutorPanicked, Return, tmvars
<1>6. ASSUME Registering(a), ~SendTask(a) PROVE ready_queue' = ready_queue
  BY <1>6 DEF Registering, RegisterAborted, RegisterLive, PopExecutor, PopNoExecutor, PushTask
<1>7. CASE SendTask(a)
  BY <1>2, <1>7 DEF SendTask
<1>8. ASSUME ClientOverflow(a) \/ PollOverflow(a) PROVE ready_queue' = ready_queue
  BY <1>8 DEF ClientOverflow, PollOverflow, PushTaskFull
<1>9. ASSUME Forwards(a), ~RecvTask(a) PROVE ready_queue' = ready_queue
  BY <1>9 DEF Forwards, Lock, LockPoisoned, Die, PollNone, SignalPanic, SignalDeath, Arm,
              PollPending, SendResult, PollReady, PollPanic, RunEnd, tmvars
<1>10. ASSUME ExecutorReady(a), ~SendSelf(a) PROVE ready_queue' = ready_queue
  BY <1>10 DEF ExecutorReady, ExecutorReadyStep, ReadyNone, SkipAborted, KeepTask, ReadyPop, Park
<1>11. CASE a \in Executors /\ SendSelf(a)
  BY <1>2, <1>11 DEF SendSelf
<1>12. QED
  BY <1>1, <1>3, <1>4, <1>5, <1>6, <1>7, <1>8, <1>9, <1>10, <1>11, ActsCases

\* A registration that ends has put its task somewhere, found it aborted or been refused
\* by a full waiting_tasks.
LEMMA HeldKept ==
  ASSUME RTTypeOK, StageAgrees, NEW a \in Threads, Acts(a), NEW t \in Tasks, Held(t)
  PROVE  Held(t)' \/ Waits(t)' \/ Sent(t)' \/ abort[t] \/ t \in refused'
<1> USE TypeParts DEF TMTypeOK, FutureTypeOK
<1>0. PICK th \in Threads : pc[th] \in InstancePC /\ task[th] = t
  BY DEF Held
<1>1. CASE th # a
  BY <1>0, <1>1, OthersStay DEF Held, SameSpot
<1>2. CASE th = a
  <2>p. pc[a] \in InstancePC /\ task[a] = t
    BY <1>0, <1>2
  <2>1. CASE pc'[a] \in InstancePC /\ task'[a] = task[a]
    BY <2>p, <2>1 DEF Held
  <2>2. ASSUME NEW u \in Tasks, Enters(a, u) PROVE FALSE
    BY <2>p, <2>2, EntersIsRegister DEF Register, Goto, Home, InstancePC
  <2>3. ASSUME CallerStep(a) PROVE pc'[a] \in InstancePC /\ task'[a] = task[a]
    BY <2>p, <2>3 DEF CallerStep, AwaitResult, GotResult, TaskFailed, ExecutorPanicked, Return, tmvars
  <2>4. CASE RegisterAborted(a) \/ SkipAborted(a)
    BY <2>p, <2>4 DEF RegisterAborted, SkipAborted
  <2>5. ASSUME RegisterLive(a) \/ PopExecutor(a) \/ PopNoExecutor(a) \/ (a \in Executors /\ KeepTask(a))
        PROVE  pc'[a] \in InstancePC /\ task'[a] = task[a]
    BY <2>5 DEF RegisterLive, PopExecutor, PopNoExecutor, KeepTask, Goto, InstancePC
  <2>6. ASSUME NEW x \in Executors, ready_queue' = [ready_queue EXCEPT ![x] = Append(@, t)] PROVE Sent(t)'
    <3>1. ready_queue'[x] = Append(ready_queue[x], t) /\ ready_queue[x] \in Seq(Tasks)
      BY <2>6
    <3>2. /\ Len(ready_queue[x]) + 1 \in 1 .. Len(ready_queue'[x])
          /\ ready_queue'[x][Len(ready_queue[x]) + 1] = t
      <4>1. PICK q \in Seq(Tasks) : q = ready_queue[x]
        BY <3>1
      <4>2. Len(Append(q, t)) = Len(q) + 1 /\ Append(q, t)[Len(q) + 1] = t /\ Len(q) \in Nat
        BY AppendElements
      <4>3. QED
        BY <3>1, <4>1, <4>2, SMTT(20)
    <3>3. QED
      BY <3>2 DEF Sent
  <2>7. CASE SendTask(a) \/ (a \in Executors /\ SendSelf(a))
    BY <2>p, <2>6, <2>7 DEF SendTask, SendSelf
  <2>8. CASE PushTask(a)
    <3>1. waiting_tasks' = Append(waiting_tasks, t)
      BY <2>p, <2>8 DEF PushTask
    <3>2. /\ Len(waiting_tasks) + 1 \in 1 .. Len(waiting_tasks')
          /\ waiting_tasks'[Len(waiting_tasks) + 1] = t
      BY <3>1, AppendElements
    <3>3. QED
      BY <3>2 DEF Waits
  <2>9. CASE ClientOverflow(a)
    BY <2>p, <2>9 DEF ClientOverflow
  <2>10. CASE PollOverflow(a)
    BY <2>p, <2>10 DEF PollOverflow
  <2>11. ASSUME a \in Executors, Forwards(a) PROVE pc'[a] \in InstancePC /\ task'[a] = task[a]
    <3>1. pc' = pc /\ task' = task
      BY <2>p, <2>11 DEF Forwards, RecvTask, Recv, Lock, LockPoisoned, Die, PollNone, SignalPanic, SignalDeath, Arm,
                         PollPending, SendResult, PollReady, PollPanic, RunEnd, Goto, tmvars, InstancePC
    <3>2. QED
      BY <2>p, <3>1
  <2>12. ASSUME ReadyPop(a) \/ ReadyNone(a) \/ Park(a) PROVE FALSE
    BY <2>p, <2>12 DEF ReadyPop, ReadyNone, Park, Goto, InstancePC
  <2>13. QED
    BY <2>1, <2>2, <2>3, <2>4, <2>5, <2>7, <2>8, <2>9, <2>10, <2>11, <2>12, ActsCases
       DEF Registering, ExecutorReady, ExecutorReadyStep
<1>3. QED
  BY <1>1, <1>2

\* An executor that waits for a future's lock gets it or finds it poisoned.
LEMMA LockingKept ==
  ASSUME RTTypeOK, StageAgrees, NEW a \in Threads, Acts(a), NEW t \in Tasks, Locking(t)
  PROVE  \/ Locking(t)' \/ future[t] = "poisoned"
         \/ a \in Executors /\ stage'[a] = "poll" /\ running'[a] = t /\ LockFree(t)
<1> USE TypeParts DEF TMTypeOK, FutureTypeOK
<1>0. PICK e \in Executors : stage[e] = "lock" /\ running[e] = t
  BY DEF Locking
<1>1. CASE e # a
  <2>1. e \in Threads /\ SameSpot(e)
    BY <1>1, OthersStay DEF Threads
  <2>2. stage'[e] = "lock" /\ running'[e] = t
    BY <1>0, <2>1 DEF SameSpot
  <2>3. QED
    BY <2>2 DEF Locking
<1>2. CASE e = a
  <2>p. a \in Executors /\ stage[a] = "lock" /\ running[a] = t /\ pc[a] = "run" /\ a \notin Callers /\ a \notin Clients
    BY <1>0, <1>2, CallersAreClients, ThreadKinds DEF StageAgrees
  <2>1. CASE running' = running /\ stage' = stage
    BY <2>p, <2>1 DEF Locking
  <2>2. ASSUME NEW u \in Tasks, Enters(a, u) PROVE running' = running /\ stage' = stage
    BY <2>2, EntersIsRegister DEF Register
  <2>3. ASSUME Registering(a) PROVE running' = running /\ stage' = stage
    BY <2>3 DEF Registering, RegisterAborted, RegisterLive, PopExecutor, PopNoExecutor, SendTask, PushTask, rtvars
  <2>4. CASE Lock(a)
    BY <2>p, <2>4 DEF Lock, tmvars
  <2>5. CASE LockPoisoned(a)
    BY <2>p, <2>5 DEF LockPoisoned
  <2>6. ASSUME Forwards(a), ~Lock(a), ~LockPoisoned(a) PROVE FALSE
    BY <2>p, <2>6 DEF Forwards, RecvTask, Recv, PollNone, SignalPanic, SignalDeath, Arm,
                      PollPending, SendResult, PollReady, PollPanic, Polling, Goto
  <2>7. ASSUME PollOverflow(a) \/ ExecutorReady(a) PROVE FALSE
    BY <2>p, <2>7 DEF PollOverflow, PushTaskFull, ExecutorReady, ExecutorReadyStep, ReadyPop, ReadyNone,
                      SkipAborted, KeepTask, SendSelf, Park, Goto
  <2>8. QED
    BY <2>p, <2>1, <2>2, <2>3, <2>4, <2>5, <2>6, <2>7, ActsCases
<1>3. QED
  BY <1>1, <1>2

\* The instance of a live task that is on its way is not lost.
LEMMA OnItsWayKept ==
  ASSUME RTTypeOK, StageAgrees, NEW a \in Threads, Acts(a), NEW t \in Tasks,
         OnItsWay(t), ~abort[t], future[t] = "some"
  PROVE  \/ OnItsWay(t)' \/ t \in refused'
         \/ a \in Executors /\ stage'[a] = "poll" /\ running'[a] = t /\ LockFree(t)
BY WaitsKept, SentKept, HeldKept, LockingKept, OnItsWayParts

\* Abort is final; only it changes the flags.
LEMMA AbortGrows ==
  ASSUME RTTypeOK, [RTNext]_vars, NEW t \in Tasks, abort[t]
  PROVE  abort'[t]
<1>1. TMTypeOK /\ [TMNext]_tmvars
  BY RTStepRefines, TypeParts
<1>2. abort' = abort \/ \E u \in Tasks : abort' = [abort EXCEPT ![u] = TRUE]
  <2>1. ASSUME NEW th \in Threads, (\E u \in Tasks : Register(th, u)) \/ RegisterStep(th) PROVE abort' = abort
    BY <2>1 DEF Register, RegisterStep, RegisterAborted, RegisterLive, PopExecutor, PopNoExecutor,
                SendTask, PushTask, PushTaskFull
  <2>2. ASSUME NEW e \in Executors, Recv(e) \/ RunEnd(e) \/ Die(e) \/ ExecutorReadyStep(e) PROVE abort' = abort
    BY <2>2 DEF Recv, RunEnd, Die, ExecutorReadyStep, ReadyPop, ReadyNone, SkipAborted, KeepTask, SendSelf, Park
  <2>3. ASSUME NEW u \in Tasks, Abort(u) PROVE abort' = [abort EXCEPT ![u] = TRUE]
    BY <2>3 DEF Abort
  <2>4. QED
    BY <1>1, <2>1, <2>2, <2>3 DEF TMNext, tmvars
<1>3. abort \in [Tasks -> BOOLEAN]
  BY <1>1 DEF TMTypeOK
<1>4. QED
  BY <1>2, <1>3, Zenon

\* A poll that ends without ending its future has arranged a wake-up.
LEMMA PendingArranged ==
  ASSUME RTTypeOK, StageAgrees, NEW a \in Executors, Acts(a), stage[a] = "poll", ~HasLock(a)',
         future[running[a]] = "some", future'[running[a]] = "some"
  PROVE  a \in arranged
<1> USE TypeParts DEF TMTypeOK, FutureTypeOK, HasLock
<1>0. a \in Threads /\ a \notin Clients /\ a \notin Callers /\ running[a] \in Tasks
  BY ThreadKinds, CallersAreClients DEF Threads
<1>1. ASSUME NEW t \in Tasks, Enters(a, t) PROVE stage' = stage
  BY <1>0, <1>1, EntersIsRegister
<1>2. ASSUME Registering(a) \/ ExecutorReady(a) PROVE stage' = stage
  BY <1>2 DEF Registering, ExecutorReady, rtvars
<1>3. ASSUME RecvTask(a) \/ Lock(a) \/ LockPoisoned(a) \/ PollNone(a) \/ PollReady(a)
             \/ SignalPanic(a) \/ SignalDeath(a)
      PROVE  FALSE
  BY <1>0, <1>3 DEF RecvTask, Recv, Lock, LockPoisoned, PollNone, PollReady, SignalPanic, SignalDeath, Goto,
                    StageAgrees, RegisterPC
<1>4. ASSUME Arm(a) \/ SendResult(a) PROVE HasLock(a)'
  BY <1>4 DEF Arm, SendResult
<1>5. CASE PollPending(a)
  BY <1>5 DEF PollPending
<1>6. ASSUME PollPanic(a) \/ PollOverflow(a) PROVE FALSE
  BY <1>0, <1>6 DEF PollPanic, PollOverflow, Unwind
<1>7. QED
  BY <1>0, <1>1, <1>2, <1>3, <1>4, <1>5, <1>6, ActsCases DEF Forwards

\* A poll comes to have its wake-up by waking itself, by handing out its waker, or because
\* an earlier poll did.
LEMMA ArrangedSteps ==
  ASSUME RTTypeOK, StageAgrees, NEW a \in Executors, Acts(a), stage'[a] = "poll", a \in arranged'
  PROVE  \/ a \in arranged /\ stage[a] = "poll"
         \/ running[a] \in armed'
         \/ Enters(a, running[a])
<1> USE TypeParts DEF TMTypeOK, FutureTypeOK
<1>0. a \in Threads /\ a \notin Clients /\ a \notin Callers /\ running[a] \in Tasks
  BY ThreadKinds, CallersAreClients DEF Threads
<1>1. ASSUME NEW t \in Tasks, Enters(a, t)
      PROVE  (arranged' = arranged /\ stage' = stage) \/ t = running[a]
  <2>1. Spawn(a, t) \/ WakeInside(a, t) \/ t = running[a]
    BY <1>0, <1>1, CallersAreClients DEF Enters
  <2>2. QED
    BY <2>1 DEF Spawn, WakeInside
<1>2. ASSUME Registering(a) \/ ExecutorReady(a) PROVE arranged' = arranged /\ stage' = stage
  BY <1>2 DEF Registering, ExecutorReady, rtvars
<1>3. ASSUME Lock(a) PROVE running[a] \in armed'
  BY <1>3 DEF Lock
<1>4. ASSUME Arm(a) PROVE running[a] \in armed'
  BY <1>4 DEF Arm
<1>5. ASSUME Forwards(a), ~Lock(a), ~Arm(a) PROVE stage'[a] # "poll"
  BY <1>5 DEF Forwards, RecvTask, LockPoisoned, PollNone, SignalPanic, SignalDeath, PollPending,
              SendResult, PollReady, PollPanic, Unwind
<1>6. ASSUME PollOverflow(a) PROVE stage'[a] # "poll"
  BY <1>6 DEF PollOverflow, Unwind
<1>7. QED
  BY <1>0, <1>1, <1>2, <1>3, <1>4, <1>5, <1>6, ActsCases

\* A registration that begins is on its way.
LEMMA EntersOnItsWay ==
  ASSUME RTTypeOK, NEW a \in Threads, NEW t \in Tasks, Enters(a, t)
  PROVE  OnItsWay(t)'
<1>1. pc'[a] = "check" /\ task'[a] = t
  BY EntersIsRegister, TypeParts DEF Register, Goto, TMTypeOK
<1>2. QED
  BY <1>1 DEF OnItsWay

\* An arranged wake-up is kept until the poll ends.
LEMMA ArrangedKeptStep ==
  ASSUME RTTypeOK, StageAgrees, OnePoll, NewUntouched, ArrangedKept, NEW a \in Threads, Acts(a)
  PROVE  ArrangedKept'
<1> SUFFICES ASSUME NEW e \in Executors, stage'[e] = "poll", e \in arranged',
                    future'[running'[e]] = "some", ~abort'[running'[e]]
             PROVE  OnItsWay(running[e])' \/ running'[e] \in armed' \/ running'[e] \in refused'
  BY DEF ArrangedKept
<1>0. e \in Threads /\ running[e] \in Tasks
  BY TypeParts DEF Threads, TMTypeOK
<1>r. running'[e] = running[e]
  BY <1>0, PollsAfterLock, OthersStay DEF SameSpot, HasLock
<1>d. PICK t \in Tasks : t = running[e]
  BY <1>0
<1>o. OnItsWay(running[e])' <=> OnItsWay(t)'
  BY <1>r, <1>d DEF OnItsWay
<1>1. CASE a = e /\ (running[e] \in armed' \/ Enters(a, running[e]))
  BY <1>0, <1>1, <1>d, <1>o, <1>r, EntersOnItsWay
<1>2. CASE stage[e] = "poll" /\ e \in arranged
  <2>1. ~abort[t]
    BY <1>r, <1>d, ActsKeepAbort
  <2>2. future[t] = "some"
    <3>1. ~Creates(a, t)
      BY <1>2, <1>d DEF Creates, NewUntouched, Untouched
    <3>2. QED
      BY <1>r, <1>d, <3>1, FutureBefore
  <2>3. OnItsWay(t) \/ t \in armed \/ t \in refused
    BY <1>2, <1>d, <2>1, <2>2 DEF ArrangedKept
  <2>4. ~LockFree(t)
    BY <1>2, <1>d DEF LockFree
  <2>5. OnItsWay(t)' \/ t \in armed' \/ t \in refused'
    BY <2>1, <2>2, <2>3, <2>4, OnItsWayKept, ArmedKept, EntersOnItsWay, RefusedGrows
  <2>6. QED
    BY <1>r, <1>d, <1>o, <2>5
<1>3. CASE a # e
  BY <1>0, <1>2, <1>3, OthersStay DEF SameSpot
<1>4. CASE a = e
  BY <1>1, <1>2, <1>4, ArrangedSteps
<1>5. QED
  BY <1>3, <1>4

\* A live task keeps its next poll.
LEMMA WakeNotLostStep ==
  ASSUME RTTypeOK, StageAgrees, OnePoll, ArrangedKept, WakeNotLost, NEW a \in Threads, Acts(a)
  PROVE  WakeNotLost'
<1> SUFFICES ASSUME NEW t \in Tasks, future'[t] = "some", ~abort'[t]
             PROVE  \/ OnItsWay(t)' \/ t \in armed' \/ t \in refused'
                    \/ \E e \in Executors : HasLock(e)' /\ running'[e] = t
  BY DEF WakeNotLost, Referenced, HasLock
<1>0. ~abort[t]
  BY ActsKeepAbort
<1>1. CASE Creates(a, t)
  BY <1>1, EntersOnItsWay DEF Creates
<1>2. CASE future[t] = "some"
  <2>1. ASSUME OnItsWay(t)
        PROVE  OnItsWay(t)' \/ t \in refused' \/ \E e \in Executors : HasLock(e)' /\ running'[e] = t
    BY <1>0, <1>2, <2>1, OnItsWayKept DEF HasLock
  <2>2. ASSUME t \in armed PROVE t \in armed' \/ OnItsWay(t)'
    BY <2>2, ArmedKept, EntersOnItsWay
  <2>r. ASSUME t \in refused PROVE t \in refused'
    BY <2>r, RefusedGrows
  <2>3. ASSUME NEW e \in Executors, HasLock(e), running[e] = t
        PROVE  \/ OnItsWay(t)' \/ t \in armed' \/ t \in refused'
               \/ \E f \in Executors : HasLock(f)' /\ running'[f] = t
    <3>0. e \in Threads
      BY DEF Threads
    <3>1. CASE a # e
      BY <2>3, <3>0, <3>1, OthersStay DEF SameSpot, HasLock
    <3>2. CASE a = e /\ HasLock(e)'
      BY <2>3, <3>2, PollsAfterLock
    <3>3. CASE a = e /\ stage[e] = "poll" /\ ~HasLock(e)'
      <4>1. e \in arranged
        BY <1>2, <2>3, <3>3, PendingArranged
      <4>2. OnItsWay(t) \/ t \in armed \/ t \in refused
        BY <1>0, <1>2, <2>3, <3>3, <4>1 DEF ArrangedKept
      <4>3. QED
        BY <2>1, <2>2, <2>r, <4>2
    <3>4. CASE a = e /\ stage[e] = "sent" /\ ~HasLock(e)'
      <4>1. Ending(t) /\ ~Ending(t)'
        <5>1. Ending(t)
          BY <2>3, <3>4 DEF Ending
        <5>2. ASSUME NEW f \in Executors, stage'[f] = "sent", running'[f] = t PROVE FALSE
          <6>1. f # e
            BY <3>4, <5>2 DEF HasLock
          <6>2. SameSpot(f)
            BY <3>4, <6>1, OthersStay DEF Threads
          <6>3. QED
            BY <2>3, <5>2, <6>1, <6>2 DEF SameSpot, OnePoll, HasLock
        <5>3. QED
          BY <5>1, <5>2 DEF Ending
      <4>2. future'[t] = "none"
        BY <4>1, EndingSteps
      <4>3. QED
        BY <4>2
    <3>5. QED
      BY <2>3, <3>1, <3>2, <3>3, <3>4 DEF HasLock
  <2>4. QED
    BY <1>0, <1>2, <2>1, <2>2, <2>r, <2>3 DEF WakeNotLost, Referenced, HasLock
<1>3. QED
  BY <1>1, <1>2, FutureBefore

-----------------------------------------------------------------------------
(* The invariant *)

\* No task exists after build.
LEMMA RTInitInv == RTInit => RTInv
<1> SUFFICES ASSUME RTInit PROVE RTInv
  OBVIOUS
<1>0. RTTypeOK
  BY RTInitTypeOK
<1>1. /\ \A t \in Tasks : future[t] = "new" /\ result[t] = "open"
      /\ \A e \in Executors : stage[e] = "out"
      /\ \A c \in Callers : call[c] = "out" /\ outcome[c] = "none" /\ job[c] = NoTask
      /\ spawned = {} /\ armed = {}
  BY DEF RTInit
<1>2. /\ waiting_tasks = <<>>
      /\ \A e \in Executors : ready_queue[e] = <<>>
  BY DEF RTInit, TMInit
<1>3. \A th \in Threads : pc[th] \in {"recv", "idle"}
  BY DEF RTInit, TMInit
<1>4. \A e \in Executors : pc[e] \in {"recv", "idle"}
  BY <1>3 DEF Threads
<1>5. StageAgrees /\ OnePoll
  BY <1>1, <1>4 DEF StageAgrees, OnePoll, HasLock, RegisterPC
<1>6. NewUntouched
  <2>1. \A t \in Tasks : Untouched(t)
    BY <1>1, <1>2, <1>4 DEF Untouched
  <2>2. QED
    BY <1>1, <1>3, <2>1, RuntimeAssumption DEF NewUntouched, RegisterPC
<1>7. ResultFollows
  BY <1>1 DEF ResultFollows
<1>8. JobNotSpawned
  <2>1. \A t \in Tasks : ~abort[t]
    BY DEF RTInit, TMInit
  <2>2. QED
    BY <1>1, <2>1 DEF JobNotSpawned
<1>9. ArrangedKept /\ WakeNotLost /\ CallMatchesFuture
  BY <1>1 DEF ArrangedKept, WakeNotLost, CallMatchesFuture
<1>10. QED
  BY <1>0, <1>5, <1>6, <1>7, <1>8, <1>9 DEF RTInv

\* A step that only sets abort flags, or none, leaves every part as it is.
LEMMA AbortKeepsInv ==
  ASSUME RTInv, RTTypeOK', [RTNext]_vars, UNCHANGED rtvars, \A t \in Tasks : abort'[t] => t \in spawned,
         UNCHANGED <<waiting_tasks, waiting_executors, ready_queue, pc, task, target, running>>
  PROVE  RTInv'
<1> USE DEF rtvars
<1>1. StageAgrees' /\ OnePoll' /\ CallMatchesFuture'
  BY DEF RTInv, StageAgrees, OnePoll, HasLock, CallMatchesFuture
<1>2. ResultFollows' /\ JobNotSpawned'
  BY DEF RTInv, ResultFollows, Ending, JobNotSpawned
<1>3. NewUntouched'
  BY DEF RTInv, NewUntouched, Untouched
<1>4. \A t \in Tasks : abort[t] => abort'[t]
  BY AbortGrows DEF RTInv
<1>5. \A t \in Tasks : OnItsWay(t)' <=> OnItsWay(t)
  BY DEF OnItsWay
<1>6. \A e \in Executors : running[e] \in Tasks
  BY TypeParts DEF RTInv, TMTypeOK
<1>7. ArrangedKept'
  BY <1>4, <1>5, <1>6 DEF RTInv, ArrangedKept
<1>8. WakeNotLost'
  <2>1. \A t \in Tasks : Referenced(t) => Referenced(t)'
    BY <1>5 DEF Referenced
  <2>2. QED
    BY <1>4, <2>1 DEF RTInv, WakeNotLost
<1>9. QED
  BY <1>1, <1>2, <1>3, <1>7, <1>8 DEF RTInv

\* The invariant is inductive.
LEMMA RTInvStep == RTInv /\ [RTNext]_vars => RTInv'
<1> SUFFICES ASSUME RTInv, [RTNext]_vars PROVE RTInv'
  OBVIOUS
<1>0. RTTypeOK'
  BY RTTypeOKStep DEF RTInv
<1>1. ASSUME NEW a \in Threads, Acts(a) PROVE RTInv'
  <2>1. StageAgrees' /\ OnePoll' /\ NewUntouched'
    BY <1>1, StageAgreesStep, OnePollStep, NewUntouchedStep DEF RTInv
  <2>2. ResultFollows' /\ JobNotSpawned' /\ CallMatchesFuture'
    BY <1>1, ResultFollowsStep, JobNotSpawnedStep, CallMatchesFutureStep DEF RTInv
  <2>3. ArrangedKept' /\ WakeNotLost'
    BY <1>1, ArrangedKeptStep, WakeNotLostStep DEF RTInv
  <2>4. QED
    BY <1>0, <2>1, <2>2, <2>3 DEF RTInv
<1>2. ASSUME NEW t \in Tasks, AbortSpawned(t) PROVE RTInv'
  <2>1. /\ t \in spawned /\ abort' = [abort EXCEPT ![t] = TRUE] /\ UNCHANGED rtvars
        /\ UNCHANGED <<waiting_tasks, waiting_executors, ready_queue, pc, task, target, running>>
    BY <1>2 DEF AbortSpawned, Abort
  <2>2. \A u \in Tasks : abort'[u] => u \in spawned
    <3>1. \A u \in Tasks : abort[u] => u \in spawned
      BY DEF RTInv, JobNotSpawned
    <3>2. abort \in [Tasks -> BOOLEAN]
      BY TypeParts DEF RTInv, TMTypeOK
    <3>3. QED
      BY <2>1, <3>1, <3>2, Zenon
  <2>3. QED
    BY <1>0, <2>1, <2>2, AbortKeepsInv
<1>3. CASE UNCHANGED vars
  <2>1. \A u \in Tasks : abort'[u] => u \in spawned
    BY <1>3 DEF vars, tmvars, RTInv, JobNotSpawned
  <2>2. QED
    BY <1>0, <1>3, <2>1, AbortKeepsInv DEF vars, tmvars
<1>4. QED
  BY <1>1, <1>2, <1>3, StepIsSomeonesOrAbort

\* So it always holds.
LEMMA RTInvAlways == RTSpec => []RTInv
BY RTInitInv, RTInvStep, PTL DEF RTSpec

\* A task that was created and not aborted always has its next poll coming or a waker that
\* was not used up, with any number of executors, tasks and threads, unless a full
\* waiting_tasks has refused it: nothing else loses a wake-up between the push to
\* waiting_tasks, the send to an executor, the future's mutex and the end of a poll.
THEOREM RTWakeNotLost == RTSpec => []WakeNotLost
<1>1. RTInv => WakeNotLost
  BY DEF RTInv
<1>2. QED
  BY <1>1, RTInvAlways, PTL

\* run_blocking reports what happened to its own task: a result only once the future has
\* sent it, a failure only if it panicked or was refused, however late its caller looks.
THEOREM RTCallMatchesFuture == RTSpec => []CallMatchesFuture
<1>1. RTInv => CallMatchesFuture
  BY DEF RTInv
<1>2. QED
  BY <1>1, RTInvAlways, PTL

-----------------------------------------------------------------------------
(* A future ends once *)

\* Only the end of a poll that sent no result counts a Pending.
LEMMA PendingSteps ==
  ASSUME RTTypeOK, StageAgrees, OnePoll, NEW a \in Threads, Acts(a), NEW t \in Tasks,
         future[t] # "some" \/ Ending(t)
  PROVE  pending'[t] = pending[t]
<1> USE TypeParts DEF FutureTypeOK
<1>1. ASSUME NEW u \in Tasks, Enters(a, u) PROVE pending' = pending
  BY <1>1, EntersIsRegister
<1>2. ASSUME CallerStep(a) PROVE pending' = pending
  BY <1>2 DEF CallerStep, AwaitResult, GotResult, TaskFailed, ExecutorPanicked, Return
<1>3. ASSUME Registering(a) \/ ExecutorReady(a) PROVE pending' = pending
  BY <1>3 DEF Registering, ExecutorReady, rtvars
<1>4. ASSUME ClientOverflow(a) \/ PollOverflow(a) PROVE pending' = pending
  BY <1>4 DEF ClientOverflow, PollOverflow, Unwind
<1>5. CASE a \in Executors /\ PollPending(a)
  <2>1. stage[a] = "poll" /\ future[running[a]] = "some"
    BY <1>5 DEF PollPending, Polling
  <2>2. running[a] # t
    BY <1>5, <2>1 DEF Ending, OnePoll, HasLock
  <2>3. QED
    BY <1>5, <2>2 DEF PollPending
<1>6. ASSUME Forwards(a), ~PollPending(a) PROVE pending' = pending
  BY <1>6 DEF Forwards, RecvTask, Lock, LockPoisoned, PollNone, SignalPanic, SignalDeath, Arm,
              SendResult, PollReady, PollPanic, Unwind
<1>7. QED
  BY <1>1, <1>2, <1>3, <1>4, <1>5, <1>6, ActsCases

\* Once a future has its result, no executor that still holds an instance of it, and no
\* late wake-up, polls it again or changes the result.
THEOREM RTEndsOnce == RTSpec => EndsOnce
<1> DEFINE Once(t) == /\ result'[t] = result[t] /\ pending'[t] = pending[t]
                      /\ \/ future'[t] = future[t]
                         \/ \E e \in Executors : running[e] = t /\ PollReady(e)
<1>1. ASSUME RTInv, [RTNext]_vars, NEW t \in Tasks, result[t] # "open"
      PROVE  Once(t)
  <2>1. future[t] \notin {"new", "some"} \/ Ending(t)
    BY <1>1 DEF RTInv, ResultFollows
  <2>2. ASSUME NEW a \in Threads, Acts(a) PROVE Once(t)
    <3>1. pending'[t] = pending[t]
      BY <1>1, <2>1, <2>2, PendingSteps DEF RTInv
    <3>2. CASE future[t] \notin {"new", "some"}
      BY <1>1, <2>2, <3>1, <3>2, EndedStays DEF RTInv
    <3>3. CASE Ending(t)
      BY <1>1, <2>2, <3>1, <3>3, EndingSteps DEF RTInv
    <3>4. QED
      BY <2>1, <3>2, <3>3
  <2>3. ASSUME NEW u \in Tasks, AbortSpawned(u) PROVE Once(t)
    BY <2>3 DEF AbortSpawned, rtvars
  <2>4. CASE UNCHANGED vars
    BY <2>4 DEF vars, rtvars
  <2>5. QED
    BY <1>1, <2>2, <2>3, <2>4, StepIsSomeonesOrAbort
<1>2. RTInv /\ [RTNext]_vars => [\A t \in Tasks : result[t] # "open" => Once(t)]_vars
  BY <1>1
<1>3. QED
  BY <1>2, RTInvAlways, PTL DEF RTSpec, EndsOnce

=============================================================================
