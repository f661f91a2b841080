------------------------------- MODULE Runtime -------------------------------
(***************************************************************************)
(* The runtime around the task manager: tasks and their futures            *)
(* (src/src/task/task.rs), forward_task with its mutex and catch_unwind    *)
(* (src/src/executor.rs), the panic channel and the two run_blocking       *)
(* methods (src/src/runtime.rs), spawn and abort (src/src/spawner.rs).     *)
(* Every action that touches the task manager is one of TaskManager's.     *)
(***************************************************************************)
EXTENDS TaskManager

CONSTANTS Callers,      \* clients that call Handle::run_blocking and spawn; the others only wake
          Panicking,    \* tasks whose poll may panic
          MaxCalls,     \* bound: how many run_blocking and spawn calls a caller makes
          MaxPending,   \* bound: how often a future may return Pending
          MaxSelfWakes, \* bound: how often one poll may wake its own task
          NoTask

ASSUME RuntimeAssumption ==
  /\ Callers \subseteq Clients
  /\ Panicking \subseteq Tasks
  /\ MaxCalls \in Nat /\ MaxPending \in Nat /\ MaxSelfWakes \in Nat
  /\ NoTask \notin Tasks

VARIABLES future,    \* "new" until created, "some", then "none" or "poisoned"
          result,    \* the sync_channel of run_blocking, or of the join handle
          spawned,   \* tasks that have a JoinHandle
          armed,     \* tasks whose waker something outside their poll holds
          pending,   \* pending[t]: how often t's future returned Pending
          stage,     \* inside forward_task: "lock", "poll", "sent", "signal"; else "out"
          roused,    \* roused[e]: how often the poll under way has woken its own task
          arranged,  \* executors whose poll under way may return Pending: see Lock, Arm
          panics,    \* messages in the panic channel, of capacity one
          calls,     \* calls[c]: how many run_blocking and spawn calls c has made
          call,      \* call[c]: "out", "register", "recv" or "try_recv"
          job,       \* job[c]: the task of the run_blocking call of c
          outcome,   \* how the last run_blocking call of c ended
          refused    \* history: tasks that a full waiting_tasks has refused

rtvars == <<future, result, spawned, armed, pending, stage, roused, arranged, panics, calls,
            call, job, outcome, refused>>
vars == <<tmvars, rtvars>>

Wakers == Clients \ Callers

RTInit ==
  /\ TMInit
  /\ future = [t \in Tasks |-> "new"]
  /\ result = [t \in Tasks |-> "open"]
  /\ spawned = {} /\ armed = {}
  /\ pending = [t \in Tasks |-> 0]
  /\ stage = [e \in Executors |-> "out"]
  /\ roused = [e \in Executors |-> 0] /\ arranged = {}
  /\ panics = 0
  /\ calls = [c \in Callers |-> 0]
  /\ call = [c \in Callers |-> "out"]
  /\ job = [c \in Callers |-> NoTask]
  /\ outcome = [c \in Callers |-> "none"]
  /\ refused = {}

-----------------------------------------------------------------------------
(* Creating and waking tasks. *)

\* The poll of a future is under way on e.
Polling(e) == stage[e] = "poll" /\ future[running[e]] = "some"

\* Runtime::run_blocking: a fresh task, without a join handle, is registered.
RunBlocking(c, t) ==
  /\ call[c] = "out" /\ calls[c] < MaxCalls /\ future[t] = "new"
  /\ Register(c, t)
  /\ future' = [future EXCEPT ![t] = "some"]
  /\ calls' = [calls EXCEPT ![c] = @ + 1]
  /\ call' = [call EXCEPT ![c] = "register"]
  /\ job' = [job EXCEPT ![c] = t]
  /\ UNCHANGED <<result, spawned, armed, pending, stage, roused, arranged, panics, outcome,
                 refused>>

\* Spawner::spawn from a poll.
Spawn(e, t) ==
  /\ Polling(e) /\ future[t] = "new"
  /\ Register(e, t)
  /\ future' = [future EXCEPT ![t] = "some"]
  /\ spawned' = spawned \cup {t}
  /\ UNCHANGED <<result, armed, pending, stage, roused, arranged, panics, calls, call, job,
                 outcome, refused>>

\* Handle::spawn, from a thread outside the executors.
HandleSpawn(c, t) ==
  /\ call[c] = "out" /\ calls[c] < MaxCalls /\ future[t] = "new"
  /\ Register(c, t)
  /\ future' = [future EXCEPT ![t] = "some"]
  /\ spawned' = spawned \cup {t}
  /\ calls' = [calls EXCEPT ![c] = @ + 1]
  /\ UNCHANGED <<result, armed, pending, stage, roused, arranged, panics, call, job, outcome,
                 refused>>

\* The future hands a clone of its waker to a thread outside the executors.
Arm(e) ==
  /\ Polling(e) /\ pc[e] = "run" /\ Wakers # {}
  /\ armed' = armed \cup {running[e]} /\ arranged' = arranged \cup {e}
  /\ UNCHANGED <<tmvars, future, result, spawned, pending, stage, roused, panics, calls, call,
                 job, outcome, refused>>

\* A waker of t that something holds is used.  wake consumes it; wake_by_ref, and wake
\* on one of several clones, leave one.
UseWaker(t) == armed' \in {armed, armed \ {t}}

\* wake or wake_by_ref from a thread outside the executors; the waker may outlive
\* the future.
WakeOutside(w, t) ==
  /\ t \in armed
  /\ Register(w, t)
  /\ UseWaker(t)
  /\ UNCHANGED <<future, result, spawned, pending, stage, roused, arranged, panics, calls, call,
                 job, outcome, refused>>

\* wake or wake_by_ref from a poll, of the task itself.
WakeSelf(e) ==
  /\ Polling(e) /\ roused[e] < MaxSelfWakes
  /\ Register(e, running[e])
  /\ roused' = [roused EXCEPT ![e] = @ + 1] /\ arranged' = arranged \cup {e}
  /\ UNCHANGED <<future, result, spawned, armed, pending, stage, panics, calls, call, job,
                 outcome, refused>>

\* The same of a task that waits for this one.
WakeInside(e, t) ==
  /\ Polling(e) /\ t \in armed
  /\ Register(e, t)
  /\ UseWaker(t)
  /\ UNCHANGED <<future, result, spawned, pending, stage, roused, arranged, panics, calls, call,
                 job, outcome, refused>>

\* The steps of register_or_execute_non_blocking_task, unless waiting_tasks is full.
Registering(th) ==
  /\ \/ RegisterAborted(th) \/ RegisterLive(th) \/ PopExecutor(th) \/ PopNoExecutor(th)
     \/ SendTask(th) \/ PushTask(th)
  /\ UNCHANGED rtvars

\* JoinHandle::abort
AbortSpawned(t) == t \in spawned /\ Abort(t) /\ UNCHANGED rtvars

-----------------------------------------------------------------------------
(* Executor::forward_task *)

RecvTask(e) ==
  /\ Recv(e)
  /\ stage' = [stage EXCEPT ![e] = "lock"]
  /\ UNCHANGED <<future, result, spawned, armed, pending, roused, arranged, panics, calls, call,
                 job, outcome, refused>>

LockFree(t) == \A e \in Executors : ~(stage[e] \in {"poll", "sent"} /\ running[e] = t)

\* Mutant: a mutex that is taken is not waited for.
TryLock(e) ==
  /\ stage[e] = "lock" /\ future[running[e]] # "poisoned"
  /\ IF LockFree(running[e])
       THEN stage' = [stage EXCEPT ![e] = "poll"] /\ UNCHANGED tmvars
       ELSE stage' = [stage EXCEPT ![e] = "out"] /\ RunEnd(e)
  /\ roused' = [roused EXCEPT ![e] = 0]
  /\ arranged' = IF running[e] \in armed THEN arranged \cup {e} ELSE arranged \ {e}
  /\ UNCHANGED <<future, result, spawned, armed, pending, panics, calls, call, job, outcome,
                 refused>>

\* task.future.lock() gives the guard.  A future may rely on a waker that an earlier poll
\* has handed out.
Lock(e) ==
  /\ stage[e] = "lock" /\ LockFree(running[e]) /\ future[running[e]] # "poisoned"
  /\ stage' = [stage EXCEPT ![e] = "poll"]
  /\ roused' = [roused EXCEPT ![e] = 0]
  /\ arranged' = IF running[e] \in armed THEN arranged \cup {e} ELSE arranged \ {e}
  /\ UNCHANGED <<tmvars, future, result, spawned, armed, pending, panics, calls, call, job,
                 outcome, refused>>

\* task.future.lock().unwrap() of a poisoned mutex unwinds out of run; the
\* catch_unwind of the thread's closure will send on the panic channel.
LockPoisoned(e) ==
  /\ stage[e] = "lock" /\ future[running[e]] = "poisoned"
  /\ Die(e)
  /\ stage' = [stage EXCEPT ![e] = "signal"]
  /\ UNCHANGED <<future, result, spawned, armed, pending, roused, arranged, panics, calls, call,
                 job, outcome, refused>>

\* The future was already done: nothing is polled.
PollNone(e) ==
  /\ stage[e] = "poll" /\ future[running[e]] = "none"
  /\ RunEnd(e)
  /\ stage' = [stage EXCEPT ![e] = "out"]
  /\ UNCHANGED <<future, result, spawned, armed, pending, roused, arranged, panics, calls, call,
                 job, outcome, refused>>

\* Mutant: after Pending the loop goes back to recv without executor_ready.
PollPendingNotReady(e) ==
  /\ Polling(e) /\ e \in arranged
  /\ pending[running[e]] < MaxPending
  /\ Goto(e, "run", "recv")
  /\ pending' = [pending EXCEPT ![running[e]] = @ + 1]
  /\ stage' = [stage EXCEPT ![e] = "out"]
  /\ UNCHANGED <<waiting_tasks, waiting_executors, ready_queue, abort, task, target, running>>
  /\ UNCHANGED <<future, result, spawned, armed, roused, arranged, panics, calls, call, job,
                 outcome, refused>>

\* Poll::Pending: the poll has arranged to be woken.
PollPending(e) ==
  /\ Polling(e) /\ e \in arranged
  /\ pending[running[e]] < MaxPending
  /\ RunEnd(e)
  /\ pending' = [pending EXCEPT ![running[e]] = @ + 1]
  /\ stage' = [stage EXCEPT ![e] = "out"]
  /\ UNCHANGED <<future, result, spawned, armed, roused, arranged, panics, calls, call, job,
                 outcome, refused>>

\* The wrapping future's last act: tx.send(res), or tx_bound.send(res) of a spawned task.
SendResult(e) ==
  /\ Polling(e) /\ pc[e] = "run"
  /\ result' = [result EXCEPT ![running[e]] = "sent"]
  /\ stage' = [stage EXCEPT ![e] = "sent"]
  /\ UNCHANGED <<tmvars, future, spawned, armed, pending, roused, arranged, panics, calls, call,
                 job, outcome, refused>>

\* Mutant: a completed future is left in its slot.
PollReadyKept(e) ==
  /\ stage[e] = "sent"
  /\ RunEnd(e)
  /\ stage' = [stage EXCEPT ![e] = "out"]
  /\ UNCHANGED <<future, result, spawned, armed, pending, roused, arranged, panics, calls, call,
                 job, outcome, refused>>

\* Poll::Ready: *future = None.
PollReady(e) ==
  /\ stage[e] = "sent"
  /\ RunEnd(e)
  /\ future' = [future EXCEPT ![running[e]] = "none"]
  /\ stage' = [stage EXCEPT ![e] = "out"]
  /\ UNCHANGED <<result, spawned, armed, pending, roused, arranged, panics, calls, call, job,
                 outcome, refused>>

\* The poll unwinds: the future's locals, the result's sender among them, and the
\* guard are dropped, which poisons the mutex.
Unwind(e) ==
  /\ future' = [future EXCEPT ![running[e]] = "poisoned"]
  /\ result' = [result EXCEPT ![running[e]] = "dropped"]
  /\ stage' = [stage EXCEPT ![e] = "signal"]
  /\ UNCHANGED <<spawned, armed, pending, roused, arranged, panics, calls, call, job, outcome>>

PollPanic(e) ==
  /\ Polling(e) /\ running[e] \in Panicking /\ pc[e] = "run"
  /\ Unwind(e)
  /\ UNCHANGED <<tmvars, refused>>

\* A wake or a spawn made in the poll finds waiting_tasks full and panics.
PollOverflow(e) ==
  /\ PushTaskFull(e)
  /\ Unwind(e)
  /\ refused' = refused \cup {task[e]}

\* Mutant: the panic channel is unbounded.
SignalPanicUnbounded(e) ==
  /\ stage[e] = "signal"
  /\ RunEnd(e)
  /\ panics' = panics + 1
  /\ stage' = [stage EXCEPT ![e] = "out"]
  /\ UNCHANGED <<future, result, spawned, armed, pending, roused, arranged, calls, call, job,
                 outcome, refused>>

\* self.panic_tx.send(()).unwrap(): the channel holds one message, send waits.
SignalPanic(e) ==
  /\ stage[e] = "signal" /\ panics < 1
  /\ RunEnd(e)
  /\ panics' = panics + 1
  /\ stage' = [stage EXCEPT ![e] = "out"]
  /\ UNCHANGED <<future, result, spawned, armed, pending, roused, arranged, calls, call, job,
                 outcome, refused>>

\* let _ = panic_tx_clone.send(()): the last act of an executor's thread.
SignalDeath(e) ==
  /\ stage[e] = "signal" /\ pc[e] = "dead" /\ panics < 1
  /\ panics' = panics + 1
  /\ stage' = [stage EXCEPT ![e] = "out"]
  /\ UNCHANGED <<tmvars, future, result, spawned, armed, pending, roused, arranged, calls, call,
                 job, outcome, refused>>

ExecutorReady(e) == ExecutorReadyStep(e) /\ UNCHANGED rtvars

-----------------------------------------------------------------------------
(* The rest of the two run_blocking methods. *)

\* register_or_execute_non_blocking_task has returned: wait in rx.recv().
AwaitResult(c) ==
  /\ call[c] = "register" /\ pc[c] = "idle"
  /\ call' = [call EXCEPT ![c] = "recv"]
  /\ UNCHANGED <<tmvars, future, result, spawned, armed, pending, stage, roused, arranged,
                 panics, calls, job, outcome, refused>>

\* Mutant: an Err of rx.recv() is taken for a result.
GotAnyResult(c) ==
  /\ call[c] = "recv" /\ result[job[c]] # "open"
  /\ call' = [call EXCEPT ![c] = "try_recv"]
  /\ UNCHANGED <<tmvars, future, result, spawned, armed, pending, stage, roused, arranged,
                 panics, calls, job, outcome, refused>>

\* rx.recv() is Ok.
GotResult(c) ==
  /\ call[c] = "recv" /\ result[job[c]] = "sent"
  /\ call' = [call EXCEPT ![c] = "try_recv"]
  /\ UNCHANGED <<tmvars, future, result, spawned, armed, pending, stage, roused, arranged,
                 panics, calls, job, outcome, refused>>

\* An instance of t is on its way to a poll.
OnItsWay(t) ==
  \/ \E i \in 1 .. Len(waiting_tasks) : waiting_tasks[i] = t
  \/ \E th \in Threads : pc[th] \in {"check", "pop", "send", "push", "screen", "resend"}
                          /\ task[th] = t
  \/ \E e \in Executors : \E i \in 1 .. Len(ready_queue[e]) : ready_queue[e][i] = t
  \/ \E e \in Executors : stage[e] = "lock" /\ running[e] = t

\* Something holds an Arc of t: an instance of it, a waker, or the poll under way.
Referenced(t) ==
  \/ OnItsWay(t) \/ t \in armed
  \/ \E e \in Executors : stage[e] \in {"poll", "sent"} /\ running[e] = t

\* rx.recv() is Err: panic!("Task failed to complete").  The future has unwound, or its
\* task was dropped because nothing holds it any more.
TaskFailed(c) ==
  /\ call[c] = "recv"
  /\ result[job[c]] = "dropped" \/ (future[job[c]] = "some" /\ ~Referenced(job[c]))
  /\ call' = [call EXCEPT ![c] = "out"]
  /\ outcome' = [outcome EXCEPT ![c] = "task_failed"]
  /\ UNCHANGED <<tmvars, future, result, spawned, armed, pending, stage, roused, arranged,
                 panics, calls, job, refused>>

\* panic_rx.try_recv() is Ok: panic!("Executor panicked").
ExecutorPanicked(c) ==
  /\ call[c] = "try_recv" /\ panics > 0
  /\ panics' = panics - 1
  /\ call' = [call EXCEPT ![c] = "out"]
  /\ outcome' = [outcome EXCEPT ![c] = "executor_panicked"]
  /\ UNCHANGED <<tmvars, future, result, spawned, armed, pending, stage, roused, arranged,
                 calls, job, refused>>

\* panic_rx.try_recv() is Err: return the result.
Return(c) ==
  /\ call[c] = "try_recv" /\ panics = 0
  /\ call' = [call EXCEPT ![c] = "out"]
  /\ outcome' = [outcome EXCEPT ![c] = "ok"]
  /\ UNCHANGED <<tmvars, future, result, spawned, armed, pending, stage, roused, arranged,
                 panics, calls, job, refused>>

\* A call or a wake from outside that finds waiting_tasks full ends its thread.
ClientOverflow(c) ==
  /\ PushTaskFull(c)
  /\ refused' = refused \cup {task[c]}
  /\ UNCHANGED <<future, result, spawned, armed, pending, stage, roused, arranged, panics, calls,
                 call, job, outcome>>

-----------------------------------------------------------------------------
\* The steps of an executor that its loop takes by itself.
ExecutorStep(e) ==
  \/ Registering(e) \/ RecvTask(e) \/ Lock(e) \/ LockPoisoned(e) \/ PollNone(e)
  \/ PollReady(e) \/ PollOverflow(e) \/ SignalPanic(e) \/ SignalDeath(e) \/ ExecutorReady(e)

\* The choices the polled future makes.
PollStep(e) ==
  \/ \E t \in Tasks : Spawn(e, t) \/ WakeInside(e, t)
  \/ Arm(e) \/ WakeSelf(e) \/ PollPending(e) \/ SendResult(e) \/ PollPanic(e)

CallerStep(c) ==
  \/ AwaitResult(c) \/ GotResult(c) \/ TaskFailed(c) \/ ExecutorPanicked(c) \/ Return(c)

RTNext ==
  \/ \E c \in Callers : (\E t \in Tasks : RunBlocking(c, t) \/ HandleSpawn(c, t)) \/ CallerStep(c)
  \/ \E w \in Wakers, t \in Tasks : WakeOutside(w, t)
  \/ \E c \in Clients : Registering(c) \/ ClientOverflow(c)
  \/ \E e \in Executors : ExecutorStep(e) \/ PollStep(e)
  \/ \E t \in Tasks : AbortSpawned(t)

RTSpec == RTInit /\ [][RTNext]_vars

\* Threads are scheduled and a poll ends: every future that is polled completes,
\* panics, or returns Pending after arranging its wake-up.
RTFairness ==
  /\ \A e \in Executors : WF_vars(ExecutorStep(e))
                          /\ SF_vars(SendResult(e) \/ PollPending(e) \/ PollPanic(e))
  /\ \A c \in Callers : WF_vars(CallerStep(c) \/ Registering(c))

FairRTSpec == RTSpec /\ RTFairness

-----------------------------------------------------------------------------
(* Properties *)

\* Every variable keeps its type, and stage agrees with where the executor is.
RTTypeOK ==
  /\ TMTypeOK
  /\ future \in [Tasks -> {"new", "some", "none", "poisoned"}]
  /\ result \in [Tasks -> {"open", "sent", "dropped"}]
  /\ spawned \subseteq Tasks /\ armed \subseteq Tasks
  /\ pending \in [Tasks -> 0 .. MaxPending]
  /\ stage \in [Executors -> {"out", "lock", "poll", "sent", "signal"}]
  /\ roused \in [Executors -> 0 .. MaxSelfWakes] /\ arranged \subseteq Executors
  /\ panics \in 0 .. 1
  /\ calls \in [Callers -> 0 .. MaxCalls]
  /\ call \in [Callers -> {"out", "register", "recv", "try_recv"}]
  /\ job \in [Callers -> Tasks \cup {NoTask}]
  /\ outcome \in [Callers -> {"none", "ok", "task_failed", "executor_panicked"}]
  /\ refused \subseteq Tasks

\* The runtime drives the task manager only as TaskManager allows: what holds of
\* TMSpec holds of the runtime.
ImplementsTaskManager == TMSpec

\* A live task always has its next poll coming: it is being polled, an instance of it
\* is on its way, or a waker that was not used up holds it.  No wake-up made during a poll,
\* from this executor or another, is swallowed by the poll's end (executor.rs:113-138);
\* only a full waiting_tasks loses one.
WakeNotLost ==
  \A t \in Tasks : future[t] = "some" /\ ~abort[t] => Referenced(t) \/ t \in refused

\* A call of run_blocking returns its own result: it succeeds only if its own future
\* completed, and reports a failed task only if its own future panicked or a full
\* waiting_tasks refused it.
CallMatchesFuture ==
  \A c \in Callers :
    /\ call[c] = "try_recv" =>
         \/ future[job[c]] = "none"
         \/ \E e \in Executors : stage[e] = "sent" /\ running[e] = job[c]
    /\ call[c] = "out" /\ outcome[c] = "task_failed" =>
         future[job[c]] = "poisoned" \/ job[c] \in refused

\* A future ends once: after it has sent its result nothing but the end of that poll
\* touches it.  A wake-up that arrives later, or that another executor holds meanwhile,
\* never polls it again or changes its result (executor.rs:122-130).
EndsOnce ==
  [][\A t \in Tasks : result[t] # "open" =>
       /\ result'[t] = result[t] /\ pending'[t] = pending[t]
       /\ \/ future'[t] = future[t]
          \/ \E e \in Executors : running[e] = t /\ PollReady(e)]_vars

\* run_blocking returns or panics: its task is eventually polled to the end.
RunBlockingReturns == \A c \in Callers : call[c] = "recv" ~> call[c] = "out"

=============================================================================
