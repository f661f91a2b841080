----------------------------- MODULE TaskManager -----------------------------
(***************************************************************************)
(* TaskManager of src/src/task/manager.rs, with the threads that drive it: *)
(* the executors' loop (src/src/executor.rs, run) and every other thread   *)
(* that spawns or wakes a task (the thread in run_blocking, the reactor,   *)
(* the pool).  One action per access to state that threads share.  The two *)
(* ring buffers are atomic FIFO queues here: BoundedQueue, which           *)
(* RingBufferDiscipline states when the ring buffer implements.            *)
(***************************************************************************)
EXTENDS Naturals, Sequences

CONSTANTS Executors,      \* ExecutorId(0) .. ExecutorId(num_workers - 1)
          Clients,        \* the other threads that register tasks
          Tasks,
          TaskBound,      \* capacity of waiting_tasks, 128 * 1000 in the code
          ExecutorBound,  \* capacity of waiting_executors, 128 * 1000 in the code
          MaxQueuedTasks, \* MAX_QUEUED_TASKS, 10_000 in the code
          RegisterOrder   \* the executors in the order build registers them

ASSUME TaskManagerAssumption ==
  /\ Executors \cap Clients = {} /\ Executors # {} /\ Tasks # {}
  /\ TaskBound \in Nat /\ ExecutorBound \in Nat
  /\ MaxQueuedTasks \in Nat \ {0}
  /\ RegisterOrder \in Seq(Executors)
  /\ \A e \in Executors : \E i \in 1 .. Len(RegisterOrder) : RegisterOrder[i] = e
  /\ \A i, j \in 1 .. Len(RegisterOrder) :
       RegisterOrder[i] = RegisterOrder[j] => i = j
  /\ Len(RegisterOrder) <= ExecutorBound

VARIABLES waiting_tasks, waiting_executors,
          ready_queue,   \* ready_queue[e]: the channel executor e receives from
          abort,         \* abort[t]: the task's AtomicBool
          pc,            \* where each thread is
          task,          \* the task a thread registers or screens
          target,        \* the executor a registering thread popped
          running        \* running[e]: the task executor e is forwarding

tmvars == <<waiting_tasks, waiting_executors, ready_queue, abort, pc, task,
            target, running>>

Threads == Executors \cup Clients

\* build has called register_executor for every executor; each waits in recv.
TMInit ==
  /\ waiting_tasks = <<>>
  /\ waiting_executors = RegisterOrder
  /\ ready_queue = [e \in Executors |-> <<>>]
  /\ abort = [t \in Tasks |-> FALSE]
  /\ pc = [th \in Threads |-> IF th \in Executors THEN "recv" ELSE "idle"]
  /\ task = [th \in Threads |-> CHOOSE t \in Tasks : TRUE]
  /\ target = [th \in Threads |-> CHOOSE e \in Executors : TRUE]
  /\ running = [e \in Executors |-> CHOOSE t \in Tasks : TRUE]

Goto(th, from, to) == pc[th] = from /\ pc' = [pc EXCEPT ![th] = to]

\* Where a thread may call the manager from, and where it returns to.
Home(th) == IF th \in Executors THEN "run" ELSE "idle"

-----------------------------------------------------------------------------
(* register_or_execute_non_blocking_task, from spawn, run_blocking or a waker. *)

Register(th, t) ==
  /\ Goto(th, Home(th), "check")
  /\ task' = [task EXCEPT ![th] = t]
  /\ UNCHANGED <<waiting_tasks, waiting_executors, ready_queue, abort, target, running>>

\* task.has_aborted(): return at once.
RegisterAborted(th) ==
  /\ abort[task[th]]
  /\ Goto(th, "check", Home(th))
  /\ UNCHANGED <<waiting_tasks, waiting_executors, ready_queue, abort, task, target, running>>

\* Mutant: the abort flag is not checked.
RegisterUnchecked(th) ==
  /\ Goto(th, "check", "pop")
  /\ UNCHANGED <<waiting_tasks, waiting_executors, ready_queue, abort, task, target, running>>

RegisterLive(th) ==
  /\ ~abort[task[th]]
  /\ Goto(th, "check", "pop")
  /\ UNCHANGED <<waiting_tasks, waiting_executors, ready_queue, abort, task, target, running>>

\* self.waiting_executors.pop() is Some(exec).
PopExecutor(th) ==
  /\ waiting_executors # <<>>
  /\ Goto(th, "pop", "send")
  /\ target' = [target EXCEPT ![th] = Head(waiting_executors)]
  /\ waiting_executors' = Tail(waiting_executors)
  /\ UNCHANGED <<waiting_tasks, ready_queue, abort, task, running>>

\* self.waiting_executors.pop() is None.
PopNoExecutor(th) ==
  /\ waiting_executors = <<>>
  /\ Goto(th, "pop", "push")
  /\ UNCHANGED <<waiting_tasks, waiting_executors, ready_queue, abort, task, target, running>>

\* sender.send(..) on the channel of the popped executor; it blocks when full.
SendTask(th) ==
  /\ Len(ready_queue[target[th]]) < MaxQueuedTasks
  /\ Goto(th, "send", Home(th))
  /\ ready_queue' = [ready_queue EXCEPT ![target[th]] = Append(@, task[th])]
  /\ UNCHANGED <<waiting_tasks, waiting_executors, abort, task, target, running>>

\* Mutant: the capacity of waiting_tasks is not checked.
PushTaskUnchecked(th) ==
  /\ Goto(th, "push", Home(th))
  /\ waiting_tasks' = Append(waiting_tasks, task[th])
  /\ UNCHANGED <<waiting_executors, ready_queue, abort, task, target, running>>

PushTask(th) ==
  /\ Len(waiting_tasks) # TaskBound
  /\ Goto(th, "push", Home(th))
  /\ waiting_tasks' = Append(waiting_tasks, task[th])
  /\ UNCHANGED <<waiting_executors, ready_queue, abort, task, target, running>>

\* waiting_tasks.push(task).unwrap() panics: it ends the calling thread, or the
\* poll the call was made from, which catch_unwind in forward_task stops.
PushTaskFull(th) ==
  /\ Len(waiting_tasks) = TaskBound
  /\ Goto(th, "push", IF th \in Executors THEN "run" ELSE "panicked")
  /\ UNCHANGED <<waiting_tasks, waiting_executors, ready_queue, abort, task, target, running>>

-----------------------------------------------------------------------------
(* The executor's loop. *)

\* self.ready_queue.recv()
Recv(e) ==
  /\ ready_queue[e] # <<>>
  /\ Goto(e, "recv", "run")
  /\ running' = [running EXCEPT ![e] = Head(ready_queue[e])]
  /\ ready_queue' = [ready_queue EXCEPT ![e] = Tail(@)]
  /\ UNCHANGED <<waiting_tasks, waiting_executors, abort, task, target>>

\* forward_task returns.
RunEnd(e) ==
  /\ Goto(e, "run", "ready")
  /\ UNCHANGED <<waiting_tasks, waiting_executors, ready_queue, abort, task, target, running>>

\* forward_task unwinds out of run: task.future.lock().unwrap() of a poisoned mutex.
Die(e) ==
  /\ Goto(e, "run", "dead")
  /\ UNCHANGED <<waiting_tasks, waiting_executors, ready_queue, abort, task, target, running>>

(* executor_ready *)

\* self.waiting_tasks.pop() is Some(task).
ReadyPop(e) ==
  /\ waiting_tasks # <<>>
  /\ Goto(e, "ready", "screen")
  /\ task' = [task EXCEPT ![e] = Head(waiting_tasks)]
  /\ waiting_tasks' = Tail(waiting_tasks)
  /\ UNCHANGED <<waiting_executors, ready_queue, abort, target, running>>

\* Mutant: the executor parks without looking at waiting_tasks.
ReadyNoneUnchecked(e) ==
  /\ Goto(e, "ready", "park")
  /\ UNCHANGED <<waiting_tasks, waiting_executors, ready_queue, abort, task, target, running>>

\* self.waiting_tasks.pop() is None: leave the loop.
ReadyNone(e) ==
  /\ waiting_tasks = <<>>
  /\ Goto(e, "ready", "park")
  /\ UNCHANGED <<waiting_tasks, waiting_executors, ready_queue, abort, task, target, running>>

\* task.has_aborted(): take the next one.
SkipAborted(e) ==
  /\ abort[task[e]]
  /\ Goto(e, "screen", "ready")
  /\ UNCHANGED <<waiting_tasks, waiting_executors, ready_queue, abort, task, target, running>>

KeepTask(e) ==
  /\ ~abort[task[e]]
  /\ Goto(e, "screen", "resend")
  /\ UNCHANGED <<waiting_tasks, waiting_executors, ready_queue, abort, task, target, running>>

\* Mutant: the task is sent twice.
SendSelfTwice(e) ==
  /\ Len(ready_queue[e]) < MaxQueuedTasks
  /\ Goto(e, "resend", "resend")
  /\ ready_queue' = [ready_queue EXCEPT ![e] = Append(@, task[e])]
  /\ UNCHANGED <<waiting_tasks, waiting_executors, abort, task, target, running>>

\* Mutant: the return after the send is missing, so the executor also parks.
SendSelfAndPark(e) ==
  /\ Len(ready_queue[e]) < MaxQueuedTasks
  /\ Goto(e, "resend", "park")
  /\ ready_queue' = [ready_queue EXCEPT ![e] = Append(@, task[e])]
  /\ UNCHANGED <<waiting_tasks, waiting_executors, abort, task, target, running>>

\* sender.send(..) on the executor's own channel.
SendSelf(e) ==
  /\ Len(ready_queue[e]) < MaxQueuedTasks
  /\ Goto(e, "resend", "recv")
  /\ ready_queue' = [ready_queue EXCEPT ![e] = Append(@, task[e])]
  /\ UNCHANGED <<waiting_tasks, waiting_executors, abort, task, target, running>>

\* self.waiting_executors.push(executor_id).unwrap()
Park(e) ==
  /\ Len(waiting_executors) # ExecutorBound
  /\ Goto(e, "park", "recv")
  /\ waiting_executors' = Append(waiting_executors, e)
  /\ UNCHANGED <<waiting_tasks, ready_queue, abort, task, target, running>>

-----------------------------------------------------------------------------
\* JoinHandle::abort
Abort(t) ==
  /\ ~abort[t]
  /\ abort' = [abort EXCEPT ![t] = TRUE]
  /\ UNCHANGED <<waiting_tasks, waiting_executors, ready_queue, pc, task, target, running>>

RegisterStep(th) ==
  \/ RegisterAborted(th) \/ RegisterLive(th) \/ PopExecutor(th) \/ PopNoExecutor(th)
  \/ SendTask(th) \/ PushTask(th) \/ PushTaskFull(th)

ExecutorReadyStep(e) ==
  \/ ReadyPop(e) \/ ReadyNone(e) \/ SkipAborted(e) \/ KeepTask(e)
  \/ SendSelf(e) \/ Park(e)

TMNext ==
  \/ \E th \in Threads : (\E t \in Tasks : Register(th, t)) \/ RegisterStep(th)
  \/ \E e \in Executors : Recv(e) \/ RunEnd(e) \/ Die(e) \/ ExecutorReadyStep(e)
  \/ \E t \in Tasks : Abort(t)

TMSpec == TMInit /\ [][TMNext]_tmvars

-----------------------------------------------------------------------------
(* Properties *)

RegisterPC == {"check", "pop", "send", "push"}
ExecutorPC == RegisterPC \cup {"recv", "run", "ready", "screen", "resend", "park", "dead"}
ClientPC   == RegisterPC \cup {"idle", "panicked"}

\* Every variable keeps the type its Rust declaration gives it.
TMTypeOK ==
  /\ waiting_tasks \in Seq(Tasks) /\ Len(waiting_tasks) <= TaskBound
  /\ waiting_executors \in Seq(Executors)
  /\ ready_queue \in [Executors -> Seq(Tasks)]
  /\ abort \in [Tasks -> BOOLEAN]
  /\ pc \in [Threads -> ExecutorPC \cup ClientPC]
  /\ \A e \in Executors : pc[e] \in ExecutorPC
  /\ \A c \in Clients : pc[c] \in ClientPC
  /\ task \in [Threads -> Tasks]
  /\ target \in [Threads -> Executors]
  /\ running \in [Executors -> Tasks]

Parked(e) == \E i \in 1 .. Len(waiting_executors) : waiting_executors[i] = e

Sending(th, e) == pc[th] = "send" /\ target[th] = e

\* Every executor is at exactly one place: parked in waiting_executors, about to be
\* sent a task by the one thread that popped it, with one task in its channel, or
\* working.  No executor is lost by executor_ready or by a registration, and none
\* is handed two tasks (task/manager.rs:84-110).
ExecutorTokens ==
  /\ \A i, j \in 1 .. Len(waiting_executors) :
       waiting_executors[i] = waiting_executors[j] => i = j
  /\ \A e \in Executors :
       /\ \A a, b \in Threads : Sending(a, e) /\ Sending(b, e) => a = b
       /\ Len(ready_queue[e]) <= 1
       /\ Parked(e) => ready_queue[e] = <<>> /\ \A th \in Threads : ~Sending(th, e)
       /\ \A th \in Threads : Sending(th, e) => ready_queue[e] = <<>>
       /\ pc[e] = "recv" <=> \/ Parked(e)
                             \/ \E th \in Threads : Sending(th, e)
                             \/ ready_queue[e] # <<>>

\* No send to an executor ever blocks or fails and no executor fails to park: a
\* sender finds room in the channel, its receiver alive, and a parking executor
\* room in waiting_executors (the unwraps of task/manager.rs:90, 94 and 105).
SendsSucceed ==
  /\ \A th \in Threads : pc[th] = "send" =>
       Len(ready_queue[target[th]]) < MaxQueuedTasks /\ pc[target[th]] # "dead"
  /\ \A e \in Executors : pc[e] = "resend" => Len(ready_queue[e]) < MaxQueuedTasks
  /\ \A e \in Executors : pc[e] = "park" => Len(waiting_executors) < ExecutorBound

\* An instance of t that will be polled without another has_aborted check.
Committed(t) ==
  \/ \E th \in Threads : pc[th] \in {"pop", "send"} /\ task[th] = t
  \/ \E e \in Executors : pc[e] = "resend" /\ task[e] = t
  \/ \E e \in Executors : \E i \in 1 .. Len(ready_queue[e]) : ready_queue[e][i] = t
  \/ \E e \in Executors : pc[e] \in {"run"} \cup RegisterPC /\ running[e] = t

\* JoinHandle::abort is final: once a task is aborted and no instance of it is past
\* its last has_aborted check, no wake-up makes it run again (task/manager.rs:86, 99).
AbortIsFinal ==
  [][\A t \in Tasks : abort[t] /\ ~Committed(t) => ~Committed(t)']_tmvars

Settled == /\ \A e \in Executors : Parked(e)
           /\ \A c \in Clients : pc[c] = "idle"

\* A task does not wait while every executor waits: "If no executor is ready,
\* register the task as waiting otherwise execute immediately" (task/manager.rs:97).
NoStrandedTask == Settled => waiting_tasks = <<>>

\* The executor looks at waiting_tasks before it next waits for work.
Looks(e) == pc[e] \notin {"park", "dead"} /\ ~(pc[e] = "recv" /\ Parked(e))

Attended == waiting_tasks = <<>> \/ \E e \in Executors : Looks(e)

\* Two things alone can leave a queued task without an executor that looks for it: a
\* thread outside the executors, which found none waiting, queues its task after the
\* last executor has looked (task/manager.rs:94, 109), or an executor dies.  A spawn
\* or a wake from a poll, an abort, and however executors pass tasks on, never do.
StrandedOnlyFromOutside ==
  [][Attended => \/ Attended'
                 \/ \E c \in Clients : PushTask(c)
                 \/ \E e \in Executors : Die(e)]_tmvars

=============================================================================
