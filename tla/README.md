# A TLA+ model of hooch

hooch (`src/`) is a small asynchronous runtime for Rust: executors on threads of
their own, a task manager between them, a reactor thread over `mio`, a pool for
blocking calls, and channels, timers, files and sockets built on these. This
directory models it, checks it with TLC and proves its main safety results with
TLAPS.

## 1. Inventory

| component | state | operations | interacts with |
|---|---|---|---|
| Ring buffer `utils/ring_buffer.rs` | slots, `start`, `end`, `count` (atomics) | `new`, `push`, `pop` | memory shared by all threads |
| Task manager `task/manager.rs` | `waiting_tasks`, `waiting_executors` (ring buffers), `executors` (channels) | `register_executor`, `register_or_execute_non_blocking_task`, `executor_ready` | called by wakers, spawns, `run_blocking`, executors |
| Executor `executor.rs` | `ready_queue`, `panic_tx` | `run`, `forward_task` | receives from the manager, polls tasks |
| Tasks and wakers `task/task.rs` | `future: Mutex<Option<..>>`, `abort` | `waker`, `wake`, `wake_by_ref`, `has_aborted` | a waker registers its task again |
| Spawner, join handle `spawner.rs` | a bounded channel, `abort` | `spawn`, `abort`, `JoinHandle::poll` | manager, channel |
| Runtime, handle `runtime.rs` | panic channel, thread-local guard | `build`, `run_blocking`, `spawn`, `drop` | blocks its thread on a result channel |
| Bounded channel `sync/mpsc/bounded_channel.rs` | std channel, `queue_cnt`, `clone_count` | `send`, `clone`, `drop`, `recv`, `try_recv` | registers a tag with the reactor |
| Reactor `reactor.rs` | `reactor_tag_buffer`, `reactor_tags`, `statuses` | `register_reactor_tag`, `store_waker_channel`, `poll`, `run` | wakes tasks |
| Thread pool `pool/thread_pool.rs` | `cursor`, a channel per thread | `execute`, the threads' loop | runs closures of files and sockets |
| Files `fs/file.rs`, TCP `net/tcp/*` | shared slot for the result, `has_polled` | `open`, `create`, `open_hooch`; `connect`, `bind`; `read`, `write`, `accept` | pool, reactor |
| UDP `net/udp.rs`, timers `time/*` | a token in `statuses` | `send_to`, `recv_from`; `sleep`, `timeout` | reactor |
| `blocker.rs`, `select.rs` | all code is commented out | | |
| `hooch-macro` | none: rewrites `main` at compile time | | |

What is hard here: every queue is shared by threads without a lock around the
compound operations (check, then store; pop, then park); a wake-up must survive
every order of polls, sends and reactor steps; panics unwind through locks and
channels; buffers are bounded and a full one panics in whichever thread happens to
push. Correctness of each part:

* ring buffer: no slot is read empty or overwritten, and it is a FIFO queue;
* task manager: an executor is at one place at a time, a send to it never blocks, executors
  themselves strand no task, an aborted task does not come back;
* runtime: a wake-up is never swallowed by the end of a poll, a future ends once,
  `run_blocking` returns its own future's result, and returns;
* channel: the count agrees with the messages, `recv` fails only on a closed channel, a
  waiting receiver is woken;
* join handle: it returns what its task did, its holder is woken, and its task ends whatever
  becomes of it;
* offloaded operations: a closure runs once, its result is announced, the future ends;
* sockets and timers: a task that sleeps on something ready is woken, a timer tells its task
  after its time and not before.

## 2. Modules

| module | models | extends or composes |
|---|---|---|
| `BoundedQueue` | an atomic bounded FIFO queue: what the ring buffer promises | |
| `RingBuffer` | `push`, `pop`, one action per access to memory | |
| `RingBufferDiscipline` | the same under a calling discipline; refinement mapping, inductive invariant | `RingBuffer`, instance of `BoundedQueue` |
| `TaskManager` | manager, executor loop, abort, and any thread that registers tasks | |
| `Runtime` | futures, mutex, poisoning, `catch_unwind`, panic channel, `run_blocking`, `spawn`, wakers | `TaskManager` |
| `Channel` | bounded channel, tag buffer, `reactor_tags`, the reactor's `WAKER_TOKEN` branch | |
| `Offload` | file, connect and bind futures, pool, tag loop | |
| `Join` | a spawned task, the send of its result, `JoinHandle` | `Channel` |
| `Reactor` | `statuses`, `poll`, `status_store`, `has_token_progressed`, the token branch of `run` | |
| `Readiness` | `accept`, `read`, `write`, `recv_from`, `send_to`, `Sleep`, `Timeout`, sockets and timers | `Reactor` |
| `RingBufferProofs`, `TaskManagerProofs`, `RuntimeProofs`, `ChannelProofs`, `JoinProofs`, `OffloadProofs`, `ReadinessProofs` | inductive invariants, lemmas, theorems | the module they are named after; `RuntimeProofs` also `TaskManagerProofs`, `JoinProofs` also `ChannelProofs` |
| `MC...` | instances for TLC | |

**State and code.** Variables keep the names of the Rust fields. Where each thread is
inside a function is a program counter (`pc`, `stage`, `call`, `spc`, `rpc`, `opc`, `child`, `tpc`), and
the locals it has read are variables of their own, so that a stale read is a state.
An action is one access to something that threads share; code between two such
accesses belongs to the action before it. A step under a mutex is one action.
`TaskManager` uses the ring buffers as atomic queues. The code does not give them
that (section 4); the theorem `RingImplementsQueue` says under which discipline it
would. Everything about the manager, the runtime, the channel and the pool is
therefore about those parts given correct queues.

**Memory model.** Each thread's accesses take effect in program order. The code uses
`Relaxed` on `count` and `queue_cnt`, so weaker orders exist in reality; what TLC
refutes is refuted without them.

**Abstractions.** A task's future is what its polls can do: spawn, wake itself, hand its
waker out, return `Pending` (only after arranging a wake-up), complete or panic.
Messages are counted, not named: their order is the std channel's. The results of
system calls are one value. `TMInit` is the state after `build`, with every executor
registered and waiting; `num_workers(0)`, after which `run_blocking` waits for ever, is
excluded (`Executors # {}`). `ExecutorTask::Finished` is sent nowhere in the repository.

`RingBuffer`. The discipline has three parts: pushes exclude each other, pops exclude each
other, and no pop begins while a push is between `count.fetch_add` (line 103) and
`end.store` (104). A push and a pop may overlap otherwise. `assume_init` on an empty slot is
undefined behaviour and yields any word.

`Runtime`. A poll holds the task's mutex from `Lock` to its end; other executors with the same
task wait. The result is sent (`SendResult`, visible to the caller at once) before the poll ends and the
slot is emptied (`PollReady`). A panic poisons the mutex, drops the result's sender and goes to
`signal`, where `panic_tx.send` waits for room. A push to a full `waiting_tasks` inside a poll is
a panic of that poll; outside it ends the calling thread. A waker that a poll handed out is in `armed`; using
it (`UseWaker`) may consume it, as `wake` does, or leave one, as `wake_by_ref` and clones do. `refused` is a history
variable: the tasks that a full `waiting_tasks` turned away. A task that nothing refers to any more (`Referenced`) is
dropped, and `run_blocking` learns of it (`TaskFailed`). `Handle::spawn` and `run_blocking` both count as calls.

**Where liveness ends.** The runtime does not serve every woken task: a wake from a thread outside the
executors can strand the task (run `runtime_second_call`), and the reactor and the pool's threads are such
threads. `Channel`, `Join`, `Offload` and `Readiness` therefore assume no fairness of the poll that
follows a wake-up, and their liveness properties claim only that the task is queued. What follows is
the manager's part, with the guarantees and the limits that `TaskManager` and `Runtime` show.

`Channel`. One receiver task. `woken` means an instance of the task is queued. `tried` and `moved` are
history variables: they record that `try_recv` took a message and that the receiver went
to another task, the two uses under which the guarantees below end. `ParkedInit` is
reached from `ChInit` by one poll of `recv`. `Workers` is the number of executor threads that run
the senders' and the receiver's polls: a send that waits for room holds one, and a call begins
only on a free one. Other channels, files, connects and binds share the tag buffer and the reactor:
`OtherTag` registers a tag, `OtherWake` wakes the reactor; the two are separate because connect and bind do
only the first.

`Join`. The child is queued until its future ends, panics, or is dropped because its abort
flag was read. An executor that holds the task polls it even if it is aborted meanwhile.
The holder may await the handle, stop polling it (a `timeout` around it, or `(&mut handle).await`), and afterwards
keep, drop or abort it; abort sets the flag and then drops the handle, in two steps. The channel is
`Channel`'s, from its fresh state, with capacity one and one sender.

`Offload`. Each operation has a task of its own. The reactor may be woken at any time by a send on any channel,
the end of every spawned task among them (`OtherWake`). Such a wake-up drains the tag of a file whose result is still
to come; `early` records the files for which that happened to the last tag (`TooEarly`). A connect or bind
wakes its task from the pool's thread; if that finds `waiting_tasks` full the thread dies
with the closures in its channel (`WakeTaskFull`), and an `execute` on it panics (`SendJobDead`). An address that
resolves to nothing panics in the first poll (`NetBadAddress`).

`Reactor`, `Readiness`. A waker is the task it wakes, and `woken` the tasks that are queued to be
polled. An entry of `statuses` is vacant, happened, or the task of `Awaited`. `edge` holds the
events `mio` has for the reactor (edge-triggered: an event is sent when something becomes ready
and not again), `batch` those the reactor has been given and not handled. The five
socket operations are one loop: the system call, `WouldBlock`, `Reactor::poll`; `dir` says for
which readiness. `read` and `write` borrow the stream, so tasks that share one take turns (`TurnOf`);
`accept`, `recv_from` and `send_to` take `&self` and need not. A timer is named after its task and used
once; it is dropped with its operation, and closing the descriptor takes its event out of
`mio` but not out of `batch`. A duration of zero disarms the timer (`SleepArm`). `Timeout` polls its timer first on
every poll. `accept` may fail after it has taken a connection (`IoOk`). The kernel's side (`Arrive`,
`Drain`, `HangUp`, `Expire`) acts at any time. A stream that `accept` returns is one more stream.

## 3. Runs

| run | specification | checks | instance, distinct states |
|---|---|---|---|
| `ring_disciplined` | `DisciplinedSpec` | `NoUninitRead`, `NoOverwrite`, `IInv`, refinement of `BoundedQueue` | 2 producers, 2 consumers, capacity 2, count modulo 4; 760 000 |
| `ring_spsc` | `Spec` | `NoUninitRead` is violated | 1 producer, 1 consumer |
| `runtime` | `FairRTSpec` | types, `CallMatchesFuture`, `NoStrandedTask`, refinement of `TaskManager`, `AbortIsFinal`, `RunBlockingReturns` | 2 executors, 1 caller with 1 call, 2 tasks, one panicking, 1 waiting; 276 000 |
| `runtime_wakers` | `RTSpec` | the manager's types and bounds, `SendsSucceed`, `ExecutorTokens`, `WakeNotLost`, `EndsOnce`, `StrandedOnlyFromOutside` | 2 executors, 1 caller with 2 calls and a thread that uses wakers, 1 panicking task; 456 000 |
| `runtime_second_call` | `FairRTSpec` | `RunBlockingReturns` is violated | 1 executor, 2 calls |
| `channel` | `FairParkedSpec` | types, `CountAgrees`, `NoFalseRecvError`, `WakeInFlight`, `RecvWoken` | 2 handles, 3 workers, bound 1, 3 sends, 2 tags, 1 foreign tag; 842 000 |
| `channel_lost_wake` | `FairChSpec` | `RecvWoken` is violated | 1 send |
| `offload` | `FairOffSpec` | types, `JobOnce`, `ResultSignalled`, `CompletesUnlessEarly` | 1 file, 1 connect, 2 threads, 2 tags, the reactor woken by others at any time; 16 000 |
| `offload_two_files` | `FairOffSpec` | `OperationCompletes` is violated | 2 files, 1 thread, no channel |
| `readiness` | `FairRdSpec` | types, `ReadinessTold`, `NoEarlyEnd`, `TimerEnds`, `OpServed` | 2 tasks that share a stream, one of them under a timeout first, and a sleeping task; 91 000 |
| `join` | `FairJSpec` | types, `JoinOutcome`, `ChildEnds`, `JoinWoken` | 2 workers, 2 tags, 3 foreign tags, 2 yields; 56 000 |
| `join_panic` | `FairJSpec` | `PanicReported` is violated | 2 workers, no yields |

**Bounds.** Capacities of 1 to 3 make every buffer full and empty within a run: the ring
wraps around, `waiting_tasks` overflows (`PushTaskFull`), the tag buffer overflows
(`SendTagFull`, `TagFull`), a sender blocks on a full channel. Two executors are the least with
which two of them hold the same task; two senders the least with which tags and
wake-ups merge; in `channel` two tags with one foreign tag make a full buffer hold one of
this channel's. In `readiness` two tasks on one stream are the least with which a waker left by a
timed-out operation is found by another task, and three tokens make batches of several events.
The run has no listener and no UDP socket: they run the same loop and differ from a stream in `TurnOf` and `HangUp`, and
in that two tasks may wait on one, which loses wake-ups (section 4). The theorem `ReadinessNotLost` covers any mixture of
them with one task each. `runtime` makes one call from outside on a fresh runtime: with a second one
`NoStrandedTask` and `RunBlockingReturns` fail (`runtime_second_call`), and what holds of any number is `StrandedOnlyFromOutside`.
In `offload` each of the two operations can fill a pool thread's channel of one for the other.
`MaxCalls`, `MaxPending`, `MaxSelfWakes`, `MaxSends`, `MaxOthers`, `MaxYields`, `MaxItems` only bound how
often the environment acts. Deadlock is checked in `ring_disciplined`; elsewhere the system may
stop, because the environment has spent its bound or because executors are dead.

**Fairness.** Weak fairness of every thread's next step inside a call: threads are
scheduled by the operating system and none of these steps waits for a choice. That a woken task is polled
follows in `Runtime` from the steps of the executors and is assumed nowhere else, but for the spawned task of `Join` (below). Strong
fairness of the end of a poll (`RTFairness`): a future's poll returns, although it may spawn
and wake in between. Likewise for the end
of the child's future in `JFairness`, although its holder may go on polling: the queues of the
task manager are first in, first out, so a queued task has its turn; whether the queue is looked at is the
manager's affair, as above. `RdFairness` adds that an armed timer expires. No fairness for data that arrives, for
starting a call, aborting, cancelling,
dropping or moving anything. `std` mutexes and channels are served by the weak fairness
of the step that waits.

## 4. What the checks show

Most of what the code relies on holds, also in corners that are hard to test: executors are
never lost or doubled, a wake-up during a poll is kept, a second executor that waited for the
mutex of a finished future does nothing, executors strand no task among themselves (only a registration from outside
can, or a death), a recv is woken for every message once its waker is stored (because the reactor leaves
wakers in `reactor_tags`: taking them out would break it, as the mutant of `WakeTag` shows), the racy cursor of the pool
is harmless, readiness between `WouldBlock` and `Reactor::poll` is recorded, a waker left by a timed-out operation is
replaced by the next (`ReactorPollPendingFirst` shows what would happen otherwise), a late timer event disturbs
nobody, the holder of a join handle that has parked is woken when the task completes, and a spawned task
ends whatever becomes of its handle.

Where a run refutes what a comment or a test says:

* `ring_spsc`: `push` raises `count` before it publishes `end`. A pop in between sees `start = end` and a
  positive count, takes the element and moves `start` past `end`; the next pop reads an
  empty slot. The header promises concurrent push and pop.
* `runtime_second_call`: an executor finds no task, a caller finds no executor and queues its
  task, the executor parks. The task stays queued with everyone idle. The test
  `test_obtaining_multiple_handles_from_same_runtime` makes exactly such a second call.
  Only a registration from outside, or an executor's death, does this (`StrandedOnlyFromOutside`).
* `channel_lost_wake`: the first `recv` of a channel can miss the first message: `poll_recv` loads the count, a send adds
  its message, its count and its tag, the reactor finds no waker for the tag, and only then the waker is stored.
* `offload_two_files`: two concurrent file operations can leave one waiting for ever. So can one file beside a channel:
  `OperationCompletes` fails in `MCOffload.cfg` too, where `CompletesUnlessEarly` names the exceptions.
* `join_panic`: the join handle of a task that panics never returns, although `spawner.rs:111` promises
  `Poll::Ready` "when the task completes or an error occurs".

Seen while modelling, visible in the actions named, with no run of their own:

* two pushes may take the same slot and two pops the same element (`PushLoadEnd`, `PopLoadStart`);
* the panic channel has room for one message and only the end of a `run_blocking` call reads
  it: a second panic blocks its executor for ever (`SignalPanic`), and the message may be
  reported by a later, unrelated call (`ExecutorPanicked`);
* a panicking task that was woken again finds its mutex poisoned and kills the executor that gets
  it (`LockPoisoned`), although `executor.rs:97-100` says that a panic "is caught and logged";
* `recv` on a closed channel waits for ever (`LoadZero`), not only that of a join handle;
* as many senders blocked on full channels as there are workers leave no thread for the
  receiver: a woken receiver finds no `FreeWorker` when `Workers` is 2 and both senders wait in `SendOk`;
* a join handle that is first polled while its task sends can miss the result, the lost wake-up of
  `channel_lost_wake`: `JoinWoken` speaks of a holder that has parked (`waker = "mine"`);
* two tasks that wait on one listener or UDP socket overwrite each other's waker and one is
  left asleep although a connection is there: `ReadinessTold` fails within twelve steps when the socket
  of `MCReadiness.cfg` is a listener;
* `sleep(Duration::ZERO)` disarms its timer and never ends, and a timeout of zero never fires: `TimerEnds` excuses
  exactly that (`timer[t] = "disarmed"`);
* `timeout` reports a timeout although its future is ready, if both are (`SleepReady`);
* a wake from the reactor that finds `waiting_tasks` full panics in the reactor's thread with
  `statuses` or `reactor_tags` locked, which ends the reactor and poisons the lock (`Runtime` has the thread's end as
  `ClientOverflow`; the other modules leave a full `waiting_tasks` to it, but for `WakeTaskFull`);
* after a reported panic the runtime guard is reset, and a second `build` on the thread returns the
  old runtime whatever `num_workers` asks for;
* the last sender's `drop` compares the count before the subtraction with 0 and never
  removes the tag that line 98 promises to remove (`DropSender`): `clone_count` is the number of handles, at least one
  before a drop (`ClonesCounted` in `ChannelProofs`);
* `try_recv` does not lower `queue_cnt`, so a later `recv` fails on an open channel (`TryRecv`);
* `bounded_channel(0)` cannot pass a message to `recv`, which waits for a count that is raised after
  the rendezvous (`Bound` is assumed positive);
* `Drop for Runtime` stops and joins no thread, contrary to its comment.

## 5. Theorems

All proofs are checked by TLAPS for every value of the constants that satisfies the
`ASSUME` of the module. No fact is assumed besides those and the library's theorems.

* `RingTypeOK`: `Spec => []TypeOK`, without any discipline: indices stay inside the allocation even
  after `count` has wrapped.
* `RingIInv`, `RingNoUninitRead`, `RingNoOverwrite`, `RingImplementsQueue`: under `DisciplinedSpec`. Neither of the
  two safety properties is inductive. `IInv` adds that at most one push and one pop is in
  progress, that `end` is `count` slots after `start` once the steps under way are accounted for
  (`IndicesAgree`, through `LogicalStart` and `LogicalEnd`), that what a call has read is still true
  when it uses it (`PushRegisters`, `PopRegisters`), and which slots hold values (`SlotsAgree`). The
  refinement takes a push to happen at `count.fetch_add`, a pop at `count.fetch_sub`, and the
  calls that fail at their load of `count`. Each action has a lemma of its own.
* `TMTypes`, `TMTokens`, `TMSendsSucceed`, `TMAbortIsFinal`: under `TMSpec`, with any number of
  executors, clients and tasks and clients that register at any time. `ExecutorTokens` is inductive
  together with the types: it counts the places of an executor. `TMSendsSucceed`
  follows from it, with a counting argument for the room in `waiting_executors`.
* `TMStrandedOnlyFromOutside`: under `TMSpec`. A step may take the last executor that looks at `waiting_tasks` away from a queued
  task only if it is a `PushTask` of a thread outside the executors or a `Die`. An executor that
  queues a task in its poll still looks itself, one that is about to park does not count as looking, and by
  `ExecutorTokens` an executor that is sent a task is not parked.
* `RTImplementsTaskManager`: `RTSpec` implements `TMSpec` with the identity mapping; `RTManagerSafe`
  carries the manager's results, `StrandedOnlyFromOutside` among them, over to the runtime.
* `RTTypes`, `RTWakeNotLost`, `RTCallMatchesFuture`, `RTEndsOnce`: under `RTSpec`, with any number of executors,
  callers, wakers and tasks, wakers that are used up, panics and full queues. None of the last three is inductive. `RTInv` adds
  that `stage` agrees with `pc` (`StageAgrees`), that the mutex lets one executor poll a task
  (`OnePoll`), that nothing leads to a task before it is created (`NewUntouched`), that result and future agree up to
  the poll that has sent and not ended (`ResultFollows`), that a task of `run_blocking` has no join handle
  (`JobNotSpawned`), and that what a poll has arranged is still there when it ends, unless a full
  `waiting_tasks` refused the task (`ArrangedKept`). The step lemmas split a step into
  what it does to the acting thread and the fact that the others stay (`OthersStay`); an instance of a
  task is followed through `waiting_tasks`, a thread's hands, an executor's channel and the mutex
  (`WaitsKept`, `HeldKept`, `SentKept`, `LockingKept`). `WakeNotLost` excuses a task in `refused`, and `CallMatchesFuture` lets
  such a task's call fail.
* `ChannelTypes`, `ChannelCounts`, `ChannelNoFalseError`: from a fresh channel and from a parked
  receiver, with any number of senders. `ChInv` adds `ClonesCounted` and `CountHeld`: a count that `recv` has read
  stays positive until it has taken its message. `CountAgrees` and `NoFalseRecvError` speak of channels on which
  `try_recv` was not used, because it does not lower `queue_cnt`.
* `ChannelWakes`, `ChannelWakesBelowTagBound`: `WakeInFlight` under `ParkedSpec`. From a fresh channel it is false
  (`channel_lost_wake`). `WakeInv` adds that tags in the buffer have a wake-up of the reactor coming
  (`TagsSignalled`) and that a stored waker stays stored (`WakerStays`). A push that finds the tag buffer
  full is harmless as long as the buffer holds a tag of this channel (`OwnTagWhenFull`); the second
  theorem derives that from `MaxOthers < TagBound` (`ForeignTail`). If others fill the whole buffer, of
  1024 * 1024 tags, the sender panics and the message may be slept on.
* `JoinImplementsChannel`, `JoinTypes`, `JoinReturnsOutcome`: under `JSpec`. The first makes `ChInv` available; `JoinInv`
  adds where the one message of the task is (`CountExact`, `NothingSent`) and that abort consumes the
  handle (`AbortConsumes`). `JoinOutcome` says that a value comes only from a task that completed, also when abort came
  after the result, an error only from one that failed, and that nobody awaits a task that was dropped.
* `OffloadTypes`, `OffloadJobOnce`: under `OffSpec`, with any number of operations and pool threads. `JobOnce`
  counts a set; `OffInv` says the same without counting, that a place exists exactly while the operation waits
  (`PlacedWhilePending`) and that there are no two (`OneQueued`, `QueuedOnly`, `OneRuns`). `PlacesCounted` goes back to
  the cardinality.
* `OffloadNetSignalled`: the half of `ResultSignalled` about connect and bind. `OffloadResultSignalled`: all of it, for every
  mixture of operations and with the reactor woken by anyone at any time. A file in `early` is excused; for the others
  `TagHeld` says that until its result exists a file past its first poll has a tag in the buffer or in the
  reactor's hand, and `WakerStored` that its waker is in `reactor_tags`.
* `RdTypeCorrect`, `TimersCorrect`, `ReadinessNotLost`: under `RdSpec`, for any tasks, sockets, timers and
  durations. `NoEarlyEnd` is not inductive: `TimerInv` adds that an event with a timer's token, on its way
  or in `statuses`, means that the timer has fired, which holds because sockets and timers
  have different tokens and only `Expire` sends such an event. `ReadinessTold` rests on `ToldInv`: from
  `WouldBlock` until the next try a ready socket has its event on the way or recorded, and a
  sleeping task has its waker in `statuses` or is woken. It needs `Turns`, that tasks at one
  socket take turns, which the borrow of `read` and `write` gives for streams; for listeners and UDP sockets
  the theorem assumes one task each (`OneTaskEach`), without which it is false (section 4).

Only model-checked: the liveness properties `RunBlockingReturns`, `RecvWoken`, `CompletesUnlessEarly`, `TimerEnds`,
`OpServed`, `ChildEnds` and `JoinWoken` (fairness is out of the prover's reach), and the invariant `NoStrandedTask`, which holds only
for the one outside call of `runtime`. Every other invariant and action property that a
passing run checks is stated by a theorem, for two of them under an assumption named above: `WakeInFlight` and
`ReadinessTold`.

## 6. Plan

Done: ring buffer and task manager; `Runtime` over `TaskManager`; `Channel` and `Offload` with the reactor's
tag loop; `Join` over `Channel`, with senders that hold a worker; `Reactor` and `Readiness`; proofs about all of
them. Left, in this order:

1. an abstract channel (a bounded counter of messages with sends, receipts and a closed end) that
   `Channel` implements as long as `try_recv` is not used, and its refinement proof;
2. under which calls of the outside threads no task is stranded: `NoStrandedTask` for callers that wait until the
   executors are parked, as an invariant with a proof;
3. the manager's properties over `RingBufferDiscipline`'s queue rather than an atomic one.

## 7. Not modelled

The thread-local runtime guard, `num_workers` and `Drop for Runtime`, which are sequential state of one
thread; `read_to_string`, which reads synchronously in its only poll; the growth of `statuses` and
`reactor_tags`, from which finished operations are never removed; reference counts of `Arc` beyond what
is said above; `blocker.rs` and `select.rs`, which hold no code; the procedural macro; formatting and debugging ids.
