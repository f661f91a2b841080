------------------------------- MODULE Offload -------------------------------
(***************************************************************************)
(* Blocking operations handed to the thread pool: opening a file           *)
(* (AsyncHoochFile, src/src/fs/file.rs), connecting and binding            *)
(* (AsyncHoochTcpStream and AsyncHoochTcpListener, src/src/net/tcp/), with *)
(* HoochPool (src/src/pool/thread_pool.rs) and the reactor's tag loop.     *)
(* Every operation is awaited by a task of its own.  A file's job tells    *)
(* the reactor, a net job wakes the task itself.  What the operating       *)
(* system answers, Ok or Err, is the same stored result.  The properties   *)
(* end where the task is queued to be polled: Runtime says what follows.   *)
(***************************************************************************)
EXTENDS Naturals, Sequences, FiniteSets, Functions

CONSTANTS FileOps,     \* HoochFile::open, create, open_hooch
          NetOps,      \* HoochTcpStream::connect, HoochTcpListener::bind
          NumThreads,  \* the pool's size; build starts one thread
          PoolBound,   \* capacity of a pool thread's channel, 1024 in the code
          TagBound,    \* capacity of reactor_tag_buffer, 1024 * 1024 in the code
          OtherWakers, \* whether channels are in use: their sends wake the reactor too
          NoJob

ASSUME OffloadAssumption ==
  /\ FileOps \cap NetOps = {} /\ IsFiniteSet(FileOps \cup NetOps)
  /\ NumThreads \in Nat \ {0} /\ PoolBound \in Nat \ {0}
  /\ TagBound \in Nat /\ OtherWakers \in BOOLEAN
  /\ NoJob \notin FileOps \cup NetOps

Ops     == FileOps \cup NetOps
Workers == 0 .. NumThreads - 1

VARIABLES opc,         \* where the task of each operation is
          idx,         \* what get_and_update_index read, per operation
          woken,       \* operations whose task is queued to be polled
          handle,      \* operations whose shared slot holds a result
          cursor,      \* the pool's cursor
          queue,       \* queue[w]: the channel of pool thread w
          job,         \* job[w]: the closure pool thread w runs
          stored,      \* pool threads that have stored their job's result
          dead,        \* pool threads that a panic has ended
          wakers,      \* operations with a waker in reactor_tags
          tag_buffer, mio_wake,
          reactor,     \* "poll", "drain", or "lookup" with a tag in hand
          tag,         \* the tag the reactor popped
          early        \* history: files whose last tag was looked up without a result

vars == <<opc, idx, woken, handle, cursor, queue, job, stored, dead, wakers,
          tag_buffer, mio_wake, reactor, tag, early>>
poolvars == <<cursor, queue, job, stored, dead>>
reactorvars == <<tag_buffer, mio_wake, reactor, tag, early>>

OffInit ==
  /\ opc = [o \in Ops |-> "new"] /\ idx = [o \in Ops |-> 0]
  /\ woken = {} /\ handle = {} /\ wakers = {}
  /\ cursor = 0
  /\ queue = [w \in Workers |-> <<>>]
  /\ job = [w \in Workers |-> NoJob] /\ stored = {} /\ dead = {}
  /\ tag_buffer = <<>> /\ mio_wake = FALSE /\ reactor = "poll" /\ tag = NoJob
  /\ early = {}

Goto(o, from, to) == opc[o] = from /\ opc' = [opc EXCEPT ![o] = to]

-----------------------------------------------------------------------------
(* The task of an operation. *)

\* reactor.register_reactor_tag(reactor_tag): open, create, open_hooch, connect
\* and bind do it when they are called, and the first poll of a file again.
PushTag(o, from, to) ==
  /\ Len(tag_buffer) # TagBound
  /\ Goto(o, from, to)
  /\ tag_buffer' = Append(tag_buffer, o)
  /\ UNCHANGED <<idx, woken, handle, wakers, poolvars, mio_wake, reactor, tag, early>>

\* The push's unwrap panics: the task ends.
TagFull(o) ==
  /\ Len(tag_buffer) = TagBound
  /\ Goto(o, "new", "panicked") \/ (o \in FileOps /\ Goto(o, "begun", "panicked"))
  /\ UNCHANGED <<idx, woken, handle, wakers, poolvars, reactorvars>>

Begin(o) == PushTag(o, "new", "begun")

FileFirstPoll(o) == o \in FileOps /\ PushTag(o, "begun", "store")

\* reactor.store_waker_channel(self.reactor_tag, ..)
StoreWaker(o) ==
  /\ Goto(o, "store", "execute")
  /\ wakers' = wakers \cup {o}
  /\ UNCHANGED <<idx, woken, handle, poolvars, reactorvars>>

\* The first poll of connect or bind keeps its waker in the closure.
NetFirstPoll(o) ==
  /\ o \in NetOps
  /\ Goto(o, "begun", "execute")
  /\ UNCHANGED <<idx, woken, handle, wakers, poolvars, reactorvars>>

\* addr.to_socket_addrs().unwrap().next().unwrap() panics: the address names nothing.
NetBadAddress(o) ==
  /\ o \in NetOps
  /\ Goto(o, "begun", "panicked")
  /\ UNCHANGED <<idx, woken, handle, wakers, poolvars, reactorvars>>

(* HoochPool::execute *)

\* self.cursor.load(..)
LoadCursor(o) ==
  /\ Goto(o, "execute", "update")
  /\ idx' = [idx EXCEPT ![o] = cursor]
  /\ UNCHANGED <<woken, handle, wakers, poolvars, reactorvars>>

\* Mutant: the index is not reduced.
StoreCursorUnwrapped(o) ==
  /\ Goto(o, "update", "send")
  /\ cursor' = idx[o] + 1
  /\ UNCHANGED <<idx, woken, handle, wakers, queue, job, stored, dead, reactorvars>>

\* self.cursor.store(new_idx, ..)
StoreCursor(o) ==
  /\ Goto(o, "update", "send")
  /\ cursor' = (idx[o] + 1) % NumThreads
  /\ UNCHANGED <<idx, woken, handle, wakers, queue, job, stored, dead, reactorvars>>

\* sender.send(boxed_fn): it blocks while the thread's channel is full.
SendJob(o) ==
  /\ idx[o] \notin dead /\ Len(queue[idx[o]]) < PoolBound
  /\ Goto(o, "send", "pending")
  /\ queue' = [queue EXCEPT ![idx[o]] = Append(@, o)]
  /\ UNCHANGED <<idx, woken, handle, wakers, cursor, job, stored, dead, reactorvars>>

\* send fails, or the blocked send wakes up failing, when the thread is gone: the unwrap
\* panics.
SendJobDead(o) ==
  /\ idx[o] \in dead
  /\ Goto(o, "send", "panicked")
  /\ UNCHANGED <<idx, woken, handle, wakers, poolvars, reactorvars>>

\* The woken task is polled: it takes the result, or stays pending without one.
Poll(o) ==
  /\ o \in woken /\ opc[o] = "pending"
  /\ woken' = woken \ {o} /\ handle' = handle \ {o}
  /\ opc' = [opc EXCEPT ![o] = IF o \in handle THEN "done" ELSE @]
  /\ UNCHANGED <<idx, wakers, poolvars, reactorvars>>

-----------------------------------------------------------------------------
(* A pool thread. *)

\* Mutant: the closure stays in the channel.
PeekJob(w) ==
  /\ job[w] = NoJob /\ queue[w] # <<>>
  /\ job' = [job EXCEPT ![w] = Head(queue[w])]
  /\ UNCHANGED <<opc, idx, woken, handle, wakers, cursor, queue, stored, dead, reactorvars>>

\* rx.recv()
TakeJob(w) ==
  /\ job[w] = NoJob /\ queue[w] # <<>>
  /\ job' = [job EXCEPT ![w] = Head(queue[w])]
  /\ queue' = [queue EXCEPT ![w] = Tail(@)]
  /\ UNCHANGED <<opc, idx, woken, handle, wakers, cursor, stored, dead, reactorvars>>

\* The closure runs the system call and stores what it returned.
StoreResult(w) ==
  /\ job[w] # NoJob /\ w \notin stored
  /\ handle' = handle \cup {job[w]}
  /\ stored' = stored \cup {w}
  /\ UNCHANGED <<opc, idx, woken, wakers, cursor, queue, job, dead, reactorvars>>

\* Mutant: the closure does not wake the reactor.
WakeNoReactor(w) ==
  /\ w \in stored /\ job[w] \in FileOps
  /\ job' = [job EXCEPT ![w] = NoJob] /\ stored' = stored \ {w}
  /\ UNCHANGED <<opc, idx, woken, handle, wakers, cursor, queue, dead, reactorvars>>

\* A file's closure ends with reactor.mio_waker().wake().
WakeReactor(w) ==
  /\ w \in stored /\ job[w] \in FileOps
  /\ mio_wake' = TRUE
  /\ job' = [job EXCEPT ![w] = NoJob] /\ stored' = stored \ {w}
  /\ UNCHANGED <<opc, idx, woken, handle, wakers, cursor, queue, dead, tag_buffer,
                 reactor, tag, early>>

\* Mutant: the closure does not wake its task.
WakeNothing(w) ==
  /\ w \in stored /\ job[w] \in NetOps
  /\ job' = [job EXCEPT ![w] = NoJob] /\ stored' = stored \ {w}
  /\ UNCHANGED <<opc, idx, woken, handle, wakers, cursor, queue, dead, reactorvars>>

\* A net closure ends with waker.wake().
WakeTask(w) ==
  /\ w \in stored /\ job[w] \in NetOps
  /\ woken' = woken \cup {job[w]}
  /\ job' = [job EXCEPT ![w] = NoJob] /\ stored' = stored \ {w}
  /\ UNCHANGED <<opc, idx, handle, wakers, cursor, queue, dead, reactorvars>>

\* wake finds waiting_tasks full and panics: the pool thread ends, with the closures in
\* its channel.  Their tasks, and the one it could not wake, are lost.
WakeTaskFull(w) ==
  /\ w \in stored /\ job[w] \in NetOps
  /\ dead' = dead \cup {w}
  /\ opc' = [o \in Ops |-> IF opc[o] = "pending" /\ o \in {job[w]} \cup Range(queue[w])
                             THEN "lost" ELSE opc[o]]
  /\ handle' = handle \ {job[w]}
  /\ queue' = [queue EXCEPT ![w] = <<>>]
  /\ job' = [job EXCEPT ![w] = NoJob] /\ stored' = stored \ {w}
  /\ UNCHANGED <<idx, woken, wakers, cursor, reactorvars>>

-----------------------------------------------------------------------------
(* The reactor's thread. *)

\* Another task's file, or its send on a channel, wakes the reactor.
OtherWake ==
  /\ OtherWakers
  /\ mio_wake' = TRUE
  /\ UNCHANGED <<opc, idx, woken, handle, wakers, poolvars, tag_buffer, reactor, tag, early>>

ReactorPoll ==
  /\ reactor = "poll" /\ mio_wake
  /\ mio_wake' = FALSE /\ reactor' = "drain"
  /\ UNCHANGED <<opc, idx, woken, handle, wakers, poolvars, tag_buffer, tag, early>>

PopTag ==
  /\ reactor = "drain" /\ tag_buffer # <<>>
  /\ tag' = Head(tag_buffer) /\ tag_buffer' = Tail(tag_buffer)
  /\ reactor' = "lookup"
  /\ UNCHANGED <<opc, idx, woken, handle, wakers, poolvars, mio_wake, early>>

PopNoTag ==
  /\ reactor = "drain" /\ tag_buffer = <<>>
  /\ reactor' = "poll"
  /\ UNCHANGED <<opc, idx, woken, handle, wakers, poolvars, tag_buffer, mio_wake, tag, early>>

\* o is a file whose second tag is popped while its result is still to come.
TooEarly(o) ==
  /\ o \in FileOps \ handle
  /\ opc[o] \in {"store", "execute", "update", "send", "pending"}
  /\ o \notin Range(tag_buffer)

\* The tag's waker, if one is stored, is woken and stays stored.
WakeTag ==
  /\ reactor = "lookup"
  /\ woken' = woken \cup ({tag} \cap wakers)
  /\ reactor' = "drain"
  /\ early' = early \cup {o \in {tag} : TooEarly(o)}
  /\ UNCHANGED <<opc, idx, handle, wakers, poolvars, tag_buffer, mio_wake, tag>>

-----------------------------------------------------------------------------
TaskStep(o) == \/ TagFull(o) \/ FileFirstPoll(o) \/ StoreWaker(o)
               \/ NetFirstPoll(o) \/ NetBadAddress(o)
               \/ LoadCursor(o) \/ StoreCursor(o) \/ SendJob(o) \/ SendJobDead(o)
WorkerStep(w) ==
  TakeJob(w) \/ StoreResult(w) \/ WakeReactor(w) \/ WakeTask(w) \/ WakeTaskFull(w)
ReactorStep == ReactorPoll \/ PopTag \/ PopNoTag \/ WakeTag

OffNext ==
  \/ \E o \in Ops : Begin(o) \/ TaskStep(o) \/ Poll(o)
  \/ \E w \in Workers : WorkerStep(w)
  \/ ReactorStep \/ OtherWake

OffSpec == OffInit /\ [][OffNext]_vars

\* Every thread is scheduled.  Whether a woken task is polled is left open.
FairOffSpec ==
  /\ OffSpec
  /\ \A o \in Ops : WF_vars(TaskStep(o))
  /\ \A w \in Workers : WF_vars(WorkerStep(w))
  /\ WF_vars(ReactorStep)

-----------------------------------------------------------------------------
(* Properties *)

\* Every variable keeps its type: the cursor read and written by several threads
\* without a lock stays an index of senders (thread_pool.rs:63-68).
OffTypeOK ==
  /\ opc \in [Ops -> {"new", "begun", "store", "execute", "update", "send",
                       "pending", "done", "panicked", "lost"}]
  /\ idx \in [Ops -> Workers] /\ cursor \in Workers
  /\ woken \subseteq Ops /\ handle \subseteq Ops /\ wakers \subseteq FileOps
  /\ \A w \in Workers : queue[w] \in Seq(Ops) /\ Len(queue[w]) <= PoolBound
  /\ job \in [Workers -> Ops \cup {NoJob}] /\ stored \subseteq Workers
  /\ dead \subseteq Workers
  /\ tag_buffer \in Seq(Ops) /\ Len(tag_buffer) <= TagBound
  /\ mio_wake \in BOOLEAN /\ reactor \in {"poll", "drain", "lookup"}
  /\ tag \in Ops \cup {NoJob} /\ early \subseteq FileOps

\* Where the closure of o is, or what it has left.
JobPlaces(o) ==
  {<<"queue", p>> : p \in {q \in Workers \X (1 .. PoolBound) :
                             q[2] <= Len(queue[q[1]]) /\ queue[q[1]][q[2]] = o}}
  \cup {<<"running", w>> : w \in {v \in Workers : job[v] = o /\ v \notin stored}}
  \cup (IF o \in handle THEN {<<"stored", 0>>} ELSE {})

\* A waiting operation has exactly one closure queued or running, or its result: the
\* racing updates of the cursor neither lose nor repeat one.
JobOnce == \A o \in Ops : Cardinality(JobPlaces(o)) = IF opc[o] = "pending" THEN 1 ELSE 0

\* The reactor will look o's tag up, and find its waker.
TagComing(o) ==
  /\ o \in wakers
  /\ \/ reactor = "lookup" /\ tag = o
     \/ /\ \E i \in 1 .. Len(tag_buffer) : tag_buffer[i] = o
        /\ mio_wake \/ reactor # "poll" \/ \E w \in stored : job[w] \in FileOps

\* A stored result is announced: its task is queued, or the thread that stored it or the
\* reactor is about to queue it.  Only a file whose tag was drained for another's wake-up
\* before its result was there can go unannounced (file.rs:195-213, reactor.rs:202-212).
ResultSignalled ==
  \A o \in handle : \/ o \in woken \/ TagComing(o) \/ o \in early
                    \/ o \in NetOps /\ \E w \in stored : job[w] = o

\* The result is there and the task that takes it is queued; or the task is over.
Delivered(o) == (o \in handle /\ o \in woken) \/ opc[o] \in {"done", "panicked"}

\* The future "offloads blocking file operations [...] to a thread pool, and then returns
\* a [`HoochFile`] when the operation is complete" (file.rs:165-166); so do connect and bind.
OperationCompletes == \A o \in Ops : opc[o] = "begun" ~> Delivered(o)

\* Every operation completes, unless its tag was drained too early or a panic took its pool
\* thread, whatever the cursor, the full channels and the other threads do.
CompletesUnlessEarly ==
  \A o \in Ops : opc[o] = "begun" ~> Delivered(o) \/ o \in early \/ opc[o] = "lost"

=============================================================================
