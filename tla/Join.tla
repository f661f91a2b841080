-------------------------------- MODULE Join --------------------------------
(***************************************************************************)
(* A spawned task and its JoinHandle (src/src/spawner.rs) over the bounded *)
(* channel that carries the result: Spawner::spawn wraps the future so     *)
(* that its end sends on a channel of capacity one, JoinHandle::poll is a  *)
(* recv on it, abort sets a flag and consumes the handle.  The polls of    *)
(* the spawned task (the child) and of the task that holds the handle run  *)
(* on the Workers threads of Channel; the reactor has a thread of its own. *)
(***************************************************************************)
EXTENDS Channel

CONSTANTS tx,         \* tx_bound, the only sender of the channel
          MaxYields   \* bound: how often the child's future returns Pending

ASSUME JoinAssumption == Senders = {tx} /\ MaxYields \in Nat

VARIABLES child,   \* "queued", "send" once its future is ready, then how it ended
          abort,   \* the AtomicBool shared by the task and its handle
          yields   \* how often the child's future returned Pending

childvars == <<child, abort, yields>>
jvars == <<vars, childvars>>

\* Spawner::spawn has registered the task and returned the handle.
JInit ==
  /\ ChInit
  /\ child = "queued" /\ abort = FALSE /\ yields = 0

-----------------------------------------------------------------------------
(* The child's polls.  An executor that holds the task polls it even when it *)
(* has been aborted meanwhile: the flag is read before the task is handed on. *)

\* future.await is pending; its waker queues the task again.
ChildPending ==
  /\ child = "queued" /\ FreeWorker /\ yields < MaxYields
  /\ yields' = yields + 1
  /\ UNCHANGED <<vars, child, abort>>

\* future.await is ready: tx_bound.send(res) begins.
ChildReady ==
  /\ child = "queued"
  /\ Send(tx)
  /\ child' = "send"
  /\ UNCHANGED <<abort, yields>>

\* A step of tx_bound.send(res); what it returns is ignored.
ChildSend == child = "send" /\ SenderStep(tx) /\ UNCHANGED childvars

\* The wrapped future ends, or unwinds out of send, and drops tx_bound.
ChildEnd ==
  /\ child = "send"
  /\ DropSender(tx)
  /\ child' = IF spc[tx] = "drop" THEN "panicked" ELSE "done"
  /\ UNCHANGED <<abort, yields>>

\* The future panics: unwinding drops tx_bound.
ChildPanic ==
  /\ child = "queued" /\ FreeWorker
  /\ DropSender(tx)
  /\ child' = "panicked"
  /\ UNCHANGED <<abort, yields>>

\* Mutant: an aborted task is dropped without its flag being read.
DropUnchecked ==
  /\ child = "queued"
  /\ DropSender(tx)
  /\ child' = "dropped"
  /\ UNCHANGED <<abort, yields>>

\* has_aborted() is true when the task is registered or popped: it is dropped.
DropAborted ==
  /\ child = "queued" /\ abort
  /\ DropSender(tx)
  /\ child' = "dropped"
  /\ UNCHANGED <<abort, yields>>

-----------------------------------------------------------------------------
(* The task that holds the handle. *)

\* The child's poll lasts until tx_bound is dropped.
ThreadLeft == child = "send" => Workers > 1

\* The first poll of the handle makes recv_fut; a later one finds it.  A handle that has
\* returned is not polled again.
JoinAwait  == ThreadLeft /\ ~abort /\ ret = "none" /\ Recv /\ UNCHANGED childvars
JoinRepoll == ThreadLeft /\ Repoll /\ UNCHANGED childvars

\* The rest of JoinHandle::poll is poll_recv.
JoinPoll == (LoadZero \/ LoadSome \/ StoreWaker \/ TakeMessage \/ RecvOk) /\ UNCHANGED childvars

\* The holder stops polling the handle and keeps it, or is polled for another reason.
JoinLeave == (CancelRecv \/ PollElsewhere) /\ UNCHANGED childvars

\* JoinHandle::abort(self) sets the flag, before or after the handle was awaited, and
\* its end drops the handle.
AbortChild ==
  /\ rpc = "out" /\ ~abort
  /\ abort' = TRUE
  /\ UNCHANGED <<vars, child, yields>>

\* The handle is dropped: the task is detached.
DropHandle == DropReceiver /\ UNCHANGED childvars

JoinReactor == (ReactorStep \/ OtherTag \/ OtherWake) /\ UNCHANGED childvars

-----------------------------------------------------------------------------
ChildStep  == ChildReady \/ ChildSend \/ ChildEnd \/ DropAborted
HolderStep == JoinPoll \/ (abort /\ DropHandle)

JNext ==
  \/ ChildStep \/ ChildPending \/ ChildPanic
  \/ JoinPoll \/ JoinAwait \/ JoinRepoll \/ JoinLeave \/ DropHandle \/ AbortChild
  \/ JoinReactor

JSpec == JInit /\ [][JNext]_jvars

\* Threads are scheduled, the holder's only inside a poll or abort.  A queued task gets its
\* turn and its future ends, although the holder may go on polling: the queues of the task
\* manager are first in, first out.
JFairness ==
  /\ SF_jvars(ChildReady \/ ChildPanic)
  /\ WF_jvars(ChildStep)
  /\ WF_jvars(HolderStep)
  /\ WF_jvars(ReactorStep /\ UNCHANGED childvars)

FairJSpec == JSpec /\ JFairness

-----------------------------------------------------------------------------
(* Properties *)

\* Every variable keeps its type, those of the channel included.
JTypeOK ==
  /\ ChTypeOK
  /\ child \in {"queued", "send", "done", "panicked", "dropped"}
  /\ abort \in BOOLEAN /\ yields \in 0 .. MaxYields

\* What the handle returns is what the task did: a value only if its future completed, an
\* error only if it failed (spawner.rs:111, 122-131); and nobody awaits the handle of a task
\* that was dropped unpolled, because abort consumes the handle.
JoinOutcome ==
  /\ ret = "value" => child \in {"send", "done", "panicked"}
  /\ ret = "error" => child \in {"panicked", "dropped"}
  /\ child = "dropped" => rpc \in {"out", "gone"}

\* A spawned task never wedges its executor: whether its handle is awaited, kept, dropped or
\* aborted, the send of its result returns and the poll ends (spawner.rs:45-50).
ChildEnds == child = "queued" ~> child \in {"done", "panicked", "dropped"}

\* A holder that has parked before the task's result exists is woken when the task
\* completes, whatever else the reactor is doing (spawner.rs:122, bounded_channel.rs:150).
JoinWoken ==
  rpc = "pending" /\ waker = "mine" /\ child = "queued" ~>
    woken \/ rpc # "pending" \/ child = "panicked"

\* The handle's poll returns "`Poll::Ready` when the task completes or an error occurs"
\* (spawner.rs:111): the holder of a panicked task's handle is at least woken.
PanicReported == child = "panicked" /\ rpc = "pending" ~> woken \/ rpc # "pending"

=============================================================================
