------------------------------- MODULE Channel -------------------------------
(***************************************************************************)
(* The bounded channel of src/src/sync/mpsc/bounded_channel.rs with the    *)
(* part of the reactor that wakes its receiver: reactor_tag_buffer,        *)
(* reactor_tags and the WAKER_TOKEN branch of run (src/src/reactor.rs).    *)
(* One action per access to shared state, by the senders, the receiver's   *)
(* task, the reactor's thread and the other users of the tag buffer.  The  *)
(* std sync_channel keeps order and is reduced to its number of messages.  *)
(* woken says that an instance of the receiver's task is queued; when, and *)
(* whether, it is polled is the task manager's affair, and no fairness is  *)
(* assumed of it.                                                          *)
(***************************************************************************)
EXTENDS Naturals, Sequences, FiniteSets

CONSTANTS Senders,   \* the handles that may exist at one time
          Bound,     \* the channel's capacity
          Workers,   \* the threads that poll the tasks of senders and receiver
          TagBound,  \* capacity of reactor_tag_buffer, 1024 * 1024 in the code
          MaxSends,  \* bound: how many calls of send are made
          MaxOthers  \* bound: how many tags of other channels and files are registered

ASSUME ChannelAssumption ==
  /\ Senders # {} /\ IsFiniteSet(Senders)
  /\ Bound \in Nat \ {0} /\ TagBound \in Nat /\ Workers \in Nat \ {0}
  /\ MaxSends \in Nat /\ MaxOthers \in Nat

VARIABLES chan,        \* messages in the std channel
          queue_cnt,
          clone_count,
          spc,         \* where each handle is: "none" if it does not exist
          rpc,         \* where the receiver's task is; "gone" once rx is dropped
          ret,         \* what the last recv returned
          woken,       \* an instance of the receiver's task is queued
          waker,       \* the entry of the channel's tag: "none", this task's or another's
          tag_buffer,  \* "chan" is this channel's tag
          mio_wake,    \* the poll_waker's event, pending in mio
          reactor,     \* "poll", "drain", or "lookup" with a tag in hand
          tag,         \* the tag the reactor popped
          sends, others,
          tried,       \* history: try_recv has taken a message
          moved        \* history: the receiver has changed its task

vars == <<chan, queue_cnt, clone_count, spc, rpc, ret, woken, waker, tag_buffer,
          mio_wake, reactor, tag, sends, others, tried, moved>>
reactorvars == <<tag_buffer, mio_wake, reactor, tag, others>>
history == <<tried, moved>>
recvvars == <<rpc, ret, woken, history>>
sendvars == <<spc, clone_count, sends>>

\* bounded_channel(bound): one sender, clone_count is 1.
ChInit ==
  /\ chan = 0 /\ queue_cnt = 0 /\ clone_count = 1
  /\ \E first \in Senders : spc = [s \in Senders |-> IF s = first THEN "out" ELSE "none"]
  /\ rpc = "out" /\ ret = "none" /\ woken = FALSE
  /\ waker = "none"
  /\ tag_buffer = <<>> /\ mio_wake = FALSE /\ reactor = "poll" /\ tag = "chan"
  /\ sends = 0 /\ others = 0 /\ tried = FALSE /\ moved = FALSE

\* The tasks that are inside a poll, a blocked send included, each hold a thread.
Sending   == {s \in Senders : spc[s] \in {"send", "add", "tag", "wake", "drop"}}
Receiving == rpc \in {"load", "store", "try", "sub"}

FreeWorker == Cardinality(Sending) + (IF Receiving THEN 1 ELSE 0) < Workers

-----------------------------------------------------------------------------
(* BoundedSender *)

SGoto(s, from, to) == spc[s] = from /\ spc' = [spc EXCEPT ![s] = to]

Send(s) ==
  /\ sends < MaxSends /\ FreeWorker
  /\ SGoto(s, "out", "send")
  /\ sends' = sends + 1
  /\ UNCHANGED <<chan, queue_cnt, clone_count, waker, recvvars, reactorvars>>

\* Mutant: the last place of the channel is not used.
SendOkEarly(s) ==
  /\ rpc # "gone" /\ chan + 1 < Bound
  /\ SGoto(s, "send", "add")
  /\ chan' = chan + 1
  /\ UNCHANGED <<queue_cnt, clone_count, sends, waker, recvvars, reactorvars>>

\* self.sender.send(val) is Ok; it blocks while the channel is full.
SendOk(s) ==
  /\ rpc # "gone" /\ chan < Bound
  /\ SGoto(s, "send", "add")
  /\ chan' = chan + 1
  /\ UNCHANGED <<queue_cnt, clone_count, sends, waker, recvvars, reactorvars>>

\* self.sender.send(val)? returns SendError: the receiver is gone.
SendErr(s) ==
  /\ rpc = "gone"
  /\ SGoto(s, "send", "out")
  /\ UNCHANGED <<chan, queue_cnt, clone_count, sends, waker, recvvars, reactorvars>>

\* self.queue_cnt.fetch_add(1, ..)
SendAdd(s) ==
  /\ SGoto(s, "add", "tag")
  /\ queue_cnt' = queue_cnt + 1
  /\ UNCHANGED <<chan, clone_count, sends, waker, recvvars, reactorvars>>

\* Mutant: the capacity of the tag buffer is not checked.
SendTagUnchecked(s) ==
  /\ SGoto(s, "tag", "wake")
  /\ tag_buffer' = Append(tag_buffer, "chan")
  /\ UNCHANGED <<chan, queue_cnt, clone_count, sends, waker, recvvars,
                 mio_wake, reactor, tag, others>>

\* self.reactor.register_reactor_tag(self.reactor_tag)
SendTag(s) ==
  /\ Len(tag_buffer) # TagBound
  /\ SGoto(s, "tag", "wake")
  /\ tag_buffer' = Append(tag_buffer, "chan")
  /\ UNCHANGED <<chan, queue_cnt, clone_count, sends, waker, recvvars,
                 mio_wake, reactor, tag, others>>

\* reactor_tag_buffer.push(tag).unwrap() panics: the sending task unwinds and its
\* handle is dropped.
SendTagFull(s) ==
  /\ Len(tag_buffer) = TagBound
  /\ SGoto(s, "tag", "drop")
  /\ UNCHANGED <<chan, queue_cnt, clone_count, sends, waker, recvvars, reactorvars>>

\* Mutant: the reactor is not woken.
SendWakeSilent(s) ==
  /\ SGoto(s, "wake", "out")
  /\ UNCHANGED <<chan, queue_cnt, clone_count, sends, waker, recvvars, reactorvars>>

\* self.poll_waker.wake()
SendWake(s) ==
  /\ SGoto(s, "wake", "out")
  /\ mio_wake' = TRUE
  /\ UNCHANGED <<chan, queue_cnt, clone_count, sends, waker, recvvars,
                 tag_buffer, reactor, tag, others>>

\* Clone::clone
CloneSender(s, new) ==
  /\ spc[s] = "out" /\ SGoto(new, "none", "out")
  /\ clone_count' = clone_count + 1
  /\ UNCHANGED <<chan, queue_cnt, sends, waker, recvvars, reactorvars>>

\* Drop::drop: fetch_sub returns the count before it.
DropSender(s) ==
  /\ SGoto(s, "out", "none") \/ SGoto(s, "drop", "none")
  /\ clone_count' = clone_count - 1
  /\ waker' = IF clone_count = 0 THEN "none" ELSE waker
  /\ UNCHANGED <<chan, queue_cnt, sends, recvvars, reactorvars>>

-----------------------------------------------------------------------------
(* BoundedReceiver *)

RGoto(from, to) == rpc = from /\ rpc' = to

\* recv(): its first poll begins.
Recv ==
  /\ FreeWorker /\ RGoto("out", "load")
  /\ UNCHANGED <<chan, queue_cnt, ret, woken, waker, history, sendvars, reactorvars>>

\* poll_recv: self.queue_cnt.load(..) == 0
LoadZero ==
  /\ queue_cnt = 0 /\ RGoto("load", "store")
  /\ UNCHANGED <<chan, queue_cnt, ret, woken, waker, history, sendvars, reactorvars>>

\* Mutant: the count is not checked before try_recv.
LoadUnchecked ==
  /\ RGoto("load", "try")
  /\ UNCHANGED <<chan, queue_cnt, ret, woken, waker, history, sendvars, reactorvars>>

LoadSome ==
  /\ queue_cnt # 0 /\ RGoto("load", "try")
  /\ UNCHANGED <<chan, queue_cnt, ret, woken, waker, history, sendvars, reactorvars>>

\* reactor.store_waker_channel(..); return Poll::Pending
StoreWaker ==
  /\ RGoto("store", "pending")
  /\ waker' = "mine"
  /\ UNCHANGED <<chan, queue_cnt, ret, woken, history, sendvars, reactorvars>>

\* The woken task is polled again.
Repoll ==
  /\ woken /\ FreeWorker /\ RGoto("pending", "load")
  /\ woken' = FALSE
  /\ UNCHANGED <<chan, queue_cnt, ret, waker, history, sendvars, reactorvars>>

\* self.rx.try_recv(): Ok, or Err whether empty or disconnected, and then recv
\* returns RecvError.
TakeMessage ==
  /\ RGoto("try", IF chan > 0 THEN "sub" ELSE "out")
  /\ chan' = IF chan > 0 THEN chan - 1 ELSE 0
  /\ ret' = IF chan > 0 THEN ret ELSE "error"
  /\ UNCHANGED <<queue_cnt, woken, waker, history, sendvars, reactorvars>>

\* Mutant: the message is not counted out.
RecvOkUncounted ==
  /\ RGoto("sub", "out")
  /\ ret' = "value"
  /\ UNCHANGED <<chan, queue_cnt, woken, waker, history, sendvars, reactorvars>>

\* self.queue_cnt.fetch_sub(1, ..); Poll::Ready(Ok(..))
RecvOk ==
  /\ RGoto("sub", "out")
  /\ queue_cnt' = queue_cnt - 1
  /\ ret' = "value"
  /\ UNCHANGED <<chan, woken, waker, history, sendvars, reactorvars>>

\* The future of recv is dropped before it completes (by a Timeout around it).
CancelRecv ==
  /\ RGoto("pending", "out")
  /\ UNCHANGED <<chan, queue_cnt, ret, woken, waker, history, sendvars, reactorvars>>

\* The task is polled while it is not in recv.
PollElsewhere ==
  /\ rpc = "out" /\ woken
  /\ woken' = FALSE
  /\ UNCHANGED <<chan, queue_cnt, rpc, ret, waker, history, sendvars, reactorvars>>

\* The receiver is dropped: what the std channel holds is discarded.
DropReceiver ==
  /\ RGoto("out", "gone")
  /\ chan' = 0
  /\ UNCHANGED <<queue_cnt, ret, woken, waker, history, sendvars, reactorvars>>

\* The public try_recv takes a message.
TryRecv ==
  /\ rpc = "out" /\ chan > 0
  /\ chan' = chan - 1
  /\ tried' = TRUE
  /\ UNCHANGED <<queue_cnt, waker, rpc, ret, woken, moved, sendvars, reactorvars>>

\* The receiver is moved to another task.
MoveReceiver ==
  /\ rpc = "out"
  /\ waker' = IF waker = "mine" THEN "other" ELSE waker
  /\ woken' = FALSE
  /\ moved' = TRUE
  /\ UNCHANGED <<chan, queue_cnt, rpc, ret, tried, sendvars, reactorvars>>

-----------------------------------------------------------------------------
(* The reactor's thread: run *)

\* poll.poll(..) returns a WAKER_TOKEN event; wake-ups that came meanwhile are one.
ReactorPoll ==
  /\ reactor = "poll" /\ mio_wake
  /\ mio_wake' = FALSE
  /\ reactor' = "drain"
  /\ UNCHANGED <<chan, queue_cnt, waker, tag_buffer, tag, others, recvvars, sendvars>>

\* reactor.reactor_tag_buffer.pop() is Some(reactor_tag).
PopTag ==
  /\ reactor = "drain" /\ tag_buffer # <<>>
  /\ tag' = Head(tag_buffer)
  /\ tag_buffer' = Tail(tag_buffer)
  /\ reactor' = "lookup"
  /\ UNCHANGED <<chan, queue_cnt, waker, mio_wake, others, recvvars, sendvars>>

\* reactor.reactor_tag_buffer.pop() is None.
PopNoTag ==
  /\ reactor = "drain" /\ tag_buffer = <<>>
  /\ reactor' = "poll"
  /\ UNCHANGED <<chan, queue_cnt, waker, tag_buffer, mio_wake, tag, others, recvvars, sendvars>>

\* Mutant: the waker is taken out of reactor_tags.
WakeTagRemove ==
  /\ reactor = "lookup"
  /\ woken' = IF tag = "chan" /\ waker = "mine" THEN TRUE ELSE woken
  /\ waker' = IF tag = "chan" THEN "none" ELSE waker
  /\ reactor' = "drain"
  /\ UNCHANGED <<chan, queue_cnt, rpc, ret, tag_buffer, mio_wake, tag, others, history, sendvars>>

\* Mutant: one tag is handled for each wake-up of the reactor.
WakeTagOnce ==
  /\ reactor = "lookup"
  /\ woken' = IF tag = "chan" /\ waker = "mine" THEN TRUE ELSE woken
  /\ reactor' = "poll"
  /\ UNCHANGED <<chan, queue_cnt, waker, rpc, ret, tag_buffer, mio_wake, tag, others, history, sendvars>>

\* Under the lock of reactor_tags: the tag's waker, if any, is woken and stays stored.
WakeTag ==
  /\ reactor = "lookup"
  /\ woken' = IF tag = "chan" /\ waker = "mine" THEN TRUE ELSE woken
  /\ reactor' = "drain"
  /\ UNCHANGED <<chan, queue_cnt, waker, rpc, ret, tag_buffer, mio_wake, tag, others, history, sendvars>>

\* Another channel, a file, or a connect or bind registers its tag.
OtherTag ==
  /\ others < MaxOthers /\ Len(tag_buffer) # TagBound
  /\ tag_buffer' = Append(tag_buffer, "other")
  /\ others' = others + 1
  /\ UNCHANGED <<chan, queue_cnt, waker, mio_wake, reactor, tag, recvvars, sendvars>>

\* Another channel or a file's closure wakes the reactor, which connect and bind never do.
OtherWake ==
  /\ mio_wake' = TRUE
  /\ UNCHANGED <<chan, queue_cnt, waker, tag_buffer, reactor, tag, others, recvvars, sendvars>>

-----------------------------------------------------------------------------
SenderStep(s) == \/ SendOk(s) \/ SendErr(s) \/ SendAdd(s) \/ SendTag(s)
                 \/ SendTagFull(s) \/ SendWake(s)
ReceiverStep  == LoadZero \/ LoadSome \/ StoreWaker \/ TakeMessage \/ RecvOk
ReactorStep   == ReactorPoll \/ PopTag \/ PopNoTag \/ WakeTag

ChNext ==
  \/ \E s \in Senders : Send(s) \/ SenderStep(s) \/ DropSender(s)
  \/ \E s, new \in Senders : CloneSender(s, new)
  \/ Recv \/ ReceiverStep \/ Repoll \/ CancelRecv \/ PollElsewhere \/ DropReceiver
  \/ TryRecv \/ MoveReceiver
  \/ ReactorStep \/ OtherTag \/ OtherWake

ChSpec == ChInit /\ [][ChNext]_vars

\* Every thread that is inside a call is scheduled, and so is the reactor's.
ChFairness ==
  /\ \A s \in Senders : WF_vars(SenderStep(s))
  /\ WF_vars(ReceiverStep)
  /\ WF_vars(ReactorStep)

FairChSpec == ChSpec /\ ChFairness

\* The receiver was parked once, before anything was sent: the state after
\* Recv, LoadZero and StoreWaker.
ParkedInit ==
  /\ chan = 0 /\ queue_cnt = 0 /\ clone_count = 1
  /\ \E first \in Senders : spc = [s \in Senders |-> IF s = first THEN "out" ELSE "none"]
  /\ rpc = "pending" /\ ret = "none" /\ woken = FALSE
  /\ waker = "mine"
  /\ tag_buffer = <<>> /\ mio_wake = FALSE /\ reactor = "poll" /\ tag = "chan"
  /\ sends = 0 /\ others = 0 /\ tried = FALSE /\ moved = FALSE

ParkedSpec == ParkedInit /\ [][ChNext]_vars
FairParkedSpec == ParkedSpec /\ ChFairness

-----------------------------------------------------------------------------
(* Properties *)

\* Every variable keeps its type; the channel never holds more than its bound.
ChTypeOK ==
  /\ chan \in 0 .. Bound
  /\ queue_cnt \in Nat /\ clone_count \in Nat
  /\ spc \in [Senders -> {"none", "out", "send", "add", "tag", "wake", "drop"}]
  /\ rpc \in {"out", "load", "store", "pending", "try", "sub", "gone"}
  /\ ret \in {"none", "value", "error"}
  /\ woken \in BOOLEAN /\ mio_wake \in BOOLEAN
  /\ waker \in {"none", "mine", "other"}
  /\ tag_buffer \in Seq({"chan", "other"}) /\ Len(tag_buffer) <= TagBound
  /\ reactor \in {"poll", "drain", "lookup"} /\ tag \in {"chan", "other"}
  /\ sends \in 0 .. MaxSends /\ others \in 0 .. MaxOthers
  /\ tried \in BOOLEAN /\ moved \in BOOLEAN

\* queue_cnt is the number of messages once the calls under way are accounted for: a
\* send that has not counted its message yet, a recv that still counts its own.  Only
\* try_recv breaks this, by taking a message without counting it out.
CountAgrees ==
  rpc # "gone" /\ ~tried =>
    queue_cnt + Cardinality({s \in Senders : spc[s] = "add"})
      = chan + (IF rpc = "sub" THEN 1 ELSE 0)

\* recv returns "the received value or a `RecvError` if the channel is closed"
\* (bounded_channel.rs:133): while a sender exists it never fails, unless try_recv was used.
NoFalseRecvError ==
  rpc = "try" /\ chan = 0 /\ ~tried => \A s \in Senders : spc[s] = "none"

\* The tag of this channel is on its way to the receiver's waker.
WakeComing ==
  \/ \E s \in Senders : spc[s] = "tag"
  \/ /\ \E i \in 1 .. Len(tag_buffer) : tag_buffer[i] = "chan"
     /\ mio_wake \/ reactor # "poll" \/ \E s \in Senders : spc[s] = "wake"
  \/ reactor = "lookup" /\ tag = "chan"

\* A receiver that has stored its waker does not sleep on a counted message: its task is
\* queued or a wake-up is coming, in every interleaving of senders, receiver and reactor.
WakeInFlight ==
  rpc \in {"store", "pending"} /\ ~moved /\ waker = "mine" /\ queue_cnt > 0 => woken \/ WakeComing

\* "If the queue is empty, store the waker to notify the reactor when new messages
\* arrive" (bounded_channel.rs:150): the task of a recv that waits while a message is
\* counted is woken, as long as try_recv is not used and the receiver stays in one task.
RecvWoken ==
  rpc = "pending" /\ queue_cnt > 0 /\ ~moved /\ ~tried ~> woken \/ rpc # "pending"

=============================================================================
