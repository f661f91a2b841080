---------------------------- MODULE BoundedQueue ----------------------------
(***************************************************************************)
(* What LockFreeBoundedRingBuffer (src/src/utils/ring_buffer.rs) promises: *)
(* a FIFO queue of at most Capacity elements that threads push to and pop  *)
(* from, in which every call takes effect at one instant between its       *)
(* invocation and its return.                                              *)
(***************************************************************************)
EXTENDS Naturals, Sequences

CONSTANTS Producers, Consumers, Values, Capacity

VARIABLES queue,   \* the elements, oldest first
          arg,     \* arg[p]: the value of p's current or last push
          ret      \* ret[t]: "pending" during a call, then its result

qvars == <<queue, arg, ret>>

Init ==
  /\ queue = <<>>
  /\ arg \in [Producers -> Values]
  /\ ret = [t \in Producers \cup Consumers |-> "returned"]

\* push(v) is invoked.
CallPush(p, v) ==
  /\ ret[p] # "pending"
  /\ arg' = [arg EXCEPT ![p] = v]
  /\ ret' = [ret EXCEPT ![p] = "pending"]
  /\ UNCHANGED queue

\* push takes effect and will return Ok(()).
Push(p) ==
  /\ ret[p] = "pending"
  /\ Len(queue) < Capacity
  /\ queue' = Append(queue, arg[p])
  /\ ret' = [ret EXCEPT ![p] = "ok"]
  /\ UNCHANGED arg

\* push finds exactly Capacity elements and will return Err.
PushFull(p) ==
  /\ ret[p] = "pending"
  /\ Len(queue) = Capacity
  /\ ret' = [ret EXCEPT ![p] = "full"]
  /\ UNCHANGED <<queue, arg>>

\* pop() is invoked.
CallPop(c) ==
  /\ ret[c] # "pending"
  /\ ret' = [ret EXCEPT ![c] = "pending"]
  /\ UNCHANGED <<queue, arg>>

\* pop removes the oldest element and will return it.
Pop(c) ==
  /\ ret[c] = "pending"
  /\ queue # <<>>
  /\ queue' = Tail(queue)
  /\ ret' = [ret EXCEPT ![c] = Head(queue)]
  /\ UNCHANGED arg

\* pop finds no element and will return None.
PopNone(c) ==
  /\ ret[c] = "pending"
  /\ queue = <<>>
  /\ ret' = [ret EXCEPT ![c] = "none"]
  /\ UNCHANGED <<queue, arg>>

Next ==
  \/ \E p \in Producers : (\E v \in Values : CallPush(p, v)) \/ Push(p) \/ PushFull(p)
  \/ \E c \in Consumers : CallPop(c) \/ Pop(c) \/ PopNone(c)

Spec == Init /\ [][Next]_qvars

=============================================================================
