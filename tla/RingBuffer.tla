----------------------------- MODULE RingBuffer -----------------------------
(***************************************************************************)
(* LockFreeBoundedRingBuffer<T> of src/src/utils/ring_buffer.rs, one       *)
(* action per access to shared memory.  T is one machine word in every     *)
(* use (Arc<Task>, ExecutorId, ReactorTag), so an access to a slot is one  *)
(* step; the accesses of a thread take effect in program order.  count is  *)
(* a usize and wraps modulo UsizeMod.                                      *)
(***************************************************************************)
EXTENDS Naturals

CONSTANTS Producers,   \* threads that push
          Consumers,   \* threads that pop
          Values,      \* what can be pushed
          Uninit,      \* the content of a slot that holds no value
          Capacity,    \* the bound given to new
          UsizeMod     \* number of values of a usize

ASSUME RingAssumption ==
  /\ Producers \cap Consumers = {}
  /\ Uninit \notin Values
  /\ "pending" \notin Values \cup {Uninit}
  /\ Capacity \in Nat \ {0}
  /\ UsizeMod \in Nat /\ Capacity < UsizeMod

VARIABLES buffer, start, end, count,
          pc,              \* where each thread is; "idle" outside a call
          current_start,   \* pop's local of that name, per consumer
          current_end,     \* push's local of that name, per producer
          value,           \* push's argument, or what pop's get_value returned
          ret              \* "pending", then the result the call will return

vars == <<buffer, start, end, count, pc, current_start, current_end, value, ret>>

Threads == Producers \cup Consumers
Index   == 0 .. Capacity - 1

\* The circular successor, as both push and pop compute it.
NextIndex(i) == IF i + 1 < Capacity THEN i + 1 ELSE 0

\* fetch_sub and fetch_add on count wrap around.
Decrement(n) == IF n = 0 THEN UsizeMod - 1 ELSE n - 1
Increment(n) == IF n + 1 = UsizeMod THEN 0 ELSE n + 1

\* new(bound): every slot uninitialised, indices and count zero.
Init ==
  /\ buffer = [i \in Index |-> Uninit]
  /\ start = 0 /\ end = 0 /\ count = 0
  /\ pc = [t \in Threads |-> "idle"]
  /\ current_start = [c \in Consumers |-> 0]
  /\ current_end = [p \in Producers |-> 0]
  /\ value \in [Threads -> Values]
  /\ ret = [t \in Threads |-> "returned"]

Goto(t, from, to) == pc[t] = from /\ pc' = [pc EXCEPT ![t] = to]

-----------------------------------------------------------------------------
(* push *)

\* push(v) is invoked by p.
PushCall(p, v) ==
  /\ Goto(p, "idle", "push_len")
  /\ value' = [value EXCEPT ![p] = v]
  /\ ret' = [ret EXCEPT ![p] = "pending"]
  /\ UNCHANGED <<buffer, start, end, count, current_start, current_end>>

\* Mutant: takes a buffer with one free slot for full.
PushFullEarly(p) ==
  /\ count = Capacity - 1
  /\ Goto(p, "push_len", "idle")
  /\ ret' = [ret EXCEPT ![p] = "full"]
  /\ UNCHANGED <<buffer, start, end, count, current_start, current_end, value>>

\* self.len() == self.capacity(): return Err.
PushFull(p) ==
  /\ count = Capacity
  /\ Goto(p, "push_len", "idle")
  /\ ret' = [ret EXCEPT ![p] = "full"]
  /\ UNCHANGED <<buffer, start, end, count, current_start, current_end, value>>

\* self.len() differs from the capacity: go on.
PushLen(p) ==
  /\ count # Capacity
  /\ Goto(p, "push_len", "push_load")
  /\ UNCHANGED <<buffer, start, end, count, current_start, current_end, value, ret>>

\* Mutant: start is read instead of end.
PushLoadStart(p) ==
  /\ Goto(p, "push_load", "push_insert")
  /\ current_end' = [current_end EXCEPT ![p] = start]
  /\ UNCHANGED <<buffer, start, end, count, current_start, value, ret>>

\* let current_end = self.end.load(..)
PushLoadEnd(p) ==
  /\ Goto(p, "push_load", "push_insert")
  /\ current_end' = [current_end EXCEPT ![p] = end]
  /\ UNCHANGED <<buffer, start, end, count, current_start, value, ret>>

\* insert_value(current_end, value): drop_in_place of a MaybeUninit does nothing.
InsertValue(p) ==
  /\ Goto(p, "push_insert", "push_add")
  /\ buffer' = [buffer EXCEPT ![current_end[p]] = value[p]]
  /\ UNCHANGED <<start, end, count, current_start, current_end, value, ret>>

\* self.count.fetch_add(1, ..)
PushAdd(p) ==
  /\ Goto(p, "push_add", "push_store")
  /\ count' = Increment(count)
  /\ ret' = [ret EXCEPT ![p] = "ok"]
  /\ UNCHANGED <<buffer, start, end, current_start, current_end, value>>

\* Mutant: the old end is stored.
PushStoreOldEnd(p) ==
  /\ Goto(p, "push_store", "idle")
  /\ end' = current_end[p]
  /\ UNCHANGED <<buffer, start, count, current_start, current_end, value, ret>>

\* self.end.store(new_end, ..); Ok(())
PushStoreEnd(p) ==
  /\ Goto(p, "push_store", "idle")
  /\ end' = NextIndex(current_end[p])
  /\ UNCHANGED <<buffer, start, count, current_start, current_end, value, ret>>

-----------------------------------------------------------------------------
(* pop *)

\* pop() is invoked by c.
PopCall(c) ==
  /\ Goto(c, "idle", "pop_start")
  /\ ret' = [ret EXCEPT ![c] = "pending"]
  /\ UNCHANGED <<buffer, start, end, count, current_start, current_end, value>>

\* let current_start = self.start.load(..)
PopLoadStart(c) ==
  /\ Goto(c, "pop_start", "pop_end")
  /\ current_start' = [current_start EXCEPT ![c] = start]
  /\ UNCHANGED <<buffer, start, end, count, current_end, value, ret>>

\* let current_end = self.end.load(..); count is read only if the two agree.
PopLoadEnd(c) ==
  /\ Goto(c, "pop_end", IF current_start[c] = end THEN "pop_count" ELSE "pop_get")
  /\ UNCHANGED <<buffer, start, end, count, current_start, current_end, value, ret>>

\* self.count.load(..) == 0: return None.
PopNone(c) ==
  /\ count = 0
  /\ Goto(c, "pop_count", "idle")
  /\ ret' = [ret EXCEPT ![c] = "none"]
  /\ UNCHANGED <<buffer, start, end, count, current_start, current_end, value>>

\* Mutant: a buffer whose indices agree always counts as full.
PopCountUnchecked(c) ==
  /\ Goto(c, "pop_count", "pop_get")
  /\ UNCHANGED <<buffer, start, end, count, current_start, current_end, value, ret>>

\* self.count.load(..) != 0: the buffer is not empty.
PopCount(c) ==
  /\ count # 0
  /\ Goto(c, "pop_count", "pop_get")
  /\ UNCHANGED <<buffer, start, end, count, current_start, current_end, value, ret>>

\* get_value(current_start).  assume_init on an uninitialised slot is undefined
\* behaviour: it yields any word, a value popped earlier included.
GetValue(c) ==
  /\ Goto(c, "pop_get", "pop_sub")
  /\ LET slot == buffer[current_start[c]]
     IN  \E v \in IF slot = Uninit THEN Values \cup {Uninit} ELSE {slot} :
           value' = [value EXCEPT ![c] = v]
  /\ buffer' = [buffer EXCEPT ![current_start[c]] = Uninit]
  /\ UNCHANGED <<start, end, count, current_start, current_end, ret>>

\* self.count.fetch_sub(1, ..)
PopSub(c) ==
  /\ Goto(c, "pop_sub", "pop_store")
  /\ count' = Decrement(count)
  /\ ret' = [ret EXCEPT ![c] = value[c]]
  /\ UNCHANGED <<buffer, start, end, current_start, current_end, value>>

\* self.start.store(new_start, ..); Some(value)
PopStoreStart(c) ==
  /\ Goto(c, "pop_store", "idle")
  /\ start' = NextIndex(current_start[c])
  /\ UNCHANGED <<buffer, end, count, current_start, current_end, value, ret>>

-----------------------------------------------------------------------------
PushStep(p) == \/ PushFull(p) \/ PushLen(p) \/ PushLoadEnd(p) \/ InsertValue(p)
               \/ PushAdd(p) \/ PushStoreEnd(p)
PopStep(c)  == \/ PopLoadStart(c) \/ PopLoadEnd(c) \/ PopNone(c) \/ PopCount(c)
               \/ GetValue(c) \/ PopSub(c) \/ PopStoreStart(c)

Next ==
  \/ \E p \in Producers : (\E v \in Values : PushCall(p, v)) \/ PushStep(p)
  \/ \E c \in Consumers : PopCall(c) \/ PopStep(c)

Spec == Init /\ [][Next]_vars

-----------------------------------------------------------------------------
(* Properties *)

PushPC == {"idle", "push_len", "push_load", "push_insert", "push_add", "push_store"}
PopPC  == {"idle", "pop_start", "pop_end", "pop_count", "pop_get", "pop_sub", "pop_store"}

\* Every variable keeps the type its Rust declaration gives it; a popped
\* word may be garbage.
TypeOK ==
  /\ buffer \in [Index -> Values \cup {Uninit}]
  /\ start \in Index /\ end \in Index
  /\ count \in 0 .. UsizeMod - 1
  /\ pc \in [Threads -> PushPC \cup PopPC]
  /\ \A p \in Producers : pc[p] \in PushPC
  /\ \A c \in Consumers : pc[c] \in PopPC
  /\ current_start \in [Consumers -> Index]
  /\ current_end \in [Producers -> Index]
  /\ value \in [Threads -> Values \cup {Uninit}]
  /\ \A p \in Producers : value[p] \in Values
  /\ ret \in [Threads -> {"returned", "pending", "ok", "full", "none"}
                           \cup Values \cup {Uninit}]

\* get_value (ring_buffer.rs:113) never reads a slot that holds no value: the
\* precondition its Safety comment states, in every interleaving.
NoUninitRead ==
  \A c \in Consumers : pc[c] = "pop_get" => buffer[current_start[c]] # Uninit

\* insert_value (ring_buffer.rs:56) never overwrites a value that was pushed and
\* not yet popped: no push that returned Ok is lost.
NoOverwrite ==
  \A p \in Producers : pc[p] = "push_insert" => buffer[current_end[p]] = Uninit

\* len() never exceeds capacity(): fetch_sub on count (ring_buffer.rs:133) never
\* wraps below zero and no push gets past the full check of a full buffer.
LenWithinCapacity == count <= Capacity

=============================================================================
