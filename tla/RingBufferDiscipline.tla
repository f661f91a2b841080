------------------------ MODULE RingBufferDiscipline ------------------------
(***************************************************************************)
(* The ring buffer under a discipline its callers would have to follow:    *)
(* pushes exclude each other, pops exclude each other, and no pop is       *)
(* invoked while a push is between count.fetch_add and end.store.  Nothing *)
(* else is excluded: a push and a pop may overlap.  Under this discipline  *)
(* the buffer implements BoundedQueue.                                     *)
(***************************************************************************)
EXTENDS RingBuffer, Sequences

\* No call by a thread of S is in progress.
Quiet(S) == \A t \in S : pc[t] = "idle"

\* Some producer has raised count and not yet published the new end.
Publishing == \E p \in Producers : pc[p] = "push_store"

DisciplinedPushCall(p, v) == Quiet(Producers) /\ PushCall(p, v)
DisciplinedPopCall(c) == Quiet(Consumers) /\ ~Publishing /\ PopCall(c)

DisciplinedNext ==
  \/ \E p \in Producers : (\E v \in Values : DisciplinedPushCall(p, v)) \/ PushStep(p)
  \/ \E c \in Consumers : DisciplinedPopCall(c) \/ PopStep(c)

DisciplinedSpec == Init /\ [][DisciplinedNext]_vars

-----------------------------------------------------------------------------
(* The queue the buffer represents: count elements from LogicalStart on.   *)

Wrap(i) == IF i < Capacity THEN i ELSE i - Capacity

\* A pop between fetch_sub and start.store has already removed its element.
LogicalStart ==
  IF \E c \in Consumers : pc[c] = "pop_store" THEN NextIndex(start) ELSE start

\* A push between fetch_add and end.store has already added its element.
LogicalEnd ==
  IF \E p \in Producers : pc[p] = "push_store" THEN NextIndex(end) ELSE end

\* A pop between get_value and fetch_sub holds the oldest element itself.
HeadTaken == \E c \in Consumers : pc[c] = "pop_sub"
Holder == CHOOSE c \in Consumers : pc[c] = "pop_sub"

Element(i) ==
  IF i = 1 /\ HeadTaken THEN value[Holder] ELSE buffer[Wrap(LogicalStart + i - 1)]

Queue == [i \in 1 .. count |-> Element(i)]

\* The buffer implements BoundedQueue: every push and pop takes effect at
\* its count.fetch_add, count.fetch_sub or at the load that ends it.
Abstract == INSTANCE BoundedQueue
              WITH queue <- Queue, arg <- [p \in Producers |-> value[p]], ret <- ret
ImplementsQueue == Abstract!Spec

-----------------------------------------------------------------------------
(* The inductive invariant.                                                *)

\* At most one push and at most one pop is in progress.
OneAtATime ==
  /\ \A p, q \in Producers : pc[p] # "idle" /\ pc[q] # "idle" => p = q
  /\ \A c, d \in Consumers : pc[c] # "idle" /\ pc[d] # "idle" => c = d

\* start, end and count agree, once the steps under way are accounted for.
IndicesAgree == LogicalEnd = Wrap(LogicalStart + count)

\* What a push has read is still true when it uses it, and its result is open
\* exactly until it takes effect.
PushRegisters ==
  \A p \in Producers :
    /\ pc[p] \in {"push_load", "push_insert", "push_add"} => count < Capacity
    /\ pc[p] \in {"push_insert", "push_add", "push_store"} => current_end[p] = end
    /\ ret[p] = "pending" <=> pc[p] \notin {"idle", "push_store"}

\* What a pop has read is still true when it uses it; past its emptiness
\* check the queue is not empty; and while a push publishes, a pop that has not
\* read end still finds the element.
PopRegisters ==
  \A c \in Consumers :
    /\ pc[c] \notin {"idle", "pop_start"} => current_start[c] = start
    /\ pc[c] \in {"pop_get", "pop_sub"} => count > 0
    /\ pc[c] \in {"pop_start", "pop_end"} /\ Publishing => count > 0
    /\ ret[c] = "pending" <=> pc[c] \notin {"idle", "pop_store"}

\* The slots of the queue hold values, except the head a pop has taken; the
\* others hold none, except the one a push has filled and not yet counted.
SlotsAgree ==
  \A i \in 0 .. Capacity - 1 :
    LET slot == buffer[Wrap(LogicalStart + i)]
    IN  /\ i < count => IF i = 0 /\ HeadTaken THEN slot = Uninit ELSE slot \in Values
        /\ i >= count => IF i = count /\ \E p \in Producers : pc[p] = "push_add"
                         THEN \E p \in Producers : pc[p] = "push_add" /\ slot = value[p]
                         ELSE slot = Uninit

HeldValue == \A c \in Consumers : pc[c] = "pop_sub" => value[c] \in Values

IInv ==
  /\ TypeOK
  /\ LenWithinCapacity
  /\ OneAtATime
  /\ IndicesAgree
  /\ PushRegisters
  /\ PopRegisters
  /\ SlotsAgree
  /\ HeldValue

=============================================================================
