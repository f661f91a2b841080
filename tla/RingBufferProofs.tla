-------------------------- MODULE RingBufferProofs --------------------------
(***************************************************************************)
(* Under the discipline of RingBufferDiscipline, for every capacity and    *)
(* every number of producers and consumers, the ring buffer never reads an *)
(* uninitialised slot, never overwrites a live one, and implements         *)
(* BoundedQueue.                                                           *)
(***************************************************************************)
EXTENDS RingBufferDiscipline, SequenceTheorems, TLAPS

USE RingAssumption

-----------------------------------------------------------------------------
(* Types, with or without the discipline. *)

\* Every access to memory keeps the types.
LEMMA TypeOKStep ==
  ASSUME TypeOK, Next
  PROVE  TypeOK'
<1> USE DEF TypeOK, Threads, Index, PushPC, PopPC, Goto
<1>1. ASSUME NEW p \in Producers, NEW v \in Values, PushCall(p, v) PROVE TypeOK'
  BY <1>1 DEF PushCall
<1>2. ASSUME NEW p \in Producers, PushFull(p) \/ PushLen(p) \/ PushLoadEnd(p)
      PROVE  TypeOK'
  <2>1. CASE PushFull(p)     BY <2>1 DEF PushFull
  <2>2. CASE PushLen(p)      BY <2>2 DEF PushLen
  <2>3. CASE PushLoadEnd(p)  BY <2>3 DEF PushLoadEnd
  <2>4. QED                  BY <1>2, <2>1, <2>2, <2>3
<1>3. ASSUME NEW p \in Producers, InsertValue(p) \/ PushAdd(p) \/ PushStoreEnd(p)
      PROVE  TypeOK'
  <2>1. CASE InsertValue(p)   BY <2>1 DEF InsertValue
  <2>2. CASE PushAdd(p)       BY <2>2 DEF PushAdd, Increment
  <2>3. CASE PushStoreEnd(p)  BY <2>3 DEF PushStoreEnd, NextIndex
  <2>4. QED                   BY <1>3, <2>1, <2>2, <2>3
<1>4. ASSUME NEW c \in Consumers,
             PopCall(c) \/ PopLoadStart(c) \/ PopLoadEnd(c) \/ PopNone(c) \/ PopCount(c)
      PROVE  TypeOK'
  <2>1. CASE PopCall(c)       BY <2>1 DEF PopCall
  <2>2. CASE PopLoadStart(c)  BY <2>2 DEF PopLoadStart
  <2>3. CASE PopLoadEnd(c)    BY <2>3 DEF PopLoadEnd
  <2>4. CASE PopNone(c)       BY <2>4 DEF PopNone
  <2>5. CASE PopCount(c)      BY <2>5 DEF PopCount
  <2>6. QED                   BY <1>4, <2>1, <2>2, <2>3, <2>4, <2>5
<1>5. ASSUME NEW c \in Consumers, GetValue(c) \/ PopSub(c) \/ PopStoreStart(c)
      PROVE  TypeOK'
  <2>1. CASE GetValue(c)       BY <2>1 DEF GetValue
  <2>2. CASE PopSub(c)         BY <2>2 DEF PopSub, Decrement
  <2>3. CASE PopStoreStart(c)  BY <2>3 DEF PopStoreStart, NextIndex
  <2>4. QED                    BY <1>5, <2>1, <2>2, <2>3
<1>6. QED
  BY <1>1, <1>2, <1>3, <1>4, <1>5 DEF Next, PushStep, PopStep

\* Whatever the interleaving, every variable of the ring buffer keeps its type:
\* the indices stay inside the allocation even when count has wrapped.
THEOREM RingTypeOK == Spec => []TypeOK
<1>1. Init => TypeOK
  BY DEF Init, TypeOK, Index, Threads, PushPC, PopPC
<1>2. TypeOK /\ [Next]_vars => TypeOK'
  <2>1. TypeOK /\ UNCHANGED vars => TypeOK'
    BY DEF TypeOK, vars
  <2>2. QED
    BY <2>1, TypeOKStep
<1>3. QED
  BY <1>1, <1>2, PTL DEF Spec

-----------------------------------------------------------------------------
(* The inductive invariant holds initially. *)

\* The buffer that new returns satisfies the invariant.
LEMMA InitIInv == Init => IInv
<1> SUFFICES ASSUME Init PROVE IInv
  OBVIOUS
<1>1. TypeOK
  BY DEF Init, TypeOK, Index, Threads, PushPC, PopPC
<1>2. LogicalStart = 0 /\ LogicalEnd = 0 /\ ~HeadTaken
  BY DEF Init, LogicalStart, LogicalEnd, HeadTaken, Threads
<1>3. IndicesAgree
  BY <1>2 DEF Init, IndicesAgree, Wrap
<1>4. SlotsAgree
  BY <1>2 DEF Init, SlotsAgree, Wrap, Index, Threads
<1>5. QED
  BY <1>1, <1>3, <1>4 DEF Init, IInv, LenWithinCapacity, OneAtATime,
     PushRegisters, PopRegisters, HeldValue, Threads

-----------------------------------------------------------------------------
(* Steps that touch neither the buffer nor the points at which a call      *)
(* takes effect leave the represented queue alone.                         *)

\* A step that moves no thread into or out of the effective part of its call.
SameShape ==
  /\ UNCHANGED <<buffer, start, end, count>>
  /\ \A t \in Threads : \A l \in {"pop_sub", "pop_store", "push_add", "push_store"} :
       pc'[t] = l <=> pc[t] = l
  /\ \A t \in Threads : pc[t] \in {"pop_sub", "push_add"} => value'[t] = value[t]

\* The oldest element is held by the one pop that has taken it.
LEMMA HolderUnique ==
  ASSUME OneAtATime, NEW c \in Consumers, pc[c] = "pop_sub"
  PROVE  Holder = c
<1>1. Holder \in Consumers /\ pc[Holder] = "pop_sub"
  BY DEF Holder
<1>2. QED
  BY <1>1 DEF OneAtATime

\* Steps that only read leave the logical queue as it is.
LEMMA SameShapeSteps ==
  ASSUME IInv, SameShape
  PROVE  /\ LogicalStart' = LogicalStart
         /\ HeadTaken' = HeadTaken
         /\ Publishing' = Publishing
         /\ Queue' = Queue
         /\ (LenWithinCapacity /\ IndicesAgree /\ SlotsAgree /\ HeldValue)'
<1> USE DEF SameShape, Threads
<1>1. LogicalStart' = LogicalStart /\ LogicalEnd' = LogicalEnd
  BY DEF LogicalStart, LogicalEnd, NextIndex
<1>2. HeadTaken' = HeadTaken /\ Publishing' = Publishing
  BY DEF HeadTaken, Publishing
<1>3. ASSUME HeadTaken PROVE Holder' = Holder /\ value'[Holder] = value[Holder]
  <2>1. \A c : (c \in Consumers /\ pc[c] = "pop_sub")
                 <=> (c \in Consumers /\ pc'[c] = "pop_sub")
    OBVIOUS
  <2>2. Holder' = Holder
    BY <2>1, Zenon DEF Holder
  <2>3. Holder \in Consumers /\ pc[Holder] = "pop_sub"
    BY <1>3 DEF HeadTaken, Holder
  <2>4. QED
    BY <2>2, <2>3
<1>4. \A i : Element(i)' = Element(i)
  BY <1>1, <1>2, <1>3 DEF Element
<1>5. Queue' = Queue
  BY <1>4 DEF Queue
<1>6. LenWithinCapacity' /\ IndicesAgree'
  BY <1>1 DEF IInv, LenWithinCapacity, IndicesAgree, Wrap
<1>7. SlotsAgree'
  BY <1>1, <1>2 DEF IInv, SlotsAgree, Wrap
<1>8. HeldValue'
  BY DEF IInv, HeldValue
<1>9. QED
  BY <1>1, <1>2, <1>5, <1>6, <1>7, <1>8

-----------------------------------------------------------------------------
(* Every step preserves the inductive invariant: push. *)

\* The steps of push up to its write only read: invocation, len, load of end.
LEMMA PushReadsIInv ==
  ASSUME NEW p \in Producers, IInv,
         \/ \E v \in Values : DisciplinedPushCall(p, v)
         \/ PushFull(p) \/ PushLen(p) \/ PushLoadEnd(p)
  PROVE  IInv' /\ SameShape
<1> USE DEF DisciplinedPushCall, PushCall, PushFull, PushLen, PushLoadEnd, Goto
<1>1. /\ UNCHANGED <<buffer, start, end, count, current_start>>
      /\ pc[p] \in {"idle", "push_len", "push_load"}
      /\ \E l \in {"idle", "push_len", "push_load", "push_insert"} :
            pc' = [pc EXCEPT ![p] = l]
      /\ pc[p] = "idle" => Quiet(Producers)
  OBVIOUS
<1>2. SameShape
  BY <1>1 DEF IInv, SameShape, TypeOK, Threads
<1>3. (LenWithinCapacity /\ IndicesAgree /\ SlotsAgree /\ HeldValue)'
      /\ Publishing' = Publishing
  BY <1>2, SameShapeSteps
<1>4. TypeOK'
  BY TypeOKStep, Zenon DEF IInv, Next, PushStep
<1>5. OneAtATime'
  BY <1>1 DEF IInv, OneAtATime, Quiet, TypeOK, Threads
<1>6. PushRegisters'
  BY <1>1 DEF IInv, PushRegisters, LenWithinCapacity, TypeOK, Threads
<1>7. PopRegisters'
  BY <1>1, <1>3 DEF IInv, PopRegisters, TypeOK, Threads
<1>8. QED
  BY <1>2, <1>3, <1>4, <1>5, <1>6, <1>7 DEF IInv

\* The free slots begin at end: the slot a push writes is the first one.
LEMMA WriteIndex ==
  ASSUME IInv, NEW p \in Producers, pc[p] \in {"push_insert", "push_add"}
  PROVE  /\ current_end[p] = Wrap(LogicalStart + count)
         /\ count \in Nat /\ count < Capacity
         /\ LogicalStart \in Index
         /\ \A i \in 0 .. Capacity - 1 :
              Wrap(LogicalStart + i) = Wrap(LogicalStart + count) => i = count
         /\ ~Publishing
<1>1. ~Publishing /\ LogicalEnd = end
  BY DEF IInv, OneAtATime, LogicalEnd, Publishing
<1>2. LogicalStart \in Index /\ count \in Nat /\ count < Capacity
  BY DEF IInv, TypeOK, LogicalStart, NextIndex, PushRegisters, Index
<1>3. current_end[p] = Wrap(LogicalStart + count)
  BY <1>1 DEF IInv, PushRegisters, IndicesAgree
<1>4. QED
  BY <1>1, <1>2, <1>3 DEF Wrap, Index

\* A push writes its slot behind the last element.
LEMMA InsertValueIInv ==
  ASSUME NEW p \in Producers, IInv, InsertValue(p)
  PROVE  IInv' /\ Queue' = Queue
<1> USE DEF InsertValue, Goto
<1>1. /\ pc[p] = "push_insert" /\ pc' = [pc EXCEPT ![p] = "push_add"]
      /\ UNCHANGED <<start, end, count, current_start, current_end, value, ret>>
  OBVIOUS
<1>2. LogicalStart' = LogicalStart /\ LogicalEnd' = LogicalEnd
      /\ HeadTaken' = HeadTaken /\ Publishing' = Publishing
  BY <1>1 DEF IInv, TypeOK, Threads, LogicalStart, LogicalEnd, HeadTaken,
     Publishing, NextIndex
<1>3. \A i \in 0 .. Capacity - 1 :
        buffer'[Wrap(LogicalStart + i)]
          = IF i = count THEN value[p] ELSE buffer[Wrap(LogicalStart + i)]
  BY <1>1, WriteIndex DEF IInv, TypeOK, Index, Wrap
<1>4. SlotsAgree'
  <2> SUFFICES ASSUME NEW i \in 0 .. Capacity - 1
               PROVE  SlotsAgree!(i)'
    BY DEF SlotsAgree
  <2>1. (\E q \in Producers : pc'[q] = "push_add") /\ pc'[p] = "push_add"
    BY <1>1 DEF IInv, TypeOK, Threads
  <2>2. ~ \E q \in Producers : pc[q] = "push_add"
    BY <1>1 DEF IInv, OneAtATime
  <2>3. QED
    BY <1>1, <1>2, <1>3, <2>1, <2>2, WriteIndex DEF IInv, SlotsAgree
<1>5. TypeOK' /\ LenWithinCapacity' /\ IndicesAgree' /\ HeldValue' /\ OneAtATime'
  BY <1>1, <1>2 DEF IInv, TypeOK, Threads, PushPC, PopPC, Index, LenWithinCapacity,
     IndicesAgree, HeldValue, OneAtATime, Wrap
<1>6. PushRegisters' /\ PopRegisters'
  BY <1>1, <1>2 DEF IInv, PushRegisters, PopRegisters, TypeOK, Threads
<1>7. Queue' = Queue
  <2>1. HeadTaken => Holder' = Holder
    <3>1. \A c : (c \in Consumers /\ pc[c] = "pop_sub")
                   <=> (c \in Consumers /\ pc'[c] = "pop_sub")
      BY <1>1 DEF IInv, TypeOK, Threads
    <3>2. QED
      BY <3>1, Zenon DEF Holder
  <2>2. \A i \in 1 .. count : Element(i)' = Element(i)
    BY <1>1, <1>2, <1>3, <2>1, WriteIndex DEF Element
  <2>3. QED
    BY <1>1, <2>2 DEF Queue
<1>8. QED
  BY <1>4, <1>5, <1>6, <1>7 DEF IInv

\* count.fetch_add makes the value an element.
LEMMA PushAddIInv ==
  ASSUME NEW p \in Producers, IInv, PushAdd(p)
  PROVE  /\ IInv'
         /\ count' = count + 1
         /\ \A i \in 1 .. count : Element(i)' = Element(i)
         /\ \A i \in {count + 1} : Element(i)' = value[p]
<1> USE DEF PushAdd, Goto
<1>1. /\ pc[p] = "push_add" /\ pc' = [pc EXCEPT ![p] = "push_store"]
      /\ UNCHANGED <<buffer, start, end, current_start, current_end, value>>
      /\ count' = count + 1 /\ count \in Nat /\ count < Capacity
  BY WriteIndex DEF Increment
<1>2. LogicalStart' = LogicalStart /\ HeadTaken' = HeadTaken
  BY <1>1 DEF IInv, TypeOK, Threads, LogicalStart, HeadTaken, NextIndex
<1>3. LogicalEnd = end /\ LogicalEnd' = NextIndex(end)
  BY <1>1 DEF IInv, TypeOK, Threads, OneAtATime, LogicalEnd, NextIndex
<1>4. /\ pc'[p] = "push_store"
      /\ \A q \in Producers : pc[q] # "idle" => q = p
      /\ ~ \E q \in Producers : pc'[q] = "push_add"
  BY <1>1 DEF IInv, OneAtATime, TypeOK, Threads
<1>5. IndicesAgree' /\ LenWithinCapacity'
  BY <1>1, <1>2, <1>3, WriteIndex DEF IInv, IndicesAgree, LenWithinCapacity, Wrap,
     NextIndex, Index
<1>6. SlotsAgree'
  <2> SUFFICES ASSUME NEW i \in 0 .. Capacity - 1
               PROVE  SlotsAgree!(i)'
    BY DEF SlotsAgree
  <2>1. buffer'[Wrap(LogicalStart + i)] = buffer[Wrap(LogicalStart + i)]
    BY <1>1
  <2>2. i = count => buffer[Wrap(LogicalStart + i)] \in Values
    BY <1>1, <1>4 DEF IInv, SlotsAgree, TypeOK
  <2>3. ~(i = 0 /\ count = 0 /\ HeadTaken)
    BY DEF IInv, PopRegisters, HeadTaken
  <2>4. QED
    BY <1>1, <1>2, <1>4, <2>1, <2>2, <2>3 DEF IInv, SlotsAgree, Wrap
<1>7. OneAtATime' /\ HeldValue'
  BY <1>1 DEF IInv, OneAtATime, HeldValue, TypeOK, Threads
<1>8. PushRegisters' /\ PopRegisters'
  BY <1>1, <1>4 DEF IInv, PushRegisters, PopRegisters, TypeOK, Threads
<1>9. TypeOK'
  BY TypeOKStep, Zenon DEF IInv, Next, PushStep
<1>10. \A i \in 1 .. count : Element(i)' = Element(i)
  <2>1. HeadTaken => Holder' = Holder
    <3>1. \A c : (c \in Consumers /\ pc[c] = "pop_sub")
                   <=> (c \in Consumers /\ pc'[c] = "pop_sub")
      BY <1>1 DEF IInv, TypeOK, Threads
    <3>2. QED
      BY <3>1, Zenon DEF Holder
  <2>2. QED
    BY <1>1, <1>2, <2>1 DEF Element, Wrap
<1>11. \A i \in {count + 1} : Element(i)' = value[p]
  <2> SUFFICES ASSUME NEW i, i = count + 1
               PROVE  Element(i)' = value[p]
    OBVIOUS
  <2>1. ~(i = 1 /\ HeadTaken)
    BY <1>1 DEF IInv, PopRegisters, HeadTaken
  <2>2. buffer[Wrap(LogicalStart + count)] = value[p]
    BY <1>1, <1>4 DEF IInv, SlotsAgree
  <2>3. Element(i)' = buffer'[Wrap(LogicalStart + i - 1)]
    BY <1>1, <1>2, <2>1 DEF Element, Wrap
  <2>4. LogicalStart + i - 1 = LogicalStart + count
    BY <1>1, WriteIndex DEF Index
  <2>5. QED
    BY <1>1, <2>2, <2>3, <2>4
<1>12. QED
  BY <1>1, <1>5, <1>6, <1>7, <1>8, <1>9, <1>10, <1>11 DEF IInv

\* end.store publishes what count already says.
LEMMA PushStoreEndIInv ==
  ASSUME NEW p \in Producers, IInv, PushStoreEnd(p)
  PROVE  IInv' /\ Queue' = Queue
<1> USE DEF PushStoreEnd, Goto
<1>1. /\ pc[p] = "push_store" /\ pc' = [pc EXCEPT ![p] = "idle"]
      /\ UNCHANGED <<buffer, start, count, current_start, current_end, value, ret>>
      /\ end' = NextIndex(end)
  BY DEF IInv, PushRegisters
<1>2. /\ \A q \in Producers : pc[q] # "idle" => q = p
      /\ \A q \in Producers : pc'[q] = "idle"
      /\ \A c \in Consumers : pc'[c] = pc[c]
  BY <1>1 DEF IInv, OneAtATime, TypeOK, Threads
<1>3. /\ LogicalStart' = LogicalStart /\ HeadTaken' = HeadTaken
      /\ LogicalEnd' = LogicalEnd
  BY <1>1, <1>2 DEF LogicalStart, LogicalEnd, HeadTaken, NextIndex
<1>4. IndicesAgree' /\ LenWithinCapacity'
  BY <1>1, <1>3 DEF IInv, IndicesAgree, LenWithinCapacity, Wrap
<1>5. SlotsAgree'
  BY <1>1, <1>2, <1>3 DEF IInv, SlotsAgree, Wrap
<1>6. OneAtATime' /\ HeldValue'
  BY <1>1, <1>2 DEF IInv, OneAtATime, HeldValue
<1>7. PushRegisters' /\ PopRegisters'
  BY <1>1, <1>2 DEF IInv, PushRegisters, PopRegisters, Publishing
<1>8. TypeOK'
  BY TypeOKStep, Zenon DEF IInv, Next, PushStep
<1>9. Queue' = Queue
  <2>1. HeadTaken => Holder' = Holder
    <3>1. \A c : (c \in Consumers /\ pc[c] = "pop_sub")
                   <=> (c \in Consumers /\ pc'[c] = "pop_sub")
      BY <1>2
    <3>2. QED
      BY <3>1, Zenon DEF Holder
  <2>2. \A i \in 1 .. count : Element(i)' = Element(i)
    BY <1>1, <1>3, <2>1 DEF Element, Wrap
  <2>3. QED
    BY <1>1, <2>2 DEF Queue
<1>10. QED
  BY <1>4, <1>5, <1>6, <1>7, <1>8, <1>9 DEF IInv

-----------------------------------------------------------------------------
(* Every step preserves the inductive invariant: pop. *)

\* The steps of pop up to its read of the slot only read.
LEMMA PopReadsIInv ==
  ASSUME NEW c \in Consumers, IInv,
         \/ DisciplinedPopCall(c) \/ PopLoadStart(c) \/ PopLoadEnd(c)
         \/ PopNone(c) \/ PopCount(c)
  PROVE  IInv' /\ SameShape
<1> USE DEF DisciplinedPopCall, PopCall, PopLoadStart, PopLoadEnd, PopNone, PopCount, Goto
<1>1. /\ UNCHANGED <<buffer, start, end, count, current_end, value>>
      /\ pc[c] \in {"idle", "pop_start", "pop_end", "pop_count"}
      /\ \E l \in {"idle", "pop_start", "pop_end", "pop_count", "pop_get"} :
            pc' = [pc EXCEPT ![c] = l]
      /\ pc[c] = "idle" => Quiet(Consumers) /\ ~Publishing
  OBVIOUS
<1>2. SameShape
  BY <1>1 DEF IInv, SameShape, TypeOK, Threads
<1>3. (LenWithinCapacity /\ IndicesAgree /\ SlotsAgree /\ HeldValue)'
      /\ Publishing' = Publishing
  BY <1>2, SameShapeSteps
<1>4. TypeOK'
  BY TypeOKStep, Zenon DEF IInv, Next, PopStep
<1>5. OneAtATime'
  BY <1>1 DEF IInv, OneAtATime, Quiet, TypeOK, Threads
<1>6. PushRegisters'
  BY <1>1 DEF IInv, PushRegisters, TypeOK, Threads
<1>7. PopRegisters'
  <2>1. ASSUME PopLoadEnd(c), current_start[c] # end PROVE count > 0
    <3>1. current_start[c] = start
      BY <2>1 DEF IInv, PopRegisters
    <3>2. CASE Publishing
      BY <2>1, <3>2 DEF IInv, PopRegisters
    <3>3. CASE ~Publishing
      <4>1. LogicalEnd = end /\ LogicalStart = start
        BY <2>1, <3>3 DEF IInv, OneAtATime, LogicalEnd, LogicalStart, Publishing
      <4>2. QED
        BY <2>1, <3>1, <4>1 DEF IInv, IndicesAgree, Wrap, TypeOK, Index
    <3>4. QED
      BY <3>2, <3>3
  <2>2. QED
    BY <1>1, <1>3, <2>1 DEF IInv, PopRegisters, TypeOK, Threads
<1>8. QED
  BY <1>2, <1>3, <1>4, <1>5, <1>6, <1>7 DEF IInv

\* While a pop has not stored start, the queue begins at its current_start.
LEMMA ReadIndex ==
  ASSUME IInv, NEW c \in Consumers, pc[c] \in {"pop_get", "pop_sub"}
  PROVE  /\ current_start[c] = LogicalStart /\ LogicalStart = start
         /\ LogicalStart \in Index
         /\ count \in Nat \ {0} /\ count <= Capacity
         /\ \A i \in 0 .. Capacity - 1 : Wrap(LogicalStart + i) = LogicalStart => i = 0
         /\ Wrap(LogicalStart) = LogicalStart
         /\ \A d \in Consumers : pc[d] # "idle" => d = c
<1>1. \A d \in Consumers : pc[d] # "idle" => d = c
  BY DEF IInv, OneAtATime
<1>2. LogicalStart = start /\ current_start[c] = start
  BY <1>1 DEF IInv, PopRegisters, LogicalStart
<1>3. count \in Nat \ {0} /\ count <= Capacity /\ start \in Index
  BY DEF IInv, PopRegisters, TypeOK, LenWithinCapacity
<1>4. QED
  BY <1>1, <1>2, <1>3 DEF Wrap, Index

\* A pop reads the slot of the first element.
LEMMA GetValueIInv ==
  ASSUME NEW c \in Consumers, IInv, GetValue(c)
  PROVE  IInv' /\ Queue' = Queue
<1> USE DEF GetValue, Goto
<1>1. /\ pc[c] = "pop_get" /\ pc' = [pc EXCEPT ![c] = "pop_sub"]
      /\ UNCHANGED <<start, end, count, current_start, current_end, ret>>
      /\ buffer' = [buffer EXCEPT ![LogicalStart] = Uninit]
  BY ReadIndex
<1>2. ~HeadTaken /\ HeadTaken' /\ pc'[c] = "pop_sub"
  BY <1>1, ReadIndex DEF IInv, TypeOK, Threads, HeadTaken
<1>3. LogicalStart' = LogicalStart /\ LogicalEnd' = LogicalEnd /\ Publishing' = Publishing
  BY <1>1 DEF IInv, TypeOK, Threads, LogicalStart, LogicalEnd, NextIndex, Publishing
<1>4. buffer[LogicalStart] \in Values
  <2>1. 0 \in 0 .. Capacity - 1 /\ 0 < count /\ LogicalStart + 0 = LogicalStart
    BY <1>1, ReadIndex DEF Index
  <2>2. QED
    BY <1>1, <1>2, <2>1, ReadIndex DEF IInv, SlotsAgree
<1>5. value' = [value EXCEPT ![c] = buffer[LogicalStart]]
  BY <1>1, <1>4, ReadIndex
<1>6. \A i \in 0 .. Capacity - 1 :
        buffer'[Wrap(LogicalStart + i)]
          = IF i = 0 THEN Uninit ELSE buffer[Wrap(LogicalStart + i)]
  BY <1>1, ReadIndex DEF IInv, TypeOK, Index, Wrap
<1>7. SlotsAgree'
  <2> SUFFICES ASSUME NEW i \in 0 .. Capacity - 1
               PROVE  SlotsAgree!(i)'
    BY DEF SlotsAgree
  <2>1. \A p \in Producers : pc'[p] = pc[p] /\ value'[p] = value[p]
    BY <1>1, <1>5 DEF IInv, TypeOK, Threads
  <2>2. QED
    BY <1>1, <1>2, <1>3, <1>6, <2>1, ReadIndex DEF IInv, SlotsAgree
<1>8. LenWithinCapacity' /\ IndicesAgree' /\ OneAtATime'
  BY <1>1, <1>3 DEF IInv, LenWithinCapacity, IndicesAgree, Wrap, OneAtATime, TypeOK, Threads
<1>9. HeldValue'
  BY <1>1, <1>4, <1>5, ReadIndex DEF IInv, HeldValue, TypeOK, Threads
<1>10. PushRegisters' /\ PopRegisters'
  BY <1>1, <1>3, ReadIndex DEF IInv, PushRegisters, PopRegisters, TypeOK, Threads
<1>11. TypeOK'
  BY TypeOKStep, Zenon DEF IInv, Next, PopStep
<1>12. Queue' = Queue
  <2>1. Holder' = c
    <3>1. \A d : (d \in Consumers /\ pc'[d] = "pop_sub") <=> d = c
      BY <1>1, <1>2, ReadIndex DEF IInv, TypeOK, Threads
    <3>2. QED
      BY <3>1 DEF Holder
  <2>2. value'[c] = buffer[LogicalStart]
    BY <1>5 DEF IInv, TypeOK, Threads
  <2>3. \A i \in 1 .. count : Element(i)' = Element(i)
    <3> SUFFICES ASSUME NEW i \in 1 .. count PROVE Element(i)' = Element(i)
      OBVIOUS
    <3>1. CASE i = 1
      <4>1. LogicalStart + i - 1 = LogicalStart
        BY <1>1, <3>1, ReadIndex DEF Index
      <4>2. QED
        BY <1>1, <1>2, <2>1, <2>2, <3>1, <4>1, ReadIndex DEF Element
    <3>2. CASE i # 1
      <4>1. i - 1 \in 0 .. Capacity - 1 /\ i - 1 # 0
            /\ LogicalStart + (i - 1) = LogicalStart + i - 1
        BY <1>1, <3>2, ReadIndex DEF Index
      <4>2. buffer'[Wrap(LogicalStart + i - 1)] = buffer[Wrap(LogicalStart + i - 1)]
        BY <1>6, <4>1
      <4>3. QED
        BY <1>3, <3>2, <4>2 DEF Element, Wrap
    <3>3. QED
      BY <3>1, <3>2
  <2>4. QED
    BY <1>1, <2>3 DEF Queue
<1>13. QED
  BY <1>7, <1>8, <1>9, <1>10, <1>11, <1>12 DEF IInv

\* count.fetch_sub removes the first element.
LEMMA PopSubIInv ==
  ASSUME NEW c \in Consumers, IInv, PopSub(c)
  PROVE  /\ IInv'
         /\ count' = count - 1 /\ count \in Nat \ {0}
         /\ \A i \in 1 .. count - 1 : Element(i)' = Element(i + 1)
         /\ value[c] = Element(1)
<1> USE DEF PopSub, Goto
<1>1. /\ pc[c] = "pop_sub" /\ pc' = [pc EXCEPT ![c] = "pop_store"]
      /\ UNCHANGED <<buffer, start, end, current_start, current_end, value>>
      /\ count' = count - 1 /\ count \in Nat \ {0} /\ count <= Capacity
      /\ LogicalStart = start /\ start \in Index
  BY ReadIndex DEF Decrement
<1>2. /\ HeadTaken /\ pc'[c] = "pop_store"
      /\ \A p \in Producers : pc'[p] = pc[p]
      /\ \A d \in Consumers : pc[d] # "idle" => d = c
      /\ \A d \in Consumers : d # c => pc'[d] = "idle"
  BY <1>1, ReadIndex DEF IInv, TypeOK, Threads, HeadTaken
<1>3. /\ ~HeadTaken' /\ LogicalStart' = NextIndex(start)
      /\ LogicalEnd' = LogicalEnd /\ Publishing' = Publishing
  BY <1>1, <1>2 DEF HeadTaken, LogicalStart, LogicalEnd, NextIndex, Publishing
<1>4. IndicesAgree' /\ LenWithinCapacity'
  BY <1>1, <1>3 DEF IInv, IndicesAgree, LenWithinCapacity, Wrap, NextIndex, Index
<1>5. \A i \in 0 .. Capacity - 2 : Wrap(NextIndex(start) + i) = Wrap(start + (i + 1))
  BY <1>1 DEF Wrap, NextIndex, Index
<1>6. Wrap(NextIndex(start) + (Capacity - 1)) = Wrap(start + 0)
  BY <1>1 DEF Wrap, NextIndex, Index
<1>7. SlotsAgree'
  <2> SUFFICES ASSUME NEW i \in 0 .. Capacity - 1
               PROVE  SlotsAgree!(i)'
    BY DEF SlotsAgree
  <2>1. CASE i = Capacity - 1
    <3>1. buffer[Wrap(start + 0)] = Uninit
      <4>1. 0 \in 0 .. Capacity - 1 /\ 0 < count
        BY <1>1
      <4>2. QED
        BY <1>1, <1>2, <4>1 DEF IInv, SlotsAgree
    <3>2. \A p \in Producers : pc[p] = "push_add" => count < Capacity
      BY DEF IInv, PushRegisters
    <3>3. i >= count' /\ ~(i < count')
          /\ (i = count' => ~ \E p \in Producers : pc'[p] = "push_add")
      BY <1>1, <1>2, <2>1, <3>2
    <3>4. buffer'[Wrap(LogicalStart' + i)] = Uninit
      BY <1>1, <1>3, <1>6, <2>1, <3>1
    <3>5. QED
      BY <3>3, <3>4 DEF Wrap
  <2>2. CASE i # Capacity - 1
    <3>1. i + 1 \in 0 .. Capacity - 1 /\ i \in 0 .. Capacity - 2 /\ i + 1 # 0
          /\ (i < count' <=> i + 1 < count) /\ (i = count' <=> i + 1 = count)
          /\ (i >= count' <=> i + 1 >= count)
      BY <1>1, <2>2
    <3>2. buffer'[Wrap(LogicalStart' + i)] = buffer[Wrap(LogicalStart + (i + 1))]
      BY <1>1, <1>3, <1>5, <3>1
    <3>3. SlotsAgree!(i + 1)
      BY <3>1 DEF IInv, SlotsAgree
    <3>4. QED
      BY <1>1, <1>2, <1>3, <3>1, <3>2, <3>3 DEF Wrap
  <2>3. QED
    BY <2>1, <2>2
<1>8. OneAtATime' /\ HeldValue'
  BY <1>1, <1>2 DEF IInv, OneAtATime, HeldValue
<1>9. PushRegisters' /\ PopRegisters'
  <2>1. /\ value[c] \in Values
        /\ ret' = [ret EXCEPT ![c] = value[c]]
    BY <1>1 DEF IInv, HeldValue
  <2>2. \A p \in Producers : ret'[p] = ret[p]
    BY <2>1 DEF IInv, TypeOK, Threads
  <2>3. PushRegisters'
    BY <1>1, <1>2, <2>2 DEF IInv, PushRegisters
  <2>4. ret'[c] # "pending"
    BY <2>1 DEF IInv, TypeOK, Threads
  <2>5. \A d \in Consumers : d # c => ret'[d] = ret[d] /\ pc[d] = "idle"
    BY <1>2, <2>1 DEF IInv, TypeOK, Threads
  <2>6. PopRegisters'
    BY <1>1, <1>2, <2>4, <2>5 DEF IInv, PopRegisters
  <2>7. QED
    BY <2>3, <2>6
<1>10. TypeOK'
  BY TypeOKStep, Zenon DEF IInv, Next, PopStep
<1>11. \A i \in 1 .. count - 1 : Element(i)' = Element(i + 1)
  <2> SUFFICES ASSUME NEW i \in 1 .. count - 1 PROVE Element(i)' = Element(i + 1)
    OBVIOUS
  <2>1. i - 1 \in 0 .. Capacity - 2 /\ i + 1 # 1 /\ (i - 1) + 1 = i
        /\ NextIndex(start) + (i - 1) = NextIndex(start) + i - 1
        /\ start + i = start + (i + 1) - 1
    BY <1>1 DEF NextIndex, Index
  <2>2. Element(i)' = buffer[Wrap(NextIndex(start) + i - 1)]
    BY <1>1, <1>3 DEF Element, Wrap
  <2>3. Element(i + 1) = buffer[Wrap(start + i)]
    BY <1>1, <2>1 DEF Element
  <2>4. Wrap(NextIndex(start) + (i - 1)) = Wrap(start + i)
    BY <1>5, <2>1
  <2>5. QED
    BY <2>1, <2>2, <2>3, <2>4
<1>12. value[c] = Element(1)
  <2>1. Holder = c
    BY <1>1, HolderUnique DEF IInv
  <2>2. QED
    BY <1>2, <2>1 DEF Element
<1>13. QED
  BY <1>1, <1>4, <1>7, <1>8, <1>9, <1>10, <1>11, <1>12 DEF IInv

\* start.store publishes what count already says.
LEMMA PopStoreStartIInv ==
  ASSUME NEW c \in Consumers, IInv, PopStoreStart(c)
  PROVE  IInv' /\ Queue' = Queue
<1> USE DEF PopStoreStart, Goto
<1>1. /\ pc[c] = "pop_store" /\ pc' = [pc EXCEPT ![c] = "idle"]
      /\ UNCHANGED <<buffer, end, count, current_start, current_end, value, ret>>
      /\ start' = NextIndex(start)
  BY DEF IInv, PopRegisters
<1>2. /\ \A d \in Consumers : pc[d] # "idle" => d = c
      /\ \A d \in Consumers : pc'[d] = "idle"
      /\ \A p \in Producers : pc'[p] = pc[p]
  BY <1>1 DEF IInv, OneAtATime, TypeOK, Threads
<1>3. /\ LogicalStart' = LogicalStart /\ ~HeadTaken /\ ~HeadTaken'
      /\ LogicalEnd' = LogicalEnd /\ Publishing' = Publishing
  BY <1>1, <1>2 DEF LogicalStart, LogicalEnd, HeadTaken, NextIndex, Publishing
<1>4. IndicesAgree' /\ LenWithinCapacity'
  BY <1>1, <1>3 DEF IInv, IndicesAgree, LenWithinCapacity, Wrap
<1>5. SlotsAgree'
  BY <1>1, <1>2, <1>3 DEF IInv, SlotsAgree, Wrap
<1>6. OneAtATime' /\ HeldValue'
  BY <1>1, <1>2 DEF IInv, OneAtATime, HeldValue
<1>7. PushRegisters' /\ PopRegisters'
  BY <1>1, <1>2 DEF IInv, PushRegisters, PopRegisters
<1>8. TypeOK'
  BY TypeOKStep, Zenon DEF IInv, Next, PopStep
<1>9. Queue' = Queue
  <2>1. \A i \in 1 .. count : Element(i)' = Element(i)
    BY <1>1, <1>3 DEF Element, Wrap
  <2>2. QED
    BY <1>1, <2>1 DEF Queue
<1>10. QED
  BY <1>4, <1>5, <1>6, <1>7, <1>8, <1>9 DEF IInv

-----------------------------------------------------------------------------
(* The theorems. *)

\* The invariant is inductive under the discipline.
LEMMA IInvStep ==
  ASSUME IInv, [DisciplinedNext]_vars
  PROVE  IInv'
<1>1. CASE UNCHANGED vars
  <2>1. SameShape
    BY <1>1 DEF vars, SameShape
  <2>2. (LenWithinCapacity /\ IndicesAgree /\ SlotsAgree /\ HeldValue)'
        /\ Publishing' = Publishing
    BY <2>1, SameShapeSteps
  <2>3. TypeOK' /\ OneAtATime'
    BY <1>1 DEF vars, IInv, TypeOK, OneAtATime
  <2>4. PushRegisters' /\ PopRegisters'
    BY <1>1, <2>2 DEF vars, IInv, PushRegisters, PopRegisters
  <2>5. QED
    BY <2>2, <2>3, <2>4 DEF IInv
<1>2. ASSUME NEW p \in Producers,
             (\E v \in Values : DisciplinedPushCall(p, v)) \/ PushStep(p)
      PROVE  IInv'
  BY <1>2, PushReadsIInv, InsertValueIInv, PushAddIInv, PushStoreEndIInv, Zenon
     DEF PushStep
<1>3. ASSUME NEW c \in Consumers, DisciplinedPopCall(c) \/ PopStep(c)
      PROVE  IInv'
  BY <1>3, PopReadsIInv, GetValueIInv, PopSubIInv, PopStoreStartIInv, Zenon
     DEF PopStep
<1>4. QED
  BY <1>1, <1>2, <1>3 DEF DisciplinedNext

\* Under the discipline the inductive invariant holds in every reachable state.
THEOREM RingIInv == DisciplinedSpec => []IInv
<1>1. IInv /\ [DisciplinedNext]_vars => IInv'
  BY IInvStep
<1>2. QED
  BY <1>1, InitIInv, PTL DEF DisciplinedSpec

\* Under the discipline get_value (ring_buffer.rs:113) never reads an
\* uninitialised slot, whatever the capacity and the number of threads.
THEOREM RingNoUninitRead == DisciplinedSpec => []NoUninitRead
<1>1. IInv => NoUninitRead
  <2> SUFFICES ASSUME IInv, NEW c \in Consumers, pc[c] = "pop_get"
               PROVE  buffer[current_start[c]] # Uninit
    BY DEF NoUninitRead
  <2>1. 0 \in 0 .. Capacity - 1 /\ 0 < count /\ LogicalStart + 0 = LogicalStart
    BY ReadIndex DEF Index
  <2>2. ~HeadTaken
    BY ReadIndex DEF HeadTaken
  <2>3. buffer[LogicalStart] \in Values
    BY <2>1, <2>2, ReadIndex DEF IInv, SlotsAgree
  <2>4. QED
    BY <2>3, ReadIndex
<1>2. QED
  BY <1>1, RingIInv, PTL

\* Under the discipline insert_value (ring_buffer.rs:56) never overwrites a
\* value that has been pushed and not popped.
THEOREM RingNoOverwrite == DisciplinedSpec => []NoOverwrite
<1>1. IInv => NoOverwrite
  <2> SUFFICES ASSUME IInv, NEW p \in Producers, pc[p] = "push_insert"
               PROVE  buffer[current_end[p]] = Uninit
    BY DEF NoOverwrite
  <2>1. ~ \E q \in Producers : pc[q] = "push_add"
    BY DEF IInv, OneAtATime
  <2>2. count \in 0 .. Capacity - 1
    BY WriteIndex
  <2>3. QED
    BY <2>1, <2>2, WriteIndex DEF IInv, SlotsAgree
<1>2. QED
  BY <1>1, RingIInv, PTL

-----------------------------------------------------------------------------
(* Refinement: each step of the buffer is a step of the queue or a stutter. *)

\* The logical queue is a sequence of count values.
LEMMA QueueType ==
  ASSUME IInv
  PROVE  Queue \in Seq(Values) /\ Len(Queue) = count /\ count \in Nat
<1>1. count \in Nat /\ count <= Capacity /\ LogicalStart \in Index
  BY DEF IInv, TypeOK, LenWithinCapacity, LogicalStart, NextIndex, Index
<1>2. ASSUME NEW i \in 1 .. count PROVE Element(i) \in Values
  <2>1. CASE i = 1 /\ HeadTaken
    BY <2>1 DEF Element, HeadTaken, Holder, IInv, HeldValue
  <2>2. CASE ~(i = 1 /\ HeadTaken)
    <3>1. i - 1 \in 0 .. Capacity - 1 /\ i - 1 < count
          /\ LogicalStart + (i - 1) = LogicalStart + i - 1 /\ (i - 1 = 0 <=> i = 1)
      BY <1>1 DEF Index
    <3>2. buffer[Wrap(LogicalStart + (i - 1))] \in Values
      BY <2>2, <3>1 DEF IInv, SlotsAgree
    <3>3. QED
      BY <2>2, <3>1, <3>2 DEF Element
  <2>3. QED
    BY <2>1, <2>2
<1>3. QED
  BY <1>1, <1>2 DEF Queue

\* The steps of push that leave the queue, the arguments and the results alone.
LEMMA PushStutters ==
  ASSUME IInv, NEW p \in Producers,
         PushLen(p) \/ PushLoadEnd(p) \/ InsertValue(p) \/ PushStoreEnd(p)
  PROVE  UNCHANGED Abstract!qvars
<1>1. Queue' = Queue
  <2>1. CASE PushLen(p) \/ PushLoadEnd(p)
    BY <2>1, PushReadsIInv, SameShapeSteps
  <2>2. CASE InsertValue(p)
    BY <2>2, InsertValueIInv
  <2>3. CASE PushStoreEnd(p)
    BY <2>3, PushStoreEndIInv
  <2>4. QED
    BY <2>1, <2>2, <2>3
<1>2. UNCHANGED <<value, ret>>
  BY DEF PushLen, PushLoadEnd, InsertValue, PushStoreEnd
<1>3. QED
  BY <1>1, <1>2 DEF Abstract!qvars

\* The steps of pop that leave the queue, the arguments and the results alone.
LEMMA PopStutters ==
  ASSUME IInv, NEW c \in Consumers,
         \/ PopLoadStart(c) \/ PopLoadEnd(c) \/ PopCount(c)
         \/ GetValue(c) \/ PopStoreStart(c)
  PROVE  UNCHANGED Abstract!qvars
<1>1. Queue' = Queue
  <2>1. CASE PopLoadStart(c) \/ PopLoadEnd(c) \/ PopCount(c)
    BY <2>1, PopReadsIInv, SameShapeSteps
  <2>2. CASE GetValue(c)
    BY <2>2, GetValueIInv
  <2>3. CASE PopStoreStart(c)
    BY <2>3, PopStoreStartIInv
  <2>4. QED
    BY <2>1, <2>2, <2>3
<1>2. ret' = ret /\ \A p \in Producers : value'[p] = value[p]
  BY DEF PopLoadStart, PopLoadEnd, PopCount, GetValue, PopStoreStart, IInv, TypeOK, Threads
<1>3. QED
  BY <1>1, <1>2 DEF Abstract!qvars

\* The steps at which a push is invoked or takes effect.
LEMMA PushRefines ==
  ASSUME IInv, NEW p \in Producers
  PROVE  /\ \A v \in Values : DisciplinedPushCall(p, v) => Abstract!CallPush(p, v)
         /\ PushFull(p) => Abstract!PushFull(p)
         /\ PushAdd(p) => Abstract!Push(p)
<1> DEFINE arg == [q \in Producers |-> value[q]]
<1>1. ASSUME NEW v \in Values, DisciplinedPushCall(p, v) PROVE Abstract!CallPush(p, v)
  <2>1. Queue' = Queue
    BY <1>1, PushReadsIInv, SameShapeSteps
  <2>2. arg' = [arg EXCEPT ![p] = v]
    BY <1>1 DEF DisciplinedPushCall, PushCall, IInv, TypeOK, Threads
  <2>3. ret[p] # "pending" /\ ret' = [ret EXCEPT ![p] = "pending"]
    BY <1>1 DEF DisciplinedPushCall, PushCall, Goto, IInv, PushRegisters
  <2>4. QED
    BY <2>1, <2>2, <2>3 DEF Abstract!CallPush
<1>2. ASSUME PushFull(p) PROVE Abstract!PushFull(p)
  <2>1. Queue' = Queue
    BY <1>2, PushReadsIInv, SameShapeSteps
  <2>2. arg' = arg /\ ret[p] = "pending" /\ ret' = [ret EXCEPT ![p] = "full"]
        /\ count = Capacity
    BY <1>2 DEF PushFull, Goto, IInv, PushRegisters
  <2>3. QED
    BY <2>1, <2>2, QueueType DEF Abstract!PushFull
<1>3. ASSUME PushAdd(p) PROVE Abstract!Push(p)
  <2>1. arg' = arg /\ ret[p] = "pending" /\ ret' = [ret EXCEPT ![p] = "ok"]
        /\ count < Capacity /\ arg[p] = value[p]
    BY <1>3 DEF PushAdd, Goto, IInv, PushRegisters
  <2>2. /\ count' = count + 1
        /\ \A i \in 1 .. count : Element(i)' = Element(i)
        /\ \A i \in {count + 1} : Element(i)' = value[p]
    BY <1>3, PushAddIInv
  <2>3. Queue' = [i \in 1 .. count + 1 |-> IF i <= count THEN Element(i) ELSE value[p]]
    BY <2>2, QueueType DEF Queue
  <2>4. Append(Queue, value[p])
          = [i \in 1 .. count + 1 |-> IF i <= count THEN Element(i) ELSE value[p]]
    BY QueueType DEF Queue
  <2>5. QED
    BY <2>1, <2>3, <2>4, QueueType DEF Abstract!Push
<1>4. QED
  BY <1>1, <1>2, <1>3

\* The steps at which a pop is invoked or takes effect.
LEMMA PopRefines ==
  ASSUME IInv, NEW c \in Consumers
  PROVE  /\ DisciplinedPopCall(c) => Abstract!CallPop(c)
         /\ PopNone(c) => Abstract!PopNone(c)
         /\ PopSub(c) => Abstract!Pop(c)
<1> DEFINE arg == [q \in Producers |-> value[q]]
<1>1. ASSUME DisciplinedPopCall(c) PROVE Abstract!CallPop(c)
  <2>1. Queue' = Queue
    BY <1>1, PopReadsIInv, SameShapeSteps
  <2>2. arg' = arg /\ ret[c] # "pending" /\ ret' = [ret EXCEPT ![c] = "pending"]
    BY <1>1 DEF DisciplinedPopCall, PopCall, Goto, IInv, PopRegisters
  <2>3. QED
    BY <2>1, <2>2 DEF Abstract!CallPop
<1>2. ASSUME PopNone(c) PROVE Abstract!PopNone(c)
  <2>1. Queue' = Queue
    BY <1>2, PopReadsIInv, SameShapeSteps
  <2>2. arg' = arg /\ ret[c] = "pending" /\ ret' = [ret EXCEPT ![c] = "none"]
        /\ count = 0
    BY <1>2 DEF PopNone, Goto, IInv, PopRegisters
  <2>3. QED
    BY <2>1, <2>2, QueueType DEF Abstract!PopNone
<1>3. ASSUME PopSub(c) PROVE Abstract!Pop(c)
  <2>1. arg' = arg /\ ret[c] = "pending" /\ ret' = [ret EXCEPT ![c] = value[c]]
    BY <1>3 DEF PopSub, Goto, IInv, PopRegisters
  <2>2. /\ count' = count - 1 /\ count \in Nat \ {0}
        /\ \A i \in 1 .. count - 1 : Element(i)' = Element(i + 1)
        /\ value[c] = Element(1)
    BY <1>3, PopSubIInv
  <2>3. Queue' = [i \in 1 .. count - 1 |-> Element(i + 1)]
    BY <2>2 DEF Queue
  <2>4. Queue \in Seq(Values) /\ Len(Queue) = count /\ Queue # <<>>
    BY <2>2, QueueType
  <2>5. /\ Queue' \in Seq(Values) /\ Len(Queue') = count - 1
        /\ \A i \in 1 .. count - 1 : Queue'[i] = Queue[i + 1]
    <3>1. \A i \in 1 .. count - 1 : Queue'[i] = Queue[i + 1] /\ Queue[i + 1] \in Values
      BY <2>2, <2>3, <2>4 DEF Queue
    <3>2. QED
      BY <2>2, <2>3, <3>1
  <2>6. Queue # <<>> /\ Head(Queue) = value[c]
    BY <2>2, QueueType DEF Queue
  <2>7. Queue' = Tail(Queue)
    BY <2>2, <2>4, <2>5, HeadTailProperties, SeqEqual
  <2>8. QED
    BY <2>1, <2>6, <2>7 DEF Abstract!Pop
<1>4. QED
  BY <1>1, <1>2, <1>3

\* Under the discipline the ring buffer implements BoundedQueue: pushes and pops
\* that overlap behave as if each took effect at one instant of its call.
THEOREM RingImplementsQueue == DisciplinedSpec => ImplementsQueue
<1>1. Init => Abstract!Init
  <2> SUFFICES ASSUME Init PROVE Abstract!Init
    OBVIOUS
  <2>1. Queue = <<>>
    BY DEF Init, Queue
  <2>2. QED
    BY <2>1 DEF Init, Abstract!Init, Threads
<1>2. IInv /\ [DisciplinedNext]_vars => [Abstract!Next]_(Abstract!qvars)
  <2> SUFFICES ASSUME IInv, [DisciplinedNext]_vars
               PROVE  Abstract!Next \/ UNCHANGED Abstract!qvars
    OBVIOUS
  <2>1. CASE UNCHANGED vars
    <3>1. Queue' = Queue
      BY <2>1, SameShapeSteps DEF SameShape, vars
    <3>2. QED
      BY <2>1, <3>1 DEF vars, Abstract!qvars
  <2>2. ASSUME NEW p \in Producers,
               (\E v \in Values : DisciplinedPushCall(p, v)) \/ PushStep(p)
        PROVE  Abstract!Next \/ UNCHANGED Abstract!qvars
    BY <2>2, PushStutters, PushRefines, Zenon DEF PushStep, Abstract!Next
  <2>3. ASSUME NEW c \in Consumers, DisciplinedPopCall(c) \/ PopStep(c)
        PROVE  Abstract!Next \/ UNCHANGED Abstract!qvars
    BY <2>3, PopStutters, PopRefines, Zenon DEF PopStep, Abstract!Next
  <2>4. QED
    BY <2>1, <2>2, <2>3 DEF DisciplinedNext
<1>3. QED
  BY <1>1, <1>2, RingIInv, PTL DEF DisciplinedSpec, ImplementsQueue, Abstract!Spec

=============================================================================
