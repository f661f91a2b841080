---------------------------- MODULE OffloadProofs ----------------------------
(***************************************************************************)
(* Proofs about Offload, for any number of file and net operations, pool   *)
(* threads and channel capacities.                                         *)
(***************************************************************************)
EXTENDS Offload, FiniteSetTheorems, TLAPS

-----------------------------------------------------------------------------
(* Types *)

\* What the types rest on: only a file's task reaches "store", and a pool thread that
\* has stored a result still has its closure.
OffTypes ==
  /\ OffTypeOK
  /\ queue \in [Workers -> Seq(Ops)]
  /\ \A o \in Ops : opc[o] = "store" => o \in FileOps
  /\ \A w \in stored : job[w] \in Ops

-----------------------------------------------------------------------------
(* One closure per operation *)

\* The closure of o is the i-th in the channel of w; w runs it; or it is somewhere.
Queued(o, w, i) == i \in 1 .. Len(queue[w]) /\ queue[w][i] = o
Runs(o, w) == job[w] = o /\ w \notin stored
Placed(o) ==
  \/ \E w \in Workers : \E i \in 1 .. Len(queue[w]) : Queued(o, w, i)
  \/ \E w \in Workers : Runs(o, w)
  \/ o \in handle

\* JobOnce without counting: a place exists exactly while o waits, and there are no two.
PlacedWhilePending == \A o \in Ops : opc[o] = "pending" <=> Placed(o)

OneQueued ==
  \A o \in Ops, v, w \in Workers : \A i \in 1 .. Len(queue[v]), j \in 1 .. Len(queue[w]) :
    Queued(o, v, i) /\ Queued(o, w, j) => v = w /\ i = j

QueuedOnly ==
  \A o \in Ops, v \in Workers : \A i \in 1 .. Len(queue[v]) :
    Queued(o, v, i) => o \notin handle /\ \A w \in Workers : ~Runs(o, w)

OneRuns ==
  \A o \in Ops, v \in Workers :
    Runs(o, v) => o \notin handle /\ \A w \in Workers : Runs(o, w) => v = w

\* The operation whose result a thread has stored is past its wait, or has it.
StoredKept ==
  \A w \in stored : \/ opc[job[w]] \in {"done", "lost"}
                    \/ opc[job[w]] = "pending" /\ job[w] \in handle

OffInv == OffTypes /\ PlacedWhilePending /\ OneQueued /\ QueuedOnly /\ OneRuns /\ StoredKept

-----------------------------------------------------------------------------
(* Announcing results *)

\* A file operation past its first poll has its waker in reactor_tags.
WakerStored ==
  \A o \in FileOps : opc[o] \in {"execute", "update", "send", "pending"} => o \in wakers

\* o's tag is in reactor_tag_buffer.
InBuffer(o) == \E i \in 1 .. Len(tag_buffer) : tag_buffer[i] = o

\* A file past its first poll whose result is to come has its tag where the reactor will
\* look it up, or it was looked up too early.
Past(o) == opc[o] \in {"store", "execute", "update", "send", "pending"}
HeldTag(o) ==
  Past(o) /\ o \notin handle => InBuffer(o) \/ (reactor = "lookup" /\ tag = o) \/ o \in early
TagHeld == \A o \in FileOps : HeldTag(o)

\* ResultSignalled for the two kinds of operations.
NetSignalled ==
  \A o \in NetOps : o \in handle => o \in woken \/ \E w \in stored : job[w] = o
Signalled(o) == o \in handle => o \in woken \/ TagComing(o) \/ o \in early
FileSignalled == \A o \in FileOps : Signalled(o)

FileInv == WakerStored /\ TagHeld /\ FileSignalled

-----------------------------------------------------------------------------
(* Proof of the types *)

\* get_and_update_index: the next index is one of senders.
LEMMA NextIndex == \A i \in Workers : (i + 1) % NumThreads \in Workers
BY OffloadAssumption DEF Workers

\* The types hold of the pool that init has built.
LEMMA OffInitTypes == OffInit => OffTypes
<1> SUFFICES ASSUME OffInit PROVE OffTypes
  OBVIOUS
<1> USE OffloadAssumption DEF OffInit, Ops
<1>1. 0 \in Workers
  BY DEF Workers
<1>2. mio_wake \in BOOLEAN
  OBVIOUS
<1>3. queue \in [Workers -> Seq(Ops)] /\ \A w \in Workers : Len(queue[w]) = 0
  OBVIOUS
<1>4. tag_buffer \in Seq(Ops) /\ Len(tag_buffer) = 0
  OBVIOUS
<1>5. QED
  BY <1>1, <1>2, <1>3, <1>4 DEF OffTypes, OffTypeOK

\* Every step keeps the types.
LEMMA OffTypesStep == OffTypes /\ [OffNext]_vars => OffTypes'
<1> SUFFICES ASSUME OffTypes, [OffNext]_vars PROVE OffTypes'
  OBVIOUS
<1> USE OffloadAssumption DEF OffTypes, OffTypeOK, Goto, poolvars, reactorvars
<1>0. FileOps \subseteq Ops /\ NetOps \subseteq Ops /\ NoJob \notin Ops
  BY DEF Ops
<1>1. ASSUME NEW o \in Ops, PushTag(o, "new", "begun") \/ (o \in FileOps /\ PushTag(o, "begun", "store"))
      PROVE  OffTypes'
  <2>0. tag_buffer' = Append(tag_buffer, o) /\ Len(tag_buffer) # TagBound
    BY <1>1 DEF PushTag
  <2>1. tag_buffer' \in Seq(Ops) /\ Len(tag_buffer') <= TagBound
    <3>1. tag_buffer \in Seq(Ops) /\ Len(tag_buffer) \in Nat /\ Len(tag_buffer) < TagBound
      BY <2>0
    <3>2. QED
      BY <2>0, <3>1
  <2>2. mio_wake' \in BOOLEAN
    BY <1>1 DEF PushTag
  <2>3. QED
    BY <1>1, <2>1, <2>2 DEF PushTag
<1>2. ASSUME NEW o \in Ops, TagFull(o) PROVE OffTypes'
  <2>1. mio_wake' \in BOOLEAN
    BY <1>2 DEF TagFull
  <2>2. QED
    BY <1>2, <2>1 DEF TagFull
<1>3. ASSUME NEW o \in Ops, StoreWaker(o) PROVE OffTypes'
  <2>1. mio_wake' \in BOOLEAN
    BY <1>3 DEF StoreWaker
  <2>2. QED
    BY <1>3, <2>1 DEF StoreWaker
<1>4. ASSUME NEW o \in Ops, NetFirstPoll(o) PROVE OffTypes'
  <2>1. mio_wake' \in BOOLEAN
    BY <1>4 DEF NetFirstPoll
  <2>2. QED
    BY <1>4, <2>1 DEF NetFirstPoll
<1>5. ASSUME NEW o \in Ops, LoadCursor(o) PROVE OffTypes'
  <2>1. mio_wake' \in BOOLEAN
    BY <1>5 DEF LoadCursor
  <2>2. QED
    BY <1>5, <2>1 DEF LoadCursor
<1>6. ASSUME NEW o \in Ops, StoreCursor(o) PROVE OffTypes'
  <2>1. mio_wake' \in BOOLEAN
    BY <1>6 DEF StoreCursor
  <2>2. cursor' \in Workers
    BY <1>6, NextIndex DEF StoreCursor
  <2>3. QED
    BY <1>6, <2>1, <2>2 DEF StoreCursor
<1>7. ASSUME NEW o \in Ops, SendJob(o) PROVE OffTypes'
  <2>1. mio_wake' \in BOOLEAN
    BY <1>7 DEF SendJob
  <2>2. idx[o] \in Workers /\ Append(queue[idx[o]], o) \in Seq(Ops)
        /\ Len(Append(queue[idx[o]], o)) <= PoolBound
    BY <1>7 DEF SendJob
  <2>3. queue' \in [Workers -> Seq(Ops)] /\ \A w \in Workers : Len(queue'[w]) <= PoolBound
    BY <1>7, <2>2 DEF SendJob
  <2>4. QED
    BY <1>7, <2>1, <2>3 DEF SendJob
<1>8. ASSUME NEW o \in Ops, Poll(o) PROVE OffTypes'
  <2>1. mio_wake' \in BOOLEAN
    BY <1>8 DEF Poll
  <2>2. QED
    BY <1>8, <2>1 DEF Poll
<1>9. ASSUME NEW w \in Workers, TakeJob(w) PROVE OffTypes'
  <2>1. mio_wake' \in BOOLEAN
    BY <1>9 DEF TakeJob
  <2>2. Head(queue[w]) \in Ops /\ Tail(queue[w]) \in Seq(Ops) /\ Len(Tail(queue[w])) <= PoolBound
    BY <1>9 DEF TakeJob
  <2>3. queue' \in [Workers -> Seq(Ops)] /\ \A v \in Workers : Len(queue'[v]) <= PoolBound
    BY <1>9, <2>2 DEF TakeJob
  <2>4. job' \in [Workers -> Ops \cup {NoJob}] /\ \A v \in stored' : job'[v] \in Ops
    BY <1>9, <2>2 DEF TakeJob
  <2>5. QED
    BY <1>9, <2>1, <2>3, <2>4 DEF TakeJob
<1>10. ASSUME NEW w \in Workers, StoreResult(w) PROVE OffTypes'
  <2>1. mio_wake' \in BOOLEAN
    BY <1>10 DEF StoreResult
  <2>2. QED
    BY <1>10, <2>1 DEF StoreResult
<1>11. ASSUME NEW w \in Workers, WakeReactor(w) PROVE OffTypes'
  <2>1. mio_wake' \in BOOLEAN
    BY <1>11 DEF WakeReactor
  <2>2. QED
    BY <1>11, <2>1 DEF WakeReactor
<1>12. ASSUME NEW w \in Workers, WakeTask(w) PROVE OffTypes'
  <2>1. mio_wake' \in BOOLEAN
    BY <1>12 DEF WakeTask
  <2>2. QED
    BY <1>0, <1>12, <2>1 DEF WakeTask
<1>16. ASSUME NEW o \in Ops, NetBadAddress(o) \/ SendJobDead(o) PROVE OffTypes'
  <2>1. mio_wake' \in BOOLEAN
    BY <1>16 DEF NetBadAddress, SendJobDead
  <2>2. QED
    BY <1>16, <2>1 DEF NetBadAddress, SendJobDead
<1>17. ASSUME NEW w \in Workers, WakeTaskFull(w) PROVE OffTypes'
  <2>1. mio_wake' \in BOOLEAN
    BY <1>17 DEF WakeTaskFull
  <2>2. queue' \in [Workers -> Seq(Ops)] /\ \A v \in Workers : Len(queue'[v]) <= PoolBound
    BY <1>17 DEF WakeTaskFull
  <2>3. /\ opc' \in [Ops -> {"new", "begun", "store", "execute", "update", "send",
                             "pending", "done", "panicked", "lost"}]
        /\ \A o \in Ops : opc'[o] = "store" => opc[o] = "store"
    BY <1>17, Zenon DEF WakeTaskFull
  <2>4. QED
    BY <1>0, <1>17, <2>1, <2>2, <2>3 DEF WakeTaskFull
<1>18. CASE OtherWake
  <2>1. mio_wake' \in BOOLEAN
    BY <1>18 DEF OtherWake
  <2>2. QED
    BY <1>18, <2>1 DEF OtherWake
<1>13. CASE ReactorStep
  <2>1. mio_wake' \in BOOLEAN
    BY <1>13 DEF ReactorStep, ReactorPoll, PopTag, PopNoTag, WakeTag
  <2>2. CASE ReactorPoll
    BY <2>1, <2>2 DEF ReactorPoll
  <2>3. CASE PopTag
    <3>1. Head(tag_buffer) \in Ops /\ Tail(tag_buffer) \in Seq(Ops) /\ Len(Tail(tag_buffer)) <= TagBound
      BY <2>3 DEF PopTag
    <3>2. QED
      BY <2>1, <2>3, <3>1 DEF PopTag
  <2>4. CASE PopNoTag
    BY <2>1, <2>4 DEF PopNoTag
  <2>5. CASE WakeTag
    <3>1. early' \subseteq FileOps
      BY <2>5 DEF WakeTag, TooEarly
    <3>2. QED
      BY <1>0, <2>1, <2>5, <3>1 DEF WakeTag
  <2>6. QED
    BY <1>13, <2>2, <2>3, <2>4, <2>5 DEF ReactorStep
<1>14. CASE UNCHANGED vars
  <2>1. mio_wake' \in BOOLEAN
    BY <1>14 DEF vars
  <2>2. QED
    BY <1>14, <2>1 DEF vars
<1>15. QED
  BY <1>1, <1>2, <1>3, <1>4, <1>5, <1>6, <1>7, <1>8, <1>9, <1>10, <1>11, <1>12, <1>13, <1>14,
     <1>16, <1>17, <1>18 DEF OffNext, TaskStep, WorkerStep, Begin, FileFirstPoll

\* Every variable keeps its type; in particular the cursor that any number of threads
\* load and store without a lock is always an index of senders.
THEOREM OffloadTypes == OffSpec => []OffTypeOK
<1>1. OffTypes => OffTypeOK
  BY DEF OffTypes
<1>2. QED
  BY <1>1, OffInitTypes, OffTypesStep, PTL DEF OffSpec

-----------------------------------------------------------------------------
(* Proof of one closure per operation: how each step moves the closures *)

\* The invariant in terms of Queued, Runs and handle, over all positions.
LEMMA PlacesForm ==
  ASSUME OffTypes
  PROVE  /\ OneQueued <=> \A o \in Ops, v, w \in Workers, i, j \in Nat :
                            Queued(o, v, i) /\ Queued(o, w, j) => v = w /\ i = j
         /\ QueuedOnly <=> \A o \in Ops, v \in Workers, i \in Nat :
                            Queued(o, v, i) => o \notin handle /\ \A w \in Workers : ~Runs(o, w)
         /\ \A o \in Ops : Placed(o) <=> \/ \E w \in Workers, i \in Nat : Queued(o, w, i)
                                         \/ \E w \in Workers : Runs(o, w)
                                         \/ o \in handle
<1>1. \A w \in Workers : Len(queue[w]) \in Nat
  BY DEF OffTypes
<1>2. \A o \in Ops, w \in Workers, i \in Nat : Queued(o, w, i) => i \in 1 .. Len(queue[w])
  BY DEF Queued
<1>3. \A w \in Workers : \A i \in 1 .. Len(queue[w]) : i \in Nat
  BY <1>1
<1>4. QED
  BY <1>2, <1>3, Zenon DEF OneQueued, QueuedOnly, Placed

\* The same of the state after a step.
LEMMA PlacesFormNext ==
  ASSUME OffTypes'
  PROVE  /\ OneQueued' <=> \A o \in Ops, v, w \in Workers, i, j \in Nat :
                            Queued(o, v, i)' /\ Queued(o, w, j)' => v = w /\ i = j
         /\ QueuedOnly' <=> \A o \in Ops, v \in Workers, i \in Nat :
                            Queued(o, v, i)' => o \notin handle' /\ \A w \in Workers : ~Runs(o, w)'
         /\ \A o \in Ops : Placed(o)' <=> \/ \E w \in Workers, i \in Nat : Queued(o, w, i)'
                                          \/ \E w \in Workers : Runs(o, w)'
                                          \/ o \in handle'
<1>1. \A w \in Workers : Len(queue'[w]) \in Nat
  BY DEF OffTypes
<1>2. \A o \in Ops, w \in Workers, i \in Nat : Queued(o, w, i)' => i \in 1 .. Len(queue'[w])
  BY DEF Queued
<1>3. \A w \in Workers : \A i \in 1 .. Len(queue'[w]) : i \in Nat
  BY <1>1
<1>4. QED
  BY <1>2, <1>3, Zenon DEF OneQueued, QueuedOnly, Placed

\* Steps that move no closure.
LEMMA PlacesKept ==
  ASSUME OffInv, OffTypes', UNCHANGED <<queue, job, stored, handle>>,
         \A o \in Ops : opc'[o] = "pending" <=> opc[o] = "pending",
         \A o \in Ops : opc[o] \in {"done", "lost"} => opc'[o] = opc[o]
  PROVE  OffInv'
BY DEF OffInv, OffTypes, PlacedWhilePending, OneQueued, QueuedOnly, OneRuns, StoredKept, Placed, Queued,
       Runs

\* sender.send gives an operation without a closure its only one.
LEMMA SendJobOnce ==
  ASSUME OffInv, OffTypes', NEW o \in Ops, SendJob(o)
  PROVE  OffInv'
<1> USE DEF OffInv
<1>0. idx[o] \in Workers /\ queue \in [Workers -> Seq(Ops)]
  BY DEF OffTypes, OffTypeOK
<1>1. \A p \in Ops, w \in Workers, i \in Nat :
        Queued(p, w, i)' <=> Queued(p, w, i) \/ (p = o /\ w = idx[o] /\ i = Len(queue[w]) + 1)
  <2>1. \A w \in Workers : w # idx[o] => queue'[w] = queue[w]
    BY <1>0 DEF SendJob
  <2>2. queue'[idx[o]] = Append(queue[idx[o]], o)
    BY <1>0 DEF SendJob
  <2>3. ASSUME NEW p \in Ops, NEW i \in Nat
        PROVE  Queued(p, idx[o], i)' <=> Queued(p, idx[o], i) \/ (p = o /\ i = Len(queue[idx[o]]) + 1)
    <3>1. PICK q \in Seq(Ops) : q = queue[idx[o]]
      BY <1>0
    <3>2. i \in 1 .. Len(Append(q, o)) /\ Append(q, o)[i] = p <=>
            (i \in 1 .. Len(q) /\ q[i] = p) \/ (p = o /\ i = Len(q) + 1)
      OBVIOUS
    <3>3. idx'[o] = idx[o]
      BY DEF SendJob
    <3>4. QED
      BY <2>2, <3>1, <3>2, <3>3 DEF Queued
  <2>4. idx'[o] = idx[o]
    BY DEF SendJob
  <2>5. ASSUME NEW p \in Ops, NEW w \in Workers, NEW i \in Nat, w # idx[o]
        PROVE  Queued(p, w, i)' <=> Queued(p, w, i)
    BY <2>1, <2>5 DEF Queued
  <2>6. QED
    BY <2>3, <2>4, <2>5
<1>2. /\ \A p \in Ops, w \in Workers : Runs(p, w)' <=> Runs(p, w)
      /\ handle' = handle
  BY DEF SendJob, Runs
<1>3. /\ \A p \in Ops : opc'[p] = "pending" <=> opc[p] = "pending" \/ p = o
      /\ opc[o] # "pending"
  BY DEF SendJob, Goto, OffTypes, OffTypeOK
<1>4. ~Placed(o)
  BY <1>3 DEF PlacedWhilePending
<1>5. \A w \in Workers, i \in Nat : ~Queued(o, w, i) /\ ~Runs(o, w)
  BY <1>4, PlacesForm
<1>6. o \notin handle
  BY <1>4 DEF Placed
<1>7. OneQueued' /\ QueuedOnly'
  BY <1>1, <1>2, <1>5, <1>6, PlacesForm, PlacesFormNext
<1>8. OneRuns'
  BY <1>2 DEF OneRuns
<1>9. PlacedWhilePending'
  <2>1. Placed(o)'
    <3>1. PICK w \in Workers : w = idx[o] /\ Len(queue[w]) + 1 \in Nat
      BY <1>0
    <3>2. \E i \in Nat : Queued(o, w, i)'
      BY <1>1, <3>1
    <3>3. QED
      BY <3>2, PlacesFormNext
  <2>2. \A p \in Ops \ {o} : Placed(p)' <=> Placed(p)
    BY <1>1, <1>2, PlacesForm, PlacesFormNext
  <2>3. QED
    BY <1>3, <2>1, <2>2 DEF PlacedWhilePending
<1>10. StoredKept'
  <2>1. \A v \in stored : job[v] # o
    BY DEF StoredKept, SendJob, Goto
  <2>2. \A v \in stored : job[v] \in Ops
    BY DEF OffTypes
  <2>3. UNCHANGED <<stored, job>> /\ \A p \in Ops : p # o => opc'[p] = opc[p]
    BY DEF SendJob, Goto, OffTypes, OffTypeOK
  <2>4. QED
    BY <1>2, <2>1, <2>2, <2>3 DEF StoredKept
<1>11. QED
  BY <1>7, <1>8, <1>9, <1>10

\* rx.recv moves the first closure of a channel into its thread.
LEMMA TakeJobOnce ==
  ASSUME OffInv, OffTypes', NEW w \in Workers, TakeJob(w)
  PROVE  OffInv'
<1> USE DEF OffInv
<1>0. queue \in [Workers -> Seq(Ops)] /\ job \in [Workers -> Ops \cup {NoJob}] /\ NoJob \notin Ops
  BY OffloadAssumption DEF OffTypes, OffTypeOK, Ops
<1>1. PICK h \in Ops : h = Head(queue[w])
  BY <1>0 DEF TakeJob
<1>2. Queued(h, w, 1)
  BY <1>0, <1>1 DEF Queued, TakeJob
<1>3. w \notin stored /\ \A p \in Ops : ~Runs(p, w)
  BY <1>0 DEF TakeJob, OffTypes, Runs
<1>4. \A p \in Ops, i \in Nat : Queued(p, w, i)' <=> i # 0 /\ Queued(p, w, i + 1)
  <2>1. PICK q \in Seq(Ops) : q = queue[w] /\ q # <<>>
    BY <1>0 DEF TakeJob
  <2>2. queue'[w] = Tail(q)
    BY <1>0, <2>1 DEF TakeJob
  <2>3. Len(Tail(q)) = Len(q) - 1 /\ \A i \in 1 .. Len(q) - 1 : Tail(q)[i] = q[i + 1]
    BY <2>1
  <2>4. Len(q) \in Nat
    BY <2>1
  <2>5. QED
    BY <2>1, <2>2, <2>3, <2>4 DEF Queued
<1>5. \A p \in Ops, v \in Workers, i \in Nat : v # w => (Queued(p, v, i)' <=> Queued(p, v, i))
  BY <1>0 DEF TakeJob, Queued
<1>6. \A p \in Ops, v \in Workers : Runs(p, v)' <=> Runs(p, v) \/ (v = w /\ p = h)
  BY <1>0, <1>1, <1>3 DEF TakeJob, Runs
<1>7. handle' = handle /\ opc' = opc
  BY DEF TakeJob
<1>8. \A v \in Workers, i \in Nat : Queued(h, v, i) => v = w /\ i = 1
  BY <1>2, PlacesForm
<1>9. h \notin handle /\ \A v \in Workers : ~Runs(h, v)
  BY <1>2, PlacesForm
<1>10. \A v \in Workers, i \in Nat : ~Queued(h, v, i)'
  BY <1>4, <1>5, <1>8
<1>11. OneQueued'
  <2>1. ASSUME NEW p \in Ops, NEW u \in Workers, NEW v \in Workers, NEW i \in Nat, NEW j \in Nat,
               Queued(p, u, i)', Queued(p, v, j)'
        PROVE  u = v /\ i = j
    <3>1. PICK k \in Nat : Queued(p, u, k) /\ k = IF u = w THEN i + 1 ELSE i
      BY <1>4, <1>5, <2>1
    <3>2. PICK l \in Nat : Queued(p, v, l) /\ l = IF v = w THEN j + 1 ELSE j
      BY <1>4, <1>5, <2>1
    <3>3. u = v /\ k = l
      BY <3>1, <3>2, PlacesForm
    <3>4. QED
      BY <3>1, <3>2, <3>3
  <2>2. QED
    BY <2>1, PlacesFormNext
<1>12. \A p \in Ops : (\E v \in Workers, i \in Nat : Queued(p, v, i)') =>
                        p # h /\ \E v \in Workers, i \in Nat : Queued(p, v, i)
  BY <1>4, <1>5, <1>10
<1>13. QueuedOnly'
  BY <1>6, <1>7, <1>12, PlacesForm, PlacesFormNext
<1>14. OneRuns'
  BY <1>6, <1>7, <1>9 DEF OneRuns
<1>15. \A p \in Ops : p # h /\ (\E v \in Workers, i \in Nat : Queued(p, v, i)) =>
                        \E v \in Workers, i \in Nat : Queued(p, v, i)'
  <2> SUFFICES ASSUME NEW p \in Ops, p # h, NEW v \in Workers, NEW i \in Nat, Queued(p, v, i)
               PROVE  \E u \in Workers, j \in Nat : Queued(p, u, j)'
    OBVIOUS
  <2>1. CASE v # w
    BY <1>5, <2>1
  <2>2. CASE v = w
    <3>1. i # 0 /\ i # 1
      BY <1>0, <1>1, <2>2 DEF Queued
    <3>2. i - 1 \in Nat /\ i - 1 # 0 /\ (i - 1) + 1 = i
      BY <3>1
    <3>3. QED
      BY <1>4, <2>2, <3>2
  <2>3. QED
    BY <2>1, <2>2
<1>16. \A p \in Ops : Placed(p)' <=> Placed(p)
  BY <1>2, <1>6, <1>7, <1>12, <1>15, PlacesForm, PlacesFormNext
<1>17. PlacedWhilePending'
  BY <1>7, <1>16 DEF PlacedWhilePending
<1>18. StoredKept'
  <2>1. stored' = stored /\ \A v \in stored : v \in Workers /\ v # w
    BY <1>3 DEF TakeJob, OffTypes, OffTypeOK
  <2>2. \A v \in stored : job'[v] = job[v]
    BY <1>0, <2>1 DEF TakeJob
  <2>3. QED
    BY <1>7, <2>1, <2>2 DEF StoredKept
<1>19. QED
  BY <1>11, <1>13, <1>14, <1>17, <1>18

\* The closure's place becomes the result's.
LEMMA StoreResultOnce ==
  ASSUME OffInv, OffTypes', NEW w \in Workers, StoreResult(w)
  PROVE  OffInv'
<1> USE DEF OffInv
<1>1. PICK o \in Ops : o = job[w]
  BY DEF StoreResult, OffTypes, OffTypeOK
<1>2. Runs(o, w) /\ \A v \in Workers : Runs(o, v) => v = w
  BY <1>1 DEF StoreResult, Runs, OneRuns
<1>3. \A v \in Workers, i \in Nat : ~Queued(o, v, i)
  BY <1>2, PlacesForm
<1>4. \A p \in Ops, v \in Workers, i \in Nat : Queued(p, v, i)' <=> Queued(p, v, i)
  BY DEF StoreResult, Queued
<1>5. \A p \in Ops, v \in Workers : Runs(p, v)' <=> Runs(p, v) /\ v # w
  BY DEF StoreResult, Runs
<1>6. handle' = handle \cup {o} /\ opc' = opc
  BY <1>1 DEF StoreResult
<1>7. \A v \in Workers : ~Runs(o, v)'
  BY <1>2, <1>5
<1>8. OneQueued' /\ QueuedOnly'
  BY <1>3, <1>4, <1>5, <1>6, PlacesForm, PlacesFormNext
<1>9. OneRuns'
  BY <1>5, <1>6, <1>7 DEF OneRuns
<1>10. \A p \in Ops : Placed(p)' <=> Placed(p)
  <2>1. \A p \in Ops : p # o => ~Runs(p, w)
    BY <1>1 DEF Runs
  <2>2. QED
    BY <1>2, <1>4, <1>5, <1>6, <2>1, PlacesForm, PlacesFormNext
<1>11. PlacedWhilePending'
  BY <1>6, <1>10 DEF PlacedWhilePending
<1>12. StoredKept'
  <2>1. opc[o] = "pending"
    BY <1>2 DEF PlacedWhilePending, Placed
  <2>2. stored' = stored \cup {w} /\ job' = job
    BY DEF StoreResult
  <2>3. QED
    BY <1>1, <1>6, <2>1, <2>2 DEF StoredKept
<1>13. QED
  BY <1>8, <1>9, <1>11, <1>12

\* The closure has returned: the thread is free and its operation's places are as before.
LEMMA JobDoneOnce ==
  ASSUME OffInv, OffTypes', NEW w \in Workers, WakeReactor(w) \/ WakeTask(w)
  PROVE  OffInv'
<1> USE DEF OffInv
<1>1. \A p \in Ops, v \in Workers, i \in Nat : Queued(p, v, i)' <=> Queued(p, v, i)
  BY DEF WakeReactor, WakeTask, Queued
<1>2. w \in stored /\ stored' = stored \ {w} /\ job' = [job EXCEPT ![w] = NoJob]
  BY DEF WakeReactor, WakeTask
<1>3. \A p \in Ops, v \in Workers : Runs(p, v)' <=> Runs(p, v)
  <2>0. job \in [Workers -> Ops \cup {NoJob}]
    BY DEF OffTypes, OffTypeOK
  <2>1. \A p \in Ops : p # NoJob
    BY OffloadAssumption DEF Ops
  <2>2. job'[w] = NoJob /\ \A v \in Workers : v # w => job'[v] = job[v]
    BY <1>2, <2>0
  <2>3. \A p \in Ops, v \in Workers : v # w => (Runs(p, v)' <=> Runs(p, v))
    BY <1>2, <2>2 DEF Runs
  <2>4. \A p \in Ops : ~Runs(p, w)' /\ ~Runs(p, w)
    BY <1>2, <2>1, <2>2 DEF Runs
  <2>5. QED
    BY <2>3, <2>4
<1>4. handle' = handle /\ opc' = opc
  BY DEF WakeReactor, WakeTask
<1>5. OneQueued' /\ QueuedOnly'
  BY <1>1, <1>3, <1>4, PlacesForm, PlacesFormNext
<1>6. OneRuns'
  BY <1>3, <1>4 DEF OneRuns
<1>7. \A p \in Ops : Placed(p)' <=> Placed(p)
  BY <1>1, <1>3, <1>4, PlacesForm, PlacesFormNext
<1>8. PlacedWhilePending'
  BY <1>4, <1>7 DEF PlacedWhilePending
<1>9. StoredKept'
  <2>1. \A v \in stored' : v \in stored /\ job'[v] = job[v]
    BY <1>2 DEF OffTypes, OffTypeOK
  <2>2. QED
    BY <1>4, <2>1 DEF StoredKept
<1>10. QED
  BY <1>5, <1>6, <1>8, <1>9

\* wake finds waiting_tasks full: the thread's closures go, and their operations are lost.
LEMMA WakeTaskFullOnce ==
  ASSUME OffInv, OffTypes', NEW w \in Workers, WakeTaskFull(w)
  PROVE  OffInv'
<1> USE DEF OffInv
<1>0. /\ queue \in [Workers -> Seq(Ops)] /\ job \in [Workers -> Ops \cup {NoJob}] /\ stored \subseteq Workers
      /\ \A p \in Ops : p # NoJob
  BY OffloadAssumption DEF OffTypes, OffTypeOK, Ops
<1>1. PICK o \in Ops : o = job[w]
  BY DEF WakeTaskFull, OffTypes
<1>2. \A p \in Ops, v \in Workers, i \in Nat : Queued(p, v, i)' <=> Queued(p, v, i) /\ v # w
  <2>1. queue'[w] = <<>> /\ \A v \in Workers : v # w => queue'[v] = queue[v]
    BY <1>0 DEF WakeTaskFull
  <2>2. \A p \in Ops, i \in Nat : ~Queued(p, w, i)'
    BY <2>1 DEF Queued
  <2>3. \A p \in Ops, v \in Workers, i \in Nat : v # w => (Queued(p, v, i)' <=> Queued(p, v, i))
    BY <2>1 DEF Queued
  <2>4. QED
    BY <2>2, <2>3
<1>3. w \in stored /\ stored' = stored \ {w} /\ job' = [job EXCEPT ![w] = NoJob] /\ handle' = handle \ {o}
  BY <1>1 DEF WakeTaskFull
<1>4. job'[w] = NoJob /\ \A v \in Workers : v # w => job'[v] = job[v]
  BY <1>0, <1>3
<1>5. \A p \in Ops, v \in Workers : Runs(p, v)' <=> Runs(p, v)
  <2>1. \A p \in Ops, v \in Workers : v # w => (Runs(p, v)' <=> Runs(p, v))
    BY <1>3, <1>4 DEF Runs
  <2>2. \A p \in Ops : ~Runs(p, w)' /\ ~Runs(p, w)
    BY <1>0, <1>3, <1>4 DEF Runs
  <2>3. QED
    BY <2>1, <2>2
<1>6. ASSUME NEW p \in Ops
      PROVE  /\ opc[p] = "pending" /\ (p = o \/ \E i \in Nat : Queued(p, w, i)) => opc'[p] = "lost"
             /\ ~(opc[p] = "pending" /\ (p = o \/ \E i \in Nat : Queued(p, w, i))) => opc'[p] = opc[p]
  <2>1. p \in Range(queue[w]) <=> \E i \in Nat : Queued(p, w, i)
    <3>1. PICK q \in Seq(Ops) : q = queue[w]
      BY <1>0
    <3>2. DOMAIN q = 1 .. Len(q) /\ Len(q) \in Nat
      BY <3>1
    <3>3. QED
      BY <3>1, <3>2 DEF Range, Queued
  <2>2. opc'[p] = IF opc[p] = "pending" /\ p \in {job[w]} \cup Range(queue[w]) THEN "lost" ELSE opc[p]
    BY DEF WakeTaskFull
  <2>3. QED
    BY <1>1, <2>1, <2>2
<1>7. OneQueued' /\ QueuedOnly'
  BY <1>2, <1>3, <1>5, PlacesForm, PlacesFormNext
<1>8. OneRuns'
  BY <1>3, <1>5 DEF OneRuns
<1>9. ~Placed(o)'
  <2>1. opc[o] \in {"done", "lost"} \/ (opc[o] = "pending" /\ o \in handle)
    BY <1>1, <1>3 DEF StoredKept
  <2>2. \A v \in Workers, i \in Nat : ~Queued(o, v, i) /\ ~Runs(o, v)
    <3>1. CASE opc[o] \in {"done", "lost"}
      BY <3>1, PlacesForm DEF PlacedWhilePending
    <3>2. CASE o \in handle
      BY <3>2, PlacesForm DEF OneRuns
    <3>3. QED
      BY <2>1, <3>1, <3>2
  <2>3. 0 \in Nat
    OBVIOUS
  <2>4. QED
    BY <1>2, <1>3, <1>5, <2>2, <2>3, PlacesFormNext
<1>10. \A p \in Ops : (\E i \in Nat : Queued(p, w, i)) => ~Placed(p)'
  BY <1>2, <1>3, <1>5, PlacesForm, PlacesFormNext
<1>11. \A p \in Ops : p # o /\ ~(\E i \in Nat : Queued(p, w, i)) => (Placed(p)' <=> Placed(p))
  BY <1>2, <1>3, <1>5, PlacesForm, PlacesFormNext
<1>12. PlacedWhilePending'
  <2> SUFFICES ASSUME NEW p \in Ops PROVE opc'[p] = "pending" <=> Placed(p)'
    BY DEF PlacedWhilePending
  <2>1. opc[p] = "pending" <=> Placed(p)
    BY DEF PlacedWhilePending
  <2>2. CASE p = o \/ \E i \in Nat : Queued(p, w, i)
    BY <1>6, <1>9, <1>10, <2>2
  <2>3. CASE p # o /\ ~(\E i \in Nat : Queued(p, w, i))
    BY <1>6, <1>11, <2>1, <2>3
  <2>4. QED
    BY <2>2, <2>3
<1>13. StoredKept'
  <2> SUFFICES ASSUME NEW v \in stored'
               PROVE  \/ opc'[job'[v]] \in {"done", "lost"}
                      \/ opc'[job'[v]] = "pending" /\ job'[v] \in handle'
    BY DEF StoredKept
  <2>1. v \in stored /\ job'[v] = job[v] /\ job[v] \in Ops
    BY <1>0, <1>3, <1>4 DEF OffTypes
  <2>2. opc[job[v]] \in {"done", "lost"} \/ (opc[job[v]] = "pending" /\ job[v] \in handle)
    BY <2>1 DEF StoredKept
  <2>3. QED
    BY <1>3, <1>6, <2>1, <2>2
<1>14. QED
  BY <1>7, <1>8, <1>12, <1>13

\* A poll that takes the result ends the waiting; one that finds none changes nothing.
LEMMA PollOnce ==
  ASSUME OffInv, OffTypes', NEW o \in Ops, Poll(o)
  PROVE  OffInv'
<1> USE DEF OffInv
<1>1. /\ \A p \in Ops, v \in Workers, i \in Nat : Queued(p, v, i)' <=> Queued(p, v, i)
      /\ \A p \in Ops, v \in Workers : Runs(p, v)' <=> Runs(p, v)
      /\ handle' = handle \ {o}
  BY DEF Poll, poolvars, Queued, Runs
<1>2. OneQueued' /\ QueuedOnly'
  BY <1>1, PlacesForm, PlacesFormNext
<1>3. OneRuns'
  BY <1>1 DEF OneRuns
<1>4. \A p \in Ops : p # o => (Placed(p)' <=> Placed(p)) /\ opc'[p] = opc[p]
  <2>1. \A p \in Ops : p # o => opc'[p] = opc[p]
    BY DEF Poll, OffTypes, OffTypeOK
  <2>2. QED
    BY <1>1, <2>1, PlacesForm, PlacesFormNext
<1>s. StoredKept'
  <2>1. UNCHANGED <<stored, job>> /\ (o \in handle => opc'[o] = "done") /\ (o \notin handle => opc' = opc)
    BY DEF Poll, poolvars, OffTypes, OffTypeOK
  <2>2. \A v \in stored : job[v] \in Ops
    BY DEF OffTypes
  <2>3. opc[o] = "pending" /\ \A p \in Ops : p # o => opc'[p] = opc[p]
    BY <1>4 DEF Poll
  <2>4. QED
    BY <1>1, <2>1, <2>2, <2>3 DEF StoredKept
<1>5. CASE o \in handle
  <2>1. opc'[o] # "pending"
    BY <1>5 DEF Poll, OffTypes, OffTypeOK
  <2>2. \A v \in Workers, i \in Nat : ~Queued(o, v, i) /\ ~Runs(o, v)
    BY <1>5, PlacesForm DEF OneRuns
  <2>3. ~Placed(o)'
    BY <1>1, <2>2, PlacesFormNext
  <2>4. QED
    BY <1>2, <1>3, <1>4, <1>s, <2>1, <2>3 DEF PlacedWhilePending
<1>6. CASE o \notin handle
  <2>1. opc'[o] = opc[o] /\ handle' = handle
    BY <1>6 DEF Poll, OffTypes, OffTypeOK
  <2>2. Placed(o)' <=> Placed(o)
    BY <1>1, <2>1, PlacesForm, PlacesFormNext
  <2>3. QED
    BY <1>2, <1>3, <1>4, <1>s, <2>1, <2>2 DEF PlacedWhilePending
<1>7. QED
  BY <1>5, <1>6

\* No operation has a closure in the beginning.
LEMMA OffInitInv == OffInit => OffInv
<1> SUFFICES ASSUME OffInit PROVE OffInv
  OBVIOUS
<1>1. OffTypes
  BY OffInitTypes
<1>2. \A w \in Workers : Len(queue[w]) = 0 /\ job[w] = NoJob
  BY DEF OffInit
<1>3. \A o \in Ops, w \in Workers : ~Runs(o, w) /\ \A i \in 1 .. Len(queue[w]) : ~Queued(o, w, i)
  BY <1>2, OffloadAssumption DEF Runs, Queued, Ops
<1>4. \A o \in Ops : opc[o] = "new" /\ o \notin handle
  BY DEF OffInit
<1>5. stored = {}
  BY DEF OffInit
<1>6. QED
  BY <1>1, <1>3, <1>4, <1>5 DEF OffInv, PlacedWhilePending, OneQueued, QueuedOnly, OneRuns, StoredKept, Placed

\* The invariant is inductive.
LEMMA OffInvStep == OffInv /\ [OffNext]_vars => OffInv'
<1> SUFFICES ASSUME OffInv, [OffNext]_vars PROVE OffInv'
  OBVIOUS
<1>0. OffTypes' /\ opc \in [Ops -> {"new", "begun", "store", "execute", "update", "send",
                                    "pending", "done", "panicked", "lost"}]
  BY OffTypesStep DEF OffInv, OffTypes, OffTypeOK
<1>1. ASSUME NEW o \in Ops,
             \/ PushTag(o, "new", "begun") \/ (o \in FileOps /\ PushTag(o, "begun", "store"))
             \/ TagFull(o) \/ StoreWaker(o) \/ NetFirstPoll(o) \/ NetBadAddress(o)
             \/ LoadCursor(o) \/ StoreCursor(o) \/ SendJobDead(o)
      PROVE  OffInv'
  <2>1. UNCHANGED <<queue, job, stored, handle>>
    BY <1>1 DEF PushTag, TagFull, StoreWaker, NetFirstPoll, NetBadAddress, LoadCursor, StoreCursor,
                SendJobDead, poolvars
  <2>2. \A p \in Ops : p # o => opc'[p] = opc[p]
    BY <1>0, <1>1 DEF PushTag, TagFull, StoreWaker, NetFirstPoll, NetBadAddress, LoadCursor, StoreCursor,
                      SendJobDead, Goto
  <2>3. opc[o] \notin {"pending", "done", "lost"} /\ opc'[o] # "pending"
    BY <1>0, <1>1 DEF PushTag, TagFull, StoreWaker, NetFirstPoll, NetBadAddress, LoadCursor, StoreCursor,
                      SendJobDead, Goto
  <2>4. QED
    BY <1>0, <2>1, <2>2, <2>3, PlacesKept
<1>2. ASSUME NEW o \in Ops, SendJob(o) \/ Poll(o) PROVE OffInv'
  BY <1>0, <1>2, SendJobOnce, PollOnce
<1>3. ASSUME NEW w \in Workers, WorkerStep(w) PROVE OffInv'
  BY <1>0, <1>3, TakeJobOnce, StoreResultOnce, JobDoneOnce, WakeTaskFullOnce DEF WorkerStep
<1>4. CASE ReactorStep \/ OtherWake \/ UNCHANGED vars
  <2>1. UNCHANGED <<opc, queue, job, stored, handle>>
    BY <1>4 DEF ReactorStep, ReactorPoll, PopTag, PopNoTag, WakeTag, OtherWake, vars, poolvars
  <2>2. QED
    BY <1>0, <2>1, PlacesKept
<1>5. QED
  BY <1>1, <1>2, <1>3, <1>4 DEF OffNext, TaskStep, Begin, FileFirstPoll

\* So it always holds.
LEMMA OffInvAlways == OffSpec => []OffInv
BY OffInitInv, OffInvStep, PTL DEF OffSpec

-----------------------------------------------------------------------------
(* Counting the places *)

\* One step from the places to their number.
LEMMA PlacesCounted == OffInv => JobOnce
<1> SUFFICES ASSUME OffInv, NEW o \in Ops
             PROVE  Cardinality(JobPlaces(o)) = IF opc[o] = "pending" THEN 1 ELSE 0
  BY DEF JobOnce
<1> USE DEF OffInv
<1>0. \A w \in Workers : Len(queue[w]) \in Nat /\ Len(queue[w]) <= PoolBound
  BY DEF OffTypes, OffTypeOK
<1>1. \A w \in Workers : \A i \in 1 .. Len(queue[w]) : i \in 1 .. PoolBound /\ i \in Nat
  BY <1>0, OffloadAssumption
<1>2. ASSUME NEW x \in JobPlaces(o)
      PROVE  \/ \E w \in Workers, i \in Nat : Queued(o, w, i) /\ x = <<"queue", <<w, i>>>>
             \/ \E w \in Workers : Runs(o, w) /\ x = <<"running", w>>
             \/ o \in handle /\ x = <<"stored", 0>>
  <2>1. CASE \E p \in Workers \X (1 .. PoolBound) :
               x = <<"queue", p>> /\ p[2] <= Len(queue[p[1]]) /\ queue[p[1]][p[2]] = o
    <3>1. PICK w \in Workers, i \in 1 .. PoolBound :
                 x = <<"queue", <<w, i>>>> /\ i <= Len(queue[w]) /\ queue[w][i] = o
      BY <2>1
    <3>2. i \in Nat /\ Queued(o, w, i)
      BY <1>0, <3>1, OffloadAssumption DEF Queued
    <3>3. QED
      BY <3>1, <3>2
  <2>2. CASE \E w \in Workers : job[w] = o /\ w \notin stored /\ x = <<"running", w>>
    BY <2>2 DEF Runs
  <2>3. CASE o \in handle /\ x = <<"stored", 0>>
    BY <2>3
  <2>4. QED
    BY <1>2, <2>1, <2>2, <2>3 DEF JobPlaces
<1>3. /\ \A w \in Workers, i \in Nat : Queued(o, w, i) => <<"queue", <<w, i>>>> \in JobPlaces(o)
      /\ \A w \in Workers : Runs(o, w) => <<"running", w>> \in JobPlaces(o)
      /\ o \in handle => <<"stored", 0>> \in JobPlaces(o)
  <2>1. ASSUME NEW w \in Workers, NEW i \in Nat, Queued(o, w, i)
        PROVE  <<"queue", <<w, i>>>> \in JobPlaces(o)
    <3>1. i \in 1 .. PoolBound /\ i <= Len(queue[w]) /\ queue[w][i] = o
      BY <1>0, <1>1, <2>1 DEF Queued
    <3>2. <<w, i>> \in {q \in Workers \X (1 .. PoolBound) : q[2] <= Len(queue[q[1]]) /\ queue[q[1]][q[2]] = o}
      BY <3>1
    <3>3. QED
      BY <3>2 DEF JobPlaces
  <2>2. ASSUME NEW w \in Workers, Runs(o, w) PROVE <<"running", w>> \in JobPlaces(o)
    BY <2>2 DEF Runs, JobPlaces
  <2>3. ASSUME o \in handle PROVE <<"stored", 0>> \in JobPlaces(o)
    BY <2>3 DEF JobPlaces
  <2>4. QED
    BY <2>1, <2>2, <2>3
<1>4. CASE opc[o] # "pending"
  <2>1. ~Placed(o)
    BY <1>4 DEF PlacedWhilePending
  <2>2. JobPlaces(o) = {}
    BY <1>2, <2>1, PlacesForm
  <2>3. QED
    BY <1>4, <2>2, FS_EmptySet
<1>5. CASE opc[o] = "pending"
  <2>1. Placed(o)
    BY <1>5 DEF PlacedWhilePending
  <2>2. \A x, y \in JobPlaces(o) : x = y
    BY <1>2, PlacesForm DEF OneRuns
  <2>3. PICK x \in JobPlaces(o) : TRUE
    BY <1>3, <2>1, PlacesForm
  <2>4. JobPlaces(o) = {x}
    BY <2>2, <2>3
  <2>5. QED
    BY <1>5, <2>4, FS_Singleton
<1>6. QED
  BY <1>4, <1>5

\* However many threads race through get_and_update_index, a waiting operation has
\* exactly one closure queued or running, or its result; any other operation has none.
THEOREM OffloadJobOnce == OffSpec => []JobOnce
BY OffInvAlways, PlacesCounted, PTL

-----------------------------------------------------------------------------
(* Proof that results are announced *)

\* An operation is a file's or a socket's, and NoJob is neither.
LEMMA KindsDiffer ==
  /\ FileOps \subseteq Ops /\ NetOps \subseteq Ops /\ NoJob \notin Ops
  /\ \A o \in Ops : o \in FileOps <=> o \notin NetOps
BY OffloadAssumption DEF Ops

\* The result of a net operation is announced by the thread that stored it.
LEMMA NetSignalledStep == OffInv /\ NetSignalled /\ [OffNext]_vars => NetSignalled'
<1> SUFFICES ASSUME OffInv, NetSignalled, [OffNext]_vars, NEW p \in NetOps, p \in handle'
             PROVE  p \in woken' \/ \E w \in stored' : job'[w] = p
  BY DEF NetSignalled
<1>0. p \in Ops /\ p \notin FileOps
  BY KindsDiffer
<1>t. job \in [Workers -> Ops \cup {NoJob}] /\ stored \subseteq Workers /\ NoJob \notin Ops
      /\ \A w \in stored : job[w] \in Ops
  BY KindsDiffer DEF OffInv, OffTypes, OffTypeOK
<1>1. ASSUME NEW o \in Ops,
             \/ PushTag(o, "new", "begun") \/ (o \in FileOps /\ PushTag(o, "begun", "store"))
             \/ TagFull(o) \/ StoreWaker(o) \/ NetFirstPoll(o) \/ NetBadAddress(o)
             \/ LoadCursor(o) \/ StoreCursor(o) \/ SendJob(o) \/ SendJobDead(o)
      PROVE  UNCHANGED <<woken, handle, stored, job>>
  BY <1>1 DEF PushTag, TagFull, StoreWaker, NetFirstPoll, NetBadAddress, LoadCursor, StoreCursor, SendJob,
              SendJobDead, poolvars
<1>2. ASSUME NEW o \in Ops, Poll(o) PROVE p \in woken' \/ \E w \in stored' : job'[w] = p
  BY <1>2 DEF Poll, poolvars, NetSignalled
<1>3. ASSUME NEW w \in Workers, TakeJob(w) PROVE p \in woken' \/ \E v \in stored' : job'[v] = p
  <2>1. w \notin stored
    BY <1>t, <1>3 DEF TakeJob
  <2>2. \A v \in stored : job'[v] = job[v]
    BY <1>t, <1>3, <2>1 DEF TakeJob
  <2>3. QED
    BY <1>3, <2>2 DEF TakeJob, NetSignalled
<1>4. ASSUME NEW w \in Workers, StoreResult(w) PROVE p \in woken' \/ \E v \in stored' : job'[v] = p
  BY <1>4 DEF StoreResult, NetSignalled
<1>5. ASSUME NEW w \in Workers, WakeReactor(w) \/ WakeTask(w)
      PROVE  p \in woken' \/ \E v \in stored' : job'[v] = p
  <2>1. /\ stored' = stored \ {w} /\ handle' = handle /\ woken \subseteq woken'
        /\ \A v \in stored' : job'[v] = job[v]
        /\ job[w] = p => p \in woken'
    BY <1>0, <1>t, <1>5 DEF WakeReactor, WakeTask
  <2>2. QED
    BY <2>1 DEF NetSignalled
<1>6. ASSUME ReactorStep \/ OtherWake \/ UNCHANGED vars
      PROVE  woken \subseteq woken' /\ UNCHANGED <<handle, stored, job>>
  BY <1>6 DEF ReactorStep, ReactorPoll, PopTag, PopNoTag, WakeTag, OtherWake, vars, poolvars
<1>7. ASSUME NEW w \in Workers, WakeTaskFull(w) PROVE p \in woken' \/ \E v \in stored' : job'[v] = p
  <2>1. /\ stored' = stored \ {w} /\ handle' = handle \ {job[w]} /\ woken' = woken
        /\ \A v \in stored' : job'[v] = job[v]
    BY <1>t, <1>7 DEF WakeTaskFull
  <2>2. QED
    BY <2>1 DEF NetSignalled
<1>8. QED
  BY <1>1, <1>2, <1>3, <1>4, <1>5, <1>6, <1>7
     DEF OffNext, TaskStep, Begin, FileFirstPoll, WorkerStep, NetSignalled

\* The result of a connect or a bind is never left unannounced, whatever else the pool
\* and the reactor do: its closure has still to wake the task, or the task is queued.
THEOREM OffloadNetSignalled == OffSpec => []NetSignalled
<1>1. OffInit => NetSignalled
  BY DEF OffInit, NetSignalled
<1>2. QED
  BY <1>1, NetSignalledStep, OffInvAlways, PTL DEF OffSpec

\* What the steps do to the tag buffer.
LEMMA BufferSteps ==
  ASSUME OffTypes, NEW f \in Ops
  PROVE  /\ \A o \in Ops : tag_buffer' = Append(tag_buffer, o) => (InBuffer(f)' <=> InBuffer(f) \/ f = o)
         /\ tag_buffer # <<>> /\ tag_buffer' = Tail(tag_buffer) /\ InBuffer(f) =>
              f = Head(tag_buffer) \/ InBuffer(f)'
<1>1. PICK q \in Seq(Ops) : q = tag_buffer
  BY DEF OffTypes, OffTypeOK
<1>2. \A o \in Ops : (\E i \in 1 .. Len(Append(q, o)) : Append(q, o)[i] = f) <=>
                     (\E i \in 1 .. Len(q) : q[i] = f) \/ f = o
  <2> SUFFICES ASSUME NEW o \in Ops
               PROVE  (\E i \in 1 .. Len(Append(q, o)) : Append(q, o)[i] = f) <=>
                      (\E i \in 1 .. Len(q) : q[i] = f) \/ f = o
    OBVIOUS
  <2>1. /\ Len(q) \in Nat /\ Len(Append(q, o)) = Len(q) + 1
        /\ \A i \in 1 .. Len(q) : Append(q, o)[i] = q[i]
        /\ Append(q, o)[Len(q) + 1] = o
    OBVIOUS
  <2>2. QED
    BY <2>1
<1>3. q # <<>> /\ (\E i \in 1 .. Len(q) : q[i] = f) =>
        f = Head(q) \/ \E i \in 1 .. Len(Tail(q)) : Tail(q)[i] = f
  <2> SUFFICES ASSUME q # <<>>, NEW i \in 1 .. Len(q), q[i] = f, i # 1
               PROVE  \E j \in 1 .. Len(Tail(q)) : Tail(q)[j] = f
    OBVIOUS
  <2>1. /\ Len(q) \in Nat /\ Len(Tail(q)) = Len(q) - 1
        /\ \A j \in 1 .. Len(q) - 1 : Tail(q)[j] = q[j + 1]
    OBVIOUS
  <2>2. i - 1 \in 1 .. Len(q) - 1 /\ (i - 1) + 1 = i
    BY <2>1
  <2>3. QED
    BY <2>1, <2>2
<1>4. ASSUME NEW o \in Ops, tag_buffer' = Append(tag_buffer, o)
      PROVE  InBuffer(f)' <=> InBuffer(f) \/ f = o
  <2>1. tag_buffer' = Append(q, o)
    BY <1>1, <1>4
  <2>2. InBuffer(f)' <=> \E i \in 1 .. Len(Append(q, o)) : Append(q, o)[i] = f
    BY <2>1 DEF InBuffer
  <2>3. InBuffer(f) <=> \E i \in 1 .. Len(q) : q[i] = f
    BY <1>1 DEF InBuffer
  <2>4. QED
    BY <1>2, <2>2, <2>3
<1>5. ASSUME tag_buffer # <<>>, tag_buffer' = Tail(tag_buffer), InBuffer(f)
      PROVE  f = Head(tag_buffer) \/ InBuffer(f)'
  <2>1. tag_buffer' = Tail(q) /\ q # <<>>
    BY <1>1, <1>5
  <2>2. InBuffer(f)' <=> \E i \in 1 .. Len(Tail(q)) : Tail(q)[i] = f
    BY <2>1 DEF InBuffer
  <2>3. \E i \in 1 .. Len(q) : q[i] = f
    BY <1>1, <1>5 DEF InBuffer
  <2>4. QED
    BY <1>1, <1>3, <2>1, <2>2, <2>3
<1>6. QED
  BY <1>4, <1>5

\* A file's waker is stored before execute is called and is not removed.
LEMMA WakerStoredStep ==
  ASSUME OffInv, WakerStored, [OffNext]_vars
  PROVE  WakerStored'
<1> SUFFICES ASSUME NEW f \in FileOps, opc'[f] \in {"execute", "update", "send", "pending"}
             PROVE  f \in wakers'
  BY DEF WakerStored
<1>0. f \in Ops /\ f \notin NetOps /\ opc \in [Ops -> {"new", "begun", "store", "execute", "update",
                                                       "send", "pending", "done", "panicked", "lost"}]
  BY KindsDiffer DEF OffInv, OffTypes, OffTypeOK
<1>1. ASSUME NEW o \in Ops, StoreWaker(o) PROVE f \in wakers'
  BY <1>0, <1>1 DEF StoreWaker, Goto, WakerStored
<1>2. ASSUME NEW o \in Ops,
             \/ PushTag(o, "new", "begun") \/ (o \in FileOps /\ PushTag(o, "begun", "store"))
             \/ TagFull(o) \/ NetFirstPoll(o) \/ NetBadAddress(o) \/ LoadCursor(o) \/ StoreCursor(o)
             \/ SendJob(o) \/ SendJobDead(o) \/ Poll(o)
      PROVE  f \in wakers'
  <2>1. wakers' = wakers
    BY <1>2 DEF PushTag, TagFull, NetFirstPoll, NetBadAddress, LoadCursor, StoreCursor, SendJob,
                SendJobDead, Poll
  <2>2. opc[f] \in {"execute", "update", "send", "pending"}
    BY <1>0, <1>2 DEF PushTag, TagFull, NetFirstPoll, NetBadAddress, LoadCursor, StoreCursor, SendJob,
                      SendJobDead, Poll, Goto
  <2>3. QED
    BY <2>1, <2>2 DEF WakerStored
<1>3. ASSUME NEW w \in Workers, TakeJob(w) \/ StoreResult(w) \/ WakeReactor(w) \/ WakeTask(w)
      PROVE  UNCHANGED <<opc, wakers>>
  BY <1>3 DEF TakeJob, StoreResult, WakeReactor, WakeTask
<1>4. ASSUME NEW w \in Workers, WakeTaskFull(w) PROVE f \in wakers'
  <2>1. wakers' = wakers /\ opc'[f] \in {opc[f], "lost"}
    BY <1>0, <1>4 DEF WakeTaskFull
  <2>2. QED
    BY <2>1 DEF WakerStored
<1>5. ASSUME ReactorStep \/ OtherWake \/ UNCHANGED vars
      PROVE  UNCHANGED <<opc, wakers>>
  BY <1>5 DEF ReactorStep, ReactorPoll, PopTag, PopNoTag, WakeTag, OtherWake, vars
<1>6. QED
  BY <1>1, <1>2, <1>3, <1>4, <1>5 DEF OffNext, TaskStep, WorkerStep, Begin, FileFirstPoll, WakerStored

\* The task's own steps: the first poll pushes the tag, and nothing else touches it.
LEMMA FileTaskStep ==
  ASSUME OffInv, FileInv, NEW f \in FileOps, NEW o \in Ops, Begin(o) \/ TaskStep(o)
  PROVE  HeldTag(f)' /\ Signalled(f)'
<1>0. f \in Ops /\ f \notin NetOps /\ opc \in [Ops -> {"new", "begun", "store", "execute", "update",
                                                       "send", "pending", "done", "panicked", "lost"}]
  BY KindsDiffer DEF OffInv, OffTypes, OffTypeOK
<1>1. UNCHANGED <<mio_wake, reactor, tag, early, stored, job, handle, woken>> /\ wakers \subseteq wakers'
  BY DEF Begin, TaskStep, FileFirstPoll, PushTag, TagFull, StoreWaker, NetFirstPoll, NetBadAddress, LoadCursor,
         StoreCursor, SendJob, SendJobDead, poolvars, reactorvars
<1>2. InBuffer(f) => InBuffer(f)'
  <2>1. CASE Begin(o) \/ FileFirstPoll(o)
    <3>1. tag_buffer' = Append(tag_buffer, o)
      BY <2>1 DEF Begin, FileFirstPoll, PushTag
    <3>2. QED
      BY <1>0, <3>1, BufferSteps DEF OffInv
  <2>2. CASE \/ TagFull(o) \/ StoreWaker(o) \/ NetFirstPoll(o) \/ NetBadAddress(o) \/ LoadCursor(o)
             \/ StoreCursor(o) \/ SendJob(o) \/ SendJobDead(o)
    BY <2>2 DEF TagFull, StoreWaker, NetFirstPoll, NetBadAddress, LoadCursor, StoreCursor, SendJob,
                SendJobDead, reactorvars, InBuffer
  <2>3. QED
    BY <2>1, <2>2 DEF TaskStep
<1>3. Past(f)' => Past(f) \/ InBuffer(f)'
  <2>1. CASE FileFirstPoll(o)
    <3>1. tag_buffer' = Append(tag_buffer, o) /\ (f # o => opc'[f] = opc[f])
      BY <1>0, <2>1 DEF FileFirstPoll, PushTag, Goto
    <3>2. QED
      BY <1>0, <3>1, BufferSteps DEF OffInv, Past
  <2>2. CASE \/ Begin(o) \/ TagFull(o) \/ StoreWaker(o) \/ NetFirstPoll(o) \/ NetBadAddress(o)
             \/ LoadCursor(o) \/ StoreCursor(o) \/ SendJob(o) \/ SendJobDead(o)
    BY <1>0, <2>2 DEF Begin, PushTag, TagFull, StoreWaker, NetFirstPoll, NetBadAddress, LoadCursor, StoreCursor,
                      SendJob, SendJobDead, Goto, Past
  <2>3. QED
    BY <2>1, <2>2 DEF TaskStep
<1>4. TagComing(f) => TagComing(f)'
  BY <1>1, <1>2 DEF TagComing, InBuffer
<1>5. QED
  BY <1>1, <1>2, <1>3, <1>4 DEF FileInv, TagHeld, FileSignalled, HeldTag, Signalled

\* A poll takes the result away, or changes nothing.
LEMMA FilePollStep ==
  ASSUME OffInv, FileInv, NEW f \in FileOps, NEW o \in Ops, Poll(o)
  PROVE  HeldTag(f)' /\ Signalled(f)'
<1>0. f \in Ops /\ opc \in [Ops -> {"new", "begun", "store", "execute", "update",
                                    "send", "pending", "done", "panicked", "lost"}]
  BY KindsDiffer DEF OffInv, OffTypes, OffTypeOK
<1>1. /\ UNCHANGED <<mio_wake, reactor, tag, early, stored, job, wakers, tag_buffer>>
      /\ handle' = handle \ {o} /\ woken' = woken \ {o}
  BY DEF Poll, poolvars, reactorvars
<1>2. (InBuffer(f)' <=> InBuffer(f)) /\ (TagComing(f)' <=> TagComing(f))
  BY <1>1 DEF TagComing, InBuffer
<1>3. Past(f)' => Past(f) /\ (f = o => f \notin handle)
  BY <1>0 DEF Poll, Past
<1>4. QED
  BY <1>1, <1>2, <1>3 DEF FileInv, TagHeld, FileSignalled, HeldTag, Signalled

\* The closure that stores the file's result finds the tag where the reactor will pop it, or
\* it was popped too early; and it is about to wake the reactor.
LEMMA FileWorkerStep ==
  ASSUME OffInv, FileInv, NEW f \in FileOps, NEW w \in Workers, WorkerStep(w)
  PROVE  HeldTag(f)' /\ Signalled(f)'
<1>0. /\ f \in Ops /\ f \notin NetOps /\ job \in [Workers -> Ops \cup {NoJob}] /\ stored \subseteq Workers
      /\ NoJob \notin Ops /\ \A v \in stored : job[v] \in Ops
  BY KindsDiffer DEF OffInv, OffTypes, OffTypeOK
<1>1. UNCHANGED <<wakers, tag_buffer, reactor, tag, early>> /\ woken \subseteq woken'
  BY DEF WorkerStep, TakeJob, StoreResult, WakeReactor, WakeTask, WakeTaskFull, reactorvars
<1>2. InBuffer(f)' <=> InBuffer(f)
  BY <1>1 DEF InBuffer
<1>3. Past(f)' => Past(f)
  <2>1. CASE WakeTaskFull(w)
    <3>1. opc'[f] \in {opc[f], "lost"}
      BY <1>0, <2>1 DEF WakeTaskFull
    <3>2. QED
      BY <3>1 DEF Past
  <2>2. CASE TakeJob(w) \/ StoreResult(w) \/ WakeReactor(w) \/ WakeTask(w)
    BY <2>2 DEF TakeJob, StoreResult, WakeReactor, WakeTask, Past
  <2>3. QED
    BY <2>1, <2>2 DEF WorkerStep
<1>4. CASE TakeJob(w)
  <2>1. w \notin stored
    BY <1>0, <1>4 DEF TakeJob
  <2>2. UNCHANGED <<stored, mio_wake, handle>> /\ \A v \in stored : job'[v] = job[v]
    BY <1>0, <1>4, <2>1 DEF TakeJob, reactorvars
  <2>3. TagComing(f) => TagComing(f)'
    BY <1>1, <2>2 DEF TagComing
  <2>4. QED
    BY <1>1, <1>2, <1>3, <2>2, <2>3 DEF FileInv, TagHeld, FileSignalled, HeldTag, Signalled
<1>5. CASE StoreResult(w)
  <2>1. /\ stored' = stored \cup {w} /\ handle' = handle \cup {job[w]} /\ UNCHANGED <<mio_wake, job>>
        /\ w \notin stored
    BY <1>5 DEF StoreResult, reactorvars
  <2>2. TagComing(f) => TagComing(f)'
    BY <1>1, <2>1 DEF TagComing
  <2>3. HeldTag(f)'
    BY <1>1, <1>2, <1>3, <2>1 DEF FileInv, TagHeld, HeldTag
  <2>4. CASE job[w] # f
    BY <1>1, <2>1, <2>2, <2>3, <2>4 DEF FileInv, FileSignalled, Signalled
  <2>5. CASE job[w] = f
    <3>1. Runs(f, w)
      BY <2>1, <2>5 DEF Runs
    <3>2. opc[f] = "pending" /\ f \notin handle
      BY <1>0, <3>1 DEF OffInv, PlacedWhilePending, Placed, OneRuns
    <3>3. /\ f \in wakers
          /\ InBuffer(f) \/ (reactor = "lookup" /\ tag = f) \/ f \in early
      BY <3>2 DEF FileInv, WakerStored, TagHeld, HeldTag, Past
    <3>4. w \in stored' /\ job'[w] \in FileOps
      BY <2>1, <2>5
    <3>5. Signalled(f)'
      BY <1>1, <1>2, <3>3, <3>4 DEF Signalled, TagComing, InBuffer
    <3>6. QED
      BY <2>3, <3>5
  <2>6. QED
    BY <2>4, <2>5
<1>6. CASE WakeReactor(w)
  <2>1. mio_wake' /\ handle' = handle
    BY <1>6 DEF WakeReactor
  <2>2. TagComing(f) => TagComing(f)'
    BY <1>1, <2>1 DEF TagComing
  <2>3. QED
    BY <1>1, <1>2, <1>3, <2>1, <2>2 DEF FileInv, TagHeld, FileSignalled, HeldTag, Signalled
<1>7. CASE WakeTask(w) \/ WakeTaskFull(w)
  <2>1. /\ stored' = stored \ {w} /\ job[w] \notin FileOps /\ mio_wake' = mio_wake
        /\ f \in handle' <=> f \in handle
        /\ \A v \in stored' : job'[v] = job[v]
    BY <1>0, <1>7, KindsDiffer DEF WakeTask, WakeTaskFull, reactorvars
  <2>2. TagComing(f) => TagComing(f)'
    BY <1>1, <2>1 DEF TagComing
  <2>3. QED
    BY <1>1, <1>2, <1>3, <2>1, <2>2 DEF FileInv, TagHeld, FileSignalled, HeldTag, Signalled
<1>8. QED
  BY <1>4, <1>5, <1>6, <1>7 DEF WorkerStep

\* A popped tag is looked up: its task is queued, or it was too early.
LEMMA FileReactorStep ==
  ASSUME OffInv, FileInv, NEW f \in FileOps, ReactorStep
  PROVE  HeldTag(f)' /\ Signalled(f)'
<1>0. f \in Ops /\ (InBuffer(f) <=> f \in Range(tag_buffer))
  <2>1. PICK q \in Seq(Ops) : q = tag_buffer
    BY DEF OffInv, OffTypes, OffTypeOK
  <2>2. DOMAIN q = 1 .. Len(q)
    OBVIOUS
  <2>3. QED
    BY <2>1, <2>2, KindsDiffer DEF InBuffer, Range
<1>1. UNCHANGED <<opc, wakers, handle, stored, job>> /\ woken \subseteq woken' /\ early \subseteq early'
  BY DEF ReactorStep, ReactorPoll, PopTag, PopNoTag, WakeTag, poolvars
<1>2. Past(f)' <=> Past(f)
  BY <1>1 DEF Past
<1>3. /\ HeldTag(f) /\ Signalled(f)
      /\ HeldTag(f) <=> (Past(f) /\ f \notin handle =>
                           InBuffer(f) \/ (reactor = "lookup" /\ tag = f) \/ f \in early)
  BY DEF FileInv, TagHeld, FileSignalled, HeldTag
<1>4. CASE ReactorPoll
  <2>1. InBuffer(f)' <=> InBuffer(f)
    BY <1>4 DEF ReactorPoll, InBuffer
  <2>2. HeldTag(f)'
    BY <1>1, <1>2, <1>3, <1>4, <2>1 DEF ReactorPoll, HeldTag
  <2>3. TagComing(f) => TagComing(f)'
    BY <1>1, <1>4 DEF ReactorPoll, TagComing
  <2>4. QED
    BY <1>1, <1>3, <2>2, <2>3 DEF Signalled
<1>5. CASE PopTag
  <2>1. InBuffer(f) => (tag' = f /\ reactor' = "lookup") \/ InBuffer(f)'
    BY <1>0, <1>5, BufferSteps DEF PopTag, OffInv
  <2>2. reactor = "drain" /\ reactor' # "poll"
    BY <1>5 DEF PopTag
  <2>3. HeldTag(f)'
    BY <1>1, <1>2, <1>3, <2>1, <2>2 DEF HeldTag
  <2>4. TagComing(f) => InBuffer(f) /\ f \in wakers
    BY <2>2 DEF TagComing, InBuffer
  <2>5. TagComing(f) => TagComing(f)'
    BY <1>1, <2>1, <2>2, <2>4 DEF TagComing, InBuffer
  <2>6. QED
    BY <1>1, <1>3, <2>3, <2>5 DEF Signalled
<1>6. CASE PopNoTag
  <2>1. ~InBuffer(f) /\ reactor = "drain"
    BY <1>6 DEF PopNoTag, InBuffer
  <2>2. ~TagComing(f)
    BY <2>1 DEF TagComing, InBuffer
  <2>3. QED
    BY <1>1, <1>2, <1>3, <2>1, <2>2 DEF HeldTag, Signalled
<1>7. CASE WakeTag
  <2>1. reactor = "lookup" /\ reactor' = "drain" /\ (InBuffer(f)' <=> InBuffer(f))
    BY <1>7 DEF WakeTag, InBuffer
  <2>2. CASE tag = f
    <3>1. Past(f) /\ f \notin handle => InBuffer(f) \/ f \in early'
      BY <1>0, <1>7, <2>2 DEF WakeTag, TooEarly, Past
    <3>2. TagComing(f) => f \in woken'
      BY <1>7, <2>2 DEF WakeTag, TagComing
    <3>3. QED
      BY <1>1, <1>2, <1>3, <2>1, <3>1, <3>2 DEF HeldTag, Signalled
  <2>3. CASE tag # f
    <3>1. TagComing(f) => TagComing(f)'
      BY <1>1, <1>7, <2>1, <2>3 DEF WakeTag, TagComing
    <3>2. QED
      BY <1>1, <1>2, <1>3, <2>1, <2>3, <3>1 DEF HeldTag, Signalled
  <2>4. QED
    BY <2>2, <2>3
<1>8. QED
  BY <1>4, <1>5, <1>6, <1>7 DEF ReactorStep

\* The invariant is inductive.
LEMMA FileInvStep ==
  ASSUME OffInv, FileInv, [OffNext]_vars
  PROVE  FileInv'
<1>1. WakerStored'
  BY WakerStoredStep DEF FileInv
<1>2. ASSUME NEW f \in FileOps PROVE HeldTag(f)' /\ Signalled(f)'
  <2>1. CASE OtherWake
    <3>1. /\ mio_wake' /\ UNCHANGED <<opc, wakers, handle, stored, job, woken, early, tag_buffer, reactor, tag>>
      BY <2>1 DEF OtherWake, poolvars
    <3>2. (TagComing(f) => TagComing(f)') /\ (InBuffer(f)' <=> InBuffer(f)) /\ (Past(f)' <=> Past(f))
      BY <3>1 DEF TagComing, InBuffer, Past
    <3>3. QED
      BY <3>1, <3>2 DEF FileInv, TagHeld, FileSignalled, HeldTag, Signalled
  <2>2. CASE UNCHANGED vars
    BY <2>2 DEF vars, FileInv, TagHeld, FileSignalled, HeldTag, Signalled, Past, TagComing, InBuffer
  <2>3. QED
    BY <2>1, <2>2, FileTaskStep, FilePollStep, FileWorkerStep, FileReactorStep DEF OffNext
<1>3. QED
  BY <1>1, <1>2 DEF FileInv, TagHeld, FileSignalled

\* It holds in the beginning.
LEMMA OffInitFileInv == OffInit => FileInv
<1> SUFFICES ASSUME OffInit PROVE FileInv
  OBVIOUS
<1>1. \A o \in FileOps : opc[o] = "new" /\ o \notin handle
  BY KindsDiffer DEF OffInit
<1>2. QED
  BY <1>1 DEF FileInv, WakerStored, TagHeld, FileSignalled, HeldTag, Signalled, Past

\* Whatever else wakes the reactor, and however many files are opened at once, a stored
\* result is announced unless the reactor drained its tag before it was there
\* (file.rs:195-213, reactor.rs:202-212): the early pop is the only way a result is left
\* unannounced.  That it does happen is what the run offload_two_files shows.
THEOREM OffloadResultSignalled == OffSpec => []ResultSignalled
<1>1. NetSignalled /\ FileInv /\ OffInv => ResultSignalled
  BY KindsDiffer DEF NetSignalled, FileInv, FileSignalled, Signalled, ResultSignalled, OffInv, OffTypes, OffTypeOK
<1>2. OffInv /\ FileInv /\ [OffNext]_vars => FileInv'
  BY FileInvStep
<1>3. QED
  BY <1>1, <1>2, OffInitFileInv, OffInvAlways, OffloadNetSignalled, PTL DEF OffSpec

=============================================================================
