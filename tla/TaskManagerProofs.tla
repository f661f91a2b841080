------------------------- MODULE TaskManagerProofs -------------------------
(***************************************************************************)
(* For every number of executors, clients and tasks: the task manager      *)
(* keeps its types, never loses or doubles an executor, never blocks or    *)
(* fails in a send, and never revives an aborted task; and only a thread   *)
(* outside the executors, or a death, strands a queued task.               *)
(***************************************************************************)
EXTENDS TaskManager, FiniteSetTheorems, SequenceTheorems, TLAPS

\* What the constants are.
LEMMA Bounds ==
  /\ Executors \cap Clients = {} /\ Executors # {} /\ Tasks # {}
  /\ TaskBound \in Nat /\ ExecutorBound \in Nat /\ MaxQueuedTasks \in Nat \ {0}
BY TaskManagerAssumption

-----------------------------------------------------------------------------
(* Types *)

\* The types hold after build.
LEMMA TMInitTypeOK == TMInit => TMTypeOK
<1> SUFFICES ASSUME TMInit PROVE TMTypeOK
  OBVIOUS
<1>1. (CHOOSE t \in Tasks : TRUE) \in Tasks /\ (CHOOSE e \in Executors : TRUE) \in Executors
  BY Bounds
<1>2. waiting_executors \in Seq(Executors)
  BY TaskManagerAssumption DEF TMInit
<1>3. ready_queue \in [Executors -> Seq(Tasks)] /\ waiting_tasks \in Seq(Tasks)
      /\ Len(waiting_tasks) <= TaskBound
  BY Bounds DEF TMInit
<1>4. QED
  BY <1>1, <1>2, <1>3, Bounds DEF TMInit, TMTypeOK, Threads, RegisterPC, ExecutorPC, ClientPC

\* The types in two parts: where the threads are, and what the queues and locals hold.
PCTypes ==
  /\ pc \in [Threads -> ExecutorPC \cup ClientPC]
  /\ \A e \in Executors : pc[e] \in ExecutorPC
  /\ \A c \in Clients : pc[c] \in ClientPC

DataTypes ==
  /\ waiting_tasks \in Seq(Tasks) /\ Len(waiting_tasks) <= TaskBound
  /\ waiting_executors \in Seq(Executors)
  /\ ready_queue \in [Executors -> Seq(Tasks)]
  /\ abort \in [Tasks -> BOOLEAN]
  /\ task \in [Threads -> Tasks] /\ target \in [Threads -> Executors]
  /\ running \in [Executors -> Tasks]

\* Together they are TMTypeOK.
LEMMA TMTypeParts ==
  /\ TMTypeOK <=> PCTypes /\ DataTypes
  /\ TMTypeOK' <=> PCTypes' /\ DataTypes'
BY DEF TMTypeOK, PCTypes, DataTypes

\* A thread that goes where its kind may be keeps the types of pc.
LEMMA PCMoves ==
  ASSUME PCTypes, NEW th \in Threads, NEW to, pc' = [pc EXCEPT ![th] = to],
         th \in Executors => to \in ExecutorPC, th \in Clients => to \in ClientPC
  PROVE  PCTypes'
<1>1. to \in ExecutorPC \cup ClientPC
  BY DEF Threads
<1>2. pc' \in [Threads -> ExecutorPC \cup ClientPC]
  BY <1>1 DEF PCTypes
<1>3. \A u \in Threads : pc'[u] = IF u = th THEN to ELSE pc[u]
  BY DEF PCTypes
<1>4. (\A e \in Executors : e \in Threads) /\ (\A c \in Clients : c \in Threads)
  BY DEF Threads
<1>5. QED
  BY <1>2, <1>3, <1>4 DEF PCTypes

\* Where the steps of the manager lead.
LEMMA HomePC ==
  /\ \A th \in Threads : (th \in Executors => Home(th) \in ExecutorPC) /\ (th \in Clients => Home(th) \in ClientPC)
  /\ \A th \in Threads : LET to == IF th \in Executors THEN "run" ELSE "panicked"
                         IN  (th \in Executors => to \in ExecutorPC) /\ (th \in Clients => to \in ClientPC)
  /\ \A q \in {"check", "pop", "send", "push"} : q \in ExecutorPC /\ q \in ClientPC
  /\ \A q \in {"recv", "run", "ready", "screen", "resend", "park", "dead"} : q \in ExecutorPC
  /\ \A e \in Executors : e \in Threads /\ e \notin Clients
BY Bounds DEF Home, ExecutorPC, ClientPC, RegisterPC, Threads

\* Every step keeps the types of pc.
LEMMA PCTypesStep ==
  ASSUME PCTypes, [TMNext]_tmvars
  PROVE  PCTypes'
<1> USE DEF Goto
<1>1. ASSUME NEW th \in Threads, (\E t \in Tasks : Register(th, t)) \/ RegisterLive(th) \/ PopExecutor(th) \/ PopNoExecutor(th)
      PROVE  PCTypes'
  <2>1. \E q \in {"check", "pop", "send", "push"} : pc' = [pc EXCEPT ![th] = q]
    BY <1>1 DEF Register, RegisterLive, PopExecutor, PopNoExecutor
  <2>2. QED
    BY <2>1, PCMoves, HomePC
<1>2. ASSUME NEW th \in Threads, RegisterAborted(th) \/ SendTask(th) \/ PushTask(th) PROVE PCTypes'
  <2>1. pc' = [pc EXCEPT ![th] = Home(th)]
    BY <1>2 DEF RegisterAborted, SendTask, PushTask
  <2>2. QED
    BY <2>1, PCMoves, HomePC
<1>3. ASSUME NEW th \in Threads, PushTaskFull(th) PROVE PCTypes'
  <2>1. pc' = [pc EXCEPT ![th] = IF th \in Executors THEN "run" ELSE "panicked"]
    BY <1>3 DEF PushTaskFull
  <2>2. QED
    BY <2>1, PCMoves, HomePC
<1>4. ASSUME NEW e \in Executors, Recv(e) \/ RunEnd(e) \/ Die(e) \/ ExecutorReadyStep(e) PROVE PCTypes'
  <2>1. \E q \in {"recv", "run", "ready", "screen", "resend", "park", "dead"} : pc' = [pc EXCEPT ![e] = q]
    BY <1>4 DEF Recv, RunEnd, Die, ExecutorReadyStep, ReadyPop, ReadyNone, SkipAborted, KeepTask, SendSelf, Park
  <2>2. QED
    BY <2>1, PCMoves, HomePC
<1>5. ASSUME (\E t \in Tasks : Abort(t)) \/ UNCHANGED tmvars PROVE PCTypes'
  BY <1>5 DEF Abort, tmvars, PCTypes
<1>6. QED
  BY <1>1, <1>2, <1>3, <1>4, <1>5 DEF TMNext, RegisterStep

\* Every step keeps the types of the queues and of the threads' locals.
LEMMA DataTypesStep ==
  ASSUME DataTypes, [TMNext]_tmvars
  PROVE  DataTypes'
<1> USE Bounds DEF DataTypes
<1>0. \A e \in Executors : e \in Threads
  BY DEF Threads
<1>1. ASSUME NEW th \in Threads, NEW t \in Tasks, Register(th, t) PROVE DataTypes'
  BY <1>1 DEF Register
<1>2. ASSUME NEW th \in Threads, RegisterAborted(th) \/ RegisterLive(th) \/ PopNoExecutor(th) \/ PushTaskFull(th)
      PROVE  DataTypes'
  BY <1>2 DEF RegisterAborted, RegisterLive, PopNoExecutor, PushTaskFull
<1>3. ASSUME NEW th \in Threads, PopExecutor(th) PROVE DataTypes'
  <2>1. Head(waiting_executors) \in Executors /\ Tail(waiting_executors) \in Seq(Executors)
    BY <1>3, HeadTailProperties DEF PopExecutor
  <2>2. QED
    BY <1>3, <2>1 DEF PopExecutor
<1>4. ASSUME NEW th \in Threads, SendTask(th) PROVE DataTypes'
  <2>1. Append(ready_queue[target[th]], task[th]) \in Seq(Tasks)
    BY AppendProperties
  <2>2. QED
    BY <1>4, <2>1 DEF SendTask
<1>5. ASSUME NEW th \in Threads, PushTask(th) PROVE DataTypes'
  <2>1. Append(waiting_tasks, task[th]) \in Seq(Tasks) /\ Len(Append(waiting_tasks, task[th])) = Len(waiting_tasks) + 1
    BY AppendProperties
  <2>2. Len(waiting_tasks) + 1 <= TaskBound
    BY <1>5 DEF PushTask
  <2>3. QED
    BY <1>5, <2>1, <2>2 DEF PushTask
<1>6. ASSUME NEW e \in Executors, Recv(e) PROVE DataTypes'
  <2>1. Head(ready_queue[e]) \in Tasks /\ Tail(ready_queue[e]) \in Seq(Tasks)
    BY <1>6, HeadTailProperties DEF Recv
  <2>2. QED
    BY <1>6, <2>1 DEF Recv
<1>7. ASSUME NEW e \in Executors, RunEnd(e) \/ Die(e) \/ ReadyNone(e) \/ SkipAborted(e) \/ KeepTask(e) PROVE DataTypes'
  BY <1>7 DEF RunEnd, Die, ReadyNone, SkipAborted, KeepTask
<1>8. ASSUME NEW e \in Executors, ReadyPop(e) PROVE DataTypes'
  <2>1. /\ Head(waiting_tasks) \in Tasks /\ Tail(waiting_tasks) \in Seq(Tasks)
        /\ Len(Tail(waiting_tasks)) <= TaskBound
    BY <1>8, HeadTailProperties DEF ReadyPop
  <2>2. QED
    BY <1>0, <1>8, <2>1 DEF ReadyPop
<1>9. ASSUME NEW e \in Executors, SendSelf(e) PROVE DataTypes'
  <2>1. Append(ready_queue[e], task[e]) \in Seq(Tasks)
    BY <1>0, AppendProperties
  <2>2. QED
    BY <1>9, <2>1 DEF SendSelf
<1>10. ASSUME NEW e \in Executors, Park(e) PROVE DataTypes'
  <2>1. Append(waiting_executors, e) \in Seq(Executors)
    BY AppendProperties
  <2>2. QED
    BY <1>10, <2>1 DEF Park
<1>11. ASSUME NEW t \in Tasks, Abort(t) PROVE DataTypes'
  BY <1>11 DEF Abort
<1>12. CASE UNCHANGED tmvars
  BY <1>12 DEF tmvars
<1>13. QED
  BY <1>1, <1>2, <1>3, <1>4, <1>5, <1>6, <1>7, <1>8, <1>9, <1>10, <1>11, <1>12
     DEF TMNext, RegisterStep, ExecutorReadyStep

\* Every step keeps the types.
LEMMA TMTypeOKStep ==
  ASSUME TMTypeOK, [TMNext]_tmvars
  PROVE  TMTypeOK'
BY PCTypesStep, DataTypesStep, TMTypeParts

\* Every variable of the task manager keeps its type.
THEOREM TMTypes == TMSpec => []TMTypeOK
<1>1. TMTypeOK /\ [TMNext]_tmvars => TMTypeOK'
  BY TMTypeOKStep
<1>2. QED
  BY <1>1, TMInitTypeOK, PTL DEF TMSpec

-----------------------------------------------------------------------------
(* Every executor is at exactly one place. *)

\* After build every executor is parked.
LEMMA TMInitTokens == TMInit => ExecutorTokens
<1> SUFFICES ASSUME TMInit PROVE ExecutorTokens
  OBVIOUS
<1>1. \A i, j \in 1 .. Len(waiting_executors) :
        waiting_executors[i] = waiting_executors[j] => i = j
  BY TaskManagerAssumption DEF TMInit
<1>2. \A e \in Executors : Parked(e)
  BY TaskManagerAssumption DEF TMInit, Parked
<1>3. \A e \in Executors : ready_queue[e] = <<>>
  BY DEF TMInit
<1>4. \A e \in Executors : Len(ready_queue[e]) <= 1
  <2>1. Len(<<>>) <= 1
    OBVIOUS
  <2>2. QED
    BY <1>3, <2>1
<1>5. \A e \in Executors : pc[e] = "recv"
  BY DEF TMInit, Threads
<1>6. \A th \in Threads : \A e \in Executors : ~Sending(th, e)
  BY DEF TMInit, Sending
<1>7. QED
  BY <1>1, <1>2, <1>3, <1>4, <1>5, <1>6 DEF ExecutorTokens

\* A step that moves no thread into or out of recv and send and leaves the
\* executors' queues alone moves no token.
TokensUnmoved ==
  /\ UNCHANGED <<waiting_executors, ready_queue, target>>
  /\ \A th \in Threads : (pc'[th] = "recv" <=> pc[th] = "recv")
                          /\ (pc'[th] = "send" <=> pc[th] = "send")

\* A step that moves no executor keeps the count of places.
LEMMA UnmovedTokens ==
  ASSUME ExecutorTokens, TokensUnmoved
  PROVE  ExecutorTokens'
<1>1. \A th \in Threads, e \in Executors : Sending(th, e)' <=> Sending(th, e)
  BY DEF Sending, TokensUnmoved
<1>2. \A e \in Executors : Parked(e)' <=> Parked(e)
  BY DEF Parked, TokensUnmoved
<1>3. \A e \in Executors : pc'[e] = "recv" <=> pc[e] = "recv"
  BY DEF TokensUnmoved, Threads
<1>4. UNCHANGED <<waiting_executors, ready_queue>>
  BY DEF TokensUnmoved
<1>5. QED
  BY <1>1, <1>2, <1>3, <1>4 DEF ExecutorTokens

\* Registering, pushing and polling move no executor.
LEMMA QuietStepsUnmoved ==
  ASSUME TMTypeOK
  PROVE  /\ \A th \in Threads :
              \/ \E t \in Tasks : Register(th, t)
              \/ RegisterAborted(th) \/ RegisterLive(th) \/ PopNoExecutor(th)
              \/ PushTask(th) \/ PushTaskFull(th)
              => TokensUnmoved
         /\ \A e \in Executors :
              \/ RunEnd(e) \/ Die(e) \/ ReadyPop(e) \/ ReadyNone(e)
              \/ SkipAborted(e) \/ KeepTask(e)
              => TokensUnmoved
         /\ \A t \in Tasks : Abort(t) => TokensUnmoved
<1> USE DEF TokensUnmoved, TMTypeOK, Goto, Home, Threads
<1>1. ASSUME NEW th \in Threads,
             \/ \E t \in Tasks : Register(th, t)
             \/ RegisterAborted(th) \/ RegisterLive(th) \/ PopNoExecutor(th)
             \/ PushTask(th) \/ PushTaskFull(th)
      PROVE  TokensUnmoved
  <2>1. /\ UNCHANGED <<waiting_executors, ready_queue, target>>
        /\ pc[th] \notin {"recv", "send"}
        /\ \E l : l \notin {"recv", "send"} /\ pc' = [pc EXCEPT ![th] = l]
    BY <1>1 DEF Register, RegisterAborted, RegisterLive, PopNoExecutor, PushTask,
       PushTaskFull
  <2>2. QED
    BY <2>1
<1>2. ASSUME NEW e \in Executors,
             \/ RunEnd(e) \/ Die(e) \/ ReadyPop(e) \/ ReadyNone(e)
             \/ SkipAborted(e) \/ KeepTask(e)
      PROVE  TokensUnmoved
  <2>1. /\ UNCHANGED <<waiting_executors, ready_queue, target>>
        /\ pc[e] \notin {"recv", "send"}
        /\ \E l : l \notin {"recv", "send"} /\ pc' = [pc EXCEPT ![e] = l]
    BY <1>2 DEF RunEnd, Die, ReadyPop, ReadyNone, SkipAborted, KeepTask
  <2>2. QED
    BY <2>1
<1>3. ASSUME NEW t \in Tasks, Abort(t) PROVE TokensUnmoved
  BY <1>3 DEF Abort
<1>4. QED
  BY <1>1, <1>2, <1>3

\* The registering thread takes the token of the executor it pops.
LEMMA PopExecutorTokens ==
  ASSUME TMTypeOK, ExecutorTokens, NEW th \in Threads, PopExecutor(th)
  PROVE  ExecutorTokens'
<1> DEFINE h == Head(waiting_executors)
           we == waiting_executors
<1>1. /\ we \in Seq(Executors) /\ we # <<>>
      /\ waiting_executors' = Tail(we)
      /\ ready_queue' = ready_queue
      /\ pc[th] = "pop" /\ pc'[th] = "send" /\ target'[th] = h
      /\ \A a \in Threads \ {th} : pc'[a] = pc[a] /\ target'[a] = target[a]
  BY DEF PopExecutor, Goto, TMTypeOK
<1>2. /\ Len(we) \in Nat \ {0} /\ h = we[1] /\ h \in Executors
      /\ Len(Tail(we)) = Len(we) - 1
      /\ \A i \in 1 .. Len(we) - 1 : Tail(we)[i] = we[i + 1]
  BY <1>1, HeadTailProperties
<1>3. \A i, j \in 1 .. Len(waiting_executors') :
        waiting_executors'[i] = waiting_executors'[j] => i = j
  BY <1>1, <1>2 DEF ExecutorTokens
<1>4. \A e \in Executors : Parked(e)' <=> Parked(e) /\ e # h
  <2>1. ASSUME NEW e \in Executors, Parked(e)' PROVE Parked(e) /\ e # h
    <3>1. PICK i \in 1 .. Len(we) - 1 : we[i + 1] = e
      BY <1>1, <1>2, <2>1 DEF Parked
    <3>2. i + 1 \in 1 .. Len(we) /\ 1 \in 1 .. Len(we) /\ i + 1 # 1
      BY <1>2
    <3>3. QED
      BY <1>2, <3>1, <3>2 DEF Parked, ExecutorTokens
  <2>2. ASSUME NEW e \in Executors, Parked(e), e # h PROVE Parked(e)'
    <3>1. PICK i \in 1 .. Len(we) : we[i] = e
      BY <2>2 DEF Parked
    <3>2. i - 1 \in 1 .. Len(we) - 1 /\ (i - 1) + 1 = i
      BY <1>2, <2>2, <3>1
    <3>3. Tail(we)[i - 1] = e /\ i - 1 \in 1 .. Len(Tail(we))
      BY <1>2, <3>1, <3>2
    <3>4. QED
      BY <1>1, <3>3 DEF Parked
  <2>3. QED
    BY <2>1, <2>2
<1>5. Parked(h)
  <2>1. 1 \in 1 .. Len(we)
    BY <1>2
  <2>2. QED
    BY <1>2, <2>1 DEF Parked
<1>6. \A e \in Executors : \A a \in Threads :
        Sending(a, e)' <=> IF a = th THEN e = h ELSE Sending(a, e)
  BY <1>1 DEF Sending
<1>7. \A e \in Executors : ~Sending(th, e)
  BY <1>1 DEF Sending
<1>8. \A e \in Executors : pc'[e] = "recv" <=> pc[e] = "recv"
  BY <1>1 DEF Threads
<1>9. \A e \in Executors : e # h =>
        ((\E a \in Threads : Sending(a, e)') <=> \E a \in Threads : Sending(a, e))
  BY <1>6, <1>7
<1>10. \A e \in Executors : e = h => Sending(th, e)'
  BY <1>2, <1>6
<1>11. ASSUME NEW e \in Executors
       PROVE  ExecutorTokens!2!(e)'
  <2>1. CASE e = h
    BY <1>1, <1>2, <1>4, <1>5, <1>6, <1>8, <1>10, <2>1 DEF ExecutorTokens
  <2>2. CASE e # h
    BY <1>1, <1>4, <1>6, <1>7, <1>8, <1>9, <2>2 DEF ExecutorTokens
  <2>3. QED
    BY <2>1, <2>2
<1>12. QED
  BY <1>3, <1>11 DEF ExecutorTokens

\* The token goes from the sender into the channel.
LEMMA SendTaskTokens ==
  ASSUME TMTypeOK, ExecutorTokens, NEW th \in Threads, SendTask(th)
  PROVE  ExecutorTokens'
<1> DEFINE x == target[th]
<1>1. /\ x \in Executors /\ ready_queue[x] \in Seq(Tasks) /\ task[th] \in Tasks
      /\ pc[th] = "send" /\ pc'[th] \notin {"send", "recv"}
      /\ \A a \in Threads \ {th} : pc'[a] = pc[a]
      /\ UNCHANGED <<waiting_executors, target>>
      /\ \A e \in Executors : e # x => ready_queue'[e] = ready_queue[e]
      /\ ready_queue'[x] = Append(ready_queue[x], task[th])
  BY DEF SendTask, Goto, Home, TMTypeOK
<1>2. Sending(th, x)
  BY <1>1 DEF Sending
<1>3. ready_queue[x] = <<>> /\ pc[x] = "recv" /\ ~Parked(x)
  BY <1>1, <1>2 DEF ExecutorTokens
<1>4. ready_queue'[x] # <<>> /\ Len(ready_queue'[x]) <= 1
  <2>1. Len(ready_queue[x]) = 0
    BY <1>3
  <2>2. QED
    BY <1>1, <2>1, AppendProperties
<1>5. \A e \in Executors : Parked(e)' <=> Parked(e)
  BY <1>1 DEF Parked
<1>6. \A e \in Executors : \A a \in Threads : Sending(a, e)' <=> Sending(a, e) /\ a # th
  BY <1>1 DEF Sending
<1>7. \A e \in Executors : pc'[e] = "recv" <=> pc[e] = "recv"
  BY <1>1 DEF Threads
<1>8. \A e \in Executors : Sending(th, e) => e = x
  BY DEF Sending
<1>9. ASSUME NEW e \in Executors
      PROVE  ExecutorTokens!2!(e)'
  <2>1. CASE e = x
    <3>1. \A a \in Threads : ~Sending(a, e)'
      BY <1>1, <1>2, <1>6, <2>1 DEF ExecutorTokens
    <3>2. QED
      BY <1>3, <1>4, <1>5, <1>7, <2>1, <3>1
  <2>2. CASE e # x
    <3>1. \A a \in Threads : Sending(a, e)' <=> Sending(a, e)
      BY <1>6, <1>8, <2>2
    <3>2. QED
      BY <1>1, <1>5, <1>7, <2>2, <3>1 DEF ExecutorTokens
  <2>3. QED
    BY <2>1, <2>2
<1>10. QED
  BY <1>1, <1>9 DEF ExecutorTokens

\* A queue of one is empty once it is popped.
LEMMA TailOfOne ==
  ASSUME NEW S, NEW s \in Seq(S), s # <<>>, Len(s) <= 1
  PROVE  Tail(s) = <<>>
<1>1. Len(s) \in Nat \ {0}
  BY EmptySeq
<1>2. Len(s) = 1
  BY <1>1
<1>3. Tail(s) \in Seq(S) /\ Len(Tail(s)) = Len(s) - 1
  BY HeadTailProperties
<1>4. Len(Tail(s)) = 0
  BY <1>2, <1>3
<1>5. QED
  BY <1>3, <1>4, EmptySeq

\* The token goes from the channel to the executor itself.
LEMMA RecvTokens ==
  ASSUME TMTypeOK, ExecutorTokens, NEW x \in Executors, Recv(x)
  PROVE  ExecutorTokens'
<1>1. /\ ready_queue[x] \in Seq(Tasks) /\ ready_queue[x] # <<>>
      /\ pc[x] = "recv" /\ pc'[x] = "run"
      /\ \A a \in Threads \ {x} : pc'[a] = pc[a]
      /\ UNCHANGED <<waiting_executors, target>>
      /\ \A e \in Executors : e # x => ready_queue'[e] = ready_queue[e]
      /\ ready_queue'[x] = Tail(ready_queue[x])
  BY DEF Recv, Goto, TMTypeOK, Threads
<1>2. ~Parked(x) /\ \A a \in Threads : ~Sending(a, x)
  BY <1>1 DEF ExecutorTokens
<1>3. ready_queue'[x] = <<>> /\ Len(ready_queue'[x]) <= 1
  <2>1. Len(ready_queue[x]) <= 1
    BY DEF ExecutorTokens
  <2>2. Tail(ready_queue[x]) = <<>>
    BY <1>1, <2>1, TailOfOne
  <2>3. ready_queue'[x] = <<>>
    BY <1>1, <2>2
  <2>4. Len(<<>>) <= 1
    OBVIOUS
  <2>5. QED
    BY <2>3, <2>4, Zenon
<1>4. \A e \in Executors : Parked(e)' <=> Parked(e)
  BY <1>1 DEF Parked
<1>5. \A e \in Executors : \A a \in Threads : Sending(a, e)' <=> Sending(a, e)
  BY <1>1 DEF Sending
<1>6. ASSUME NEW e \in Executors
      PROVE  ExecutorTokens!2!(e)'
  <2>1. CASE e = x
    BY <1>1, <1>2, <1>3, <1>4, <1>5, <2>1
  <2>2. CASE e # x
    BY <1>1, <1>4, <1>5, <2>2 DEF ExecutorTokens, Threads
  <2>3. QED
    BY <2>1, <2>2
<1>7. QED
  BY <1>1, <1>6 DEF ExecutorTokens

\* A working executor has neither a place in the queue, nor a sender, nor a task.
LEMMA WorkingTokens ==
  ASSUME ExecutorTokens, NEW x \in Executors, pc[x] # "recv"
  PROVE  ~Parked(x) /\ ready_queue[x] = <<>> /\ \A a \in Threads : ~Sending(a, x)
BY DEF ExecutorTokens

\* The executor puts its token into its own channel.
LEMMA SendSelfTokens ==
  ASSUME TMTypeOK, ExecutorTokens, NEW x \in Executors, SendSelf(x)
  PROVE  ExecutorTokens'
<1>1. /\ ready_queue[x] \in Seq(Tasks) /\ task[x] \in Tasks
      /\ pc[x] = "resend" /\ pc'[x] = "recv"
      /\ \A a \in Threads \ {x} : pc'[a] = pc[a]
      /\ UNCHANGED <<waiting_executors, target>>
      /\ \A e \in Executors : e # x => ready_queue'[e] = ready_queue[e]
      /\ ready_queue'[x] = Append(ready_queue[x], task[x])
  BY DEF SendSelf, Goto, TMTypeOK, Threads
<1>2. ~Parked(x) /\ ready_queue[x] = <<>> /\ \A a \in Threads : ~Sending(a, x)
  BY <1>1, WorkingTokens
<1>3. ready_queue'[x] # <<>> /\ Len(ready_queue'[x]) <= 1
  <2>1. Len(ready_queue[x]) = 0
    BY <1>2
  <2>2. QED
    BY <1>1, <2>1, AppendProperties
<1>4. \A e \in Executors : Parked(e)' <=> Parked(e)
  BY <1>1 DEF Parked
<1>5. \A e \in Executors : \A a \in Threads : Sending(a, e)' <=> Sending(a, e)
  BY <1>1 DEF Sending
<1>6. ASSUME NEW e \in Executors
      PROVE  ExecutorTokens!2!(e)'
  <2>1. CASE e = x
    BY <1>1, <1>2, <1>3, <1>4, <1>5, <2>1
  <2>2. CASE e # x
    BY <1>1, <1>4, <1>5, <2>2 DEF ExecutorTokens, Threads
  <2>3. QED
    BY <2>1, <2>2
<1>7. QED
  BY <1>1, <1>6 DEF ExecutorTokens

\* The executor puts its token into waiting_executors.
LEMMA ParkTokens ==
  ASSUME TMTypeOK, ExecutorTokens, NEW x \in Executors, Park(x)
  PROVE  ExecutorTokens'
<1> DEFINE we == waiting_executors
<1>1. /\ we \in Seq(Executors) /\ waiting_executors' = Append(we, x)
      /\ pc[x] = "park" /\ pc'[x] = "recv"
      /\ \A a \in Threads \ {x} : pc'[a] = pc[a]
      /\ UNCHANGED <<ready_queue, target>>
  BY DEF Park, Goto, TMTypeOK, Threads
<1>2. ~Parked(x) /\ ready_queue[x] = <<>> /\ \A a \in Threads : ~Sending(a, x)
  BY <1>1, WorkingTokens
<1>3. /\ Len(we) \in Nat /\ Len(Append(we, x)) = Len(we) + 1
      /\ \A i \in 1 .. Len(we) : Append(we, x)[i] = we[i]
      /\ Append(we, x)[Len(we) + 1] = x
  BY <1>1, AppendProperties
<1>4. \A i, j \in 1 .. Len(waiting_executors') :
        waiting_executors'[i] = waiting_executors'[j] => i = j
  <2>1. \A i \in 1 .. Len(we) : we[i] # x
    BY <1>2 DEF Parked
  <2>2. \A i \in 1 .. Len(we) + 1 : i \in 1 .. Len(we) \/ i = Len(we) + 1
    BY <1>3
  <2>3. \A i, j \in 1 .. Len(we) : we[i] = we[j] => i = j
    BY DEF ExecutorTokens
  <2>4. QED
    BY <1>1, <1>3, <2>1, <2>2, <2>3
<1>5. \A e \in Executors : Parked(e)' <=> Parked(e) \/ e = x
  <2>1. ASSUME NEW e \in Executors, Parked(e)', e # x PROVE Parked(e)
    <3>1. PICK i \in 1 .. Len(we) + 1 : Append(we, x)[i] = e
      BY <1>1, <1>3, <2>1 DEF Parked
    <3>2. i \in 1 .. Len(we)
      BY <1>3, <2>1, <3>1
    <3>3. QED
      BY <1>3, <3>1, <3>2 DEF Parked
  <2>2. ASSUME NEW e \in Executors, Parked(e) PROVE Parked(e)'
    <3>1. PICK i \in 1 .. Len(we) : we[i] = e
      BY <2>2 DEF Parked
    <3>2. i \in 1 .. Len(Append(we, x)) /\ Append(we, x)[i] = e
      BY <1>3, <3>1
    <3>3. QED
      BY <1>1, <3>2 DEF Parked
  <2>3. ASSUME NEW e \in Executors, e = x PROVE Parked(e)'
    <3>1. Len(we) + 1 \in 1 .. Len(Append(we, x))
      BY <1>3
    <3>2. QED
      BY <1>1, <1>3, <2>3, <3>1 DEF Parked
  <2>4. QED
    BY <2>1, <2>2, <2>3
<1>6. \A e \in Executors : \A a \in Threads : Sending(a, e)' <=> Sending(a, e)
  BY <1>1 DEF Sending
<1>7. ASSUME NEW e \in Executors
      PROVE  ExecutorTokens!2!(e)'
  <2>1. CASE e = x
    BY <1>1, <1>2, <1>5, <1>6, <2>1 DEF ExecutorTokens
  <2>2. CASE e # x
    BY <1>1, <1>5, <1>6, <2>2 DEF ExecutorTokens, Threads
  <2>3. QED
    BY <2>1, <2>2
<1>8. QED
  BY <1>4, <1>7 DEF ExecutorTokens

\* Every step keeps each executor at exactly one place.
LEMMA TokensStep ==
  ASSUME TMTypeOK, ExecutorTokens, [TMNext]_tmvars
  PROVE  ExecutorTokens'
<1>1. ASSUME NEW th \in Threads,
             (\E t \in Tasks : Register(th, t)) \/ RegisterStep(th)
      PROVE  ExecutorTokens'
  <2>1. CASE PopExecutor(th)
    BY <2>1, PopExecutorTokens
  <2>2. CASE SendTask(th)
    BY <2>2, SendTaskTokens
  <2>3. CASE ~PopExecutor(th) /\ ~SendTask(th)
    BY <1>1, <2>3, QuietStepsUnmoved, UnmovedTokens, Zenon DEF RegisterStep
  <2>4. QED
    BY <2>1, <2>2, <2>3
<1>2. ASSUME NEW e \in Executors, Recv(e) \/ RunEnd(e) \/ Die(e) \/ ExecutorReadyStep(e)
      PROVE  ExecutorTokens'
  <2>1. CASE Recv(e)
    BY <2>1, RecvTokens
  <2>2. CASE SendSelf(e)
    BY <2>2, SendSelfTokens
  <2>3. CASE Park(e)
    BY <2>3, ParkTokens
  <2>4. CASE ~Recv(e) /\ ~SendSelf(e) /\ ~Park(e)
    BY <1>2, <2>4, QuietStepsUnmoved, UnmovedTokens, Zenon DEF ExecutorReadyStep
  <2>5. QED
    BY <2>1, <2>2, <2>3, <2>4
<1>3. ASSUME NEW t \in Tasks, Abort(t) PROVE ExecutorTokens'
  BY <1>3, QuietStepsUnmoved, UnmovedTokens
<1>4. CASE UNCHANGED tmvars
  BY <1>4, UnmovedTokens DEF tmvars, TokensUnmoved
<1>5. QED
  BY <1>1, <1>2, <1>3, <1>4 DEF TMNext

\* No executor is lost or handed two tasks, in every interleaving of executor_ready
\* and register_or_execute_non_blocking_task.
THEOREM TMTokens == TMSpec => []ExecutorTokens
<1>1. TMTypeOK /\ ExecutorTokens /\ [TMNext]_tmvars => ExecutorTokens'
  BY TokensStep
<1>2. QED
  BY <1>1, TMInitTokens, TMTypes, PTL DEF TMSpec

-----------------------------------------------------------------------------
(* Sends and parks never block or fail. *)

\* waiting_executors has a place for every executor that is not in it.
LEMMA RoomToPark ==
  ASSUME TMTypeOK, ExecutorTokens, NEW x \in Executors, pc[x] # "recv"
  PROVE  Len(waiting_executors) < ExecutorBound
<1> DEFINE n == Len(RegisterOrder)
           m == Len(waiting_executors)
           S == Executors \ {x}
<1>1. /\ n \in Nat /\ RegisterOrder \in [1 .. n -> Executors]
      /\ \A e \in Executors : \E i \in 1 .. n : RegisterOrder[i] = e
      /\ n <= ExecutorBound /\ ExecutorBound \in Nat
  BY TaskManagerAssumption, LenProperties
<1>2. RegisterOrder \in Surjection(1 .. n, Executors)
  BY <1>1 DEF Surjection
<1>3. IsFiniteSet(1 .. n) /\ Cardinality(1 .. n) = n
  <2> HIDE DEF n
  <2>1. n \in Int /\ 1 \in Int
    BY <1>1
  <2>2. IsFiniteSet(1 .. n) /\ Cardinality(1 .. n) = IF 1 > n THEN 0 ELSE n - 1 + 1
    BY <2>1, FS_Interval
  <2>3. QED
    BY <1>1, <2>2
<1>4. IsFiniteSet(Executors) /\ Cardinality(Executors) <= n
  BY <1>2, <1>3, FS_Surjection
<1>5. /\ IsFiniteSet(S) /\ Cardinality(S) = Cardinality(Executors) - 1
      /\ Cardinality(Executors) \in Nat
  BY <1>4, FS_RemoveElement, FS_CardinalityType
<1>6. m \in Nat /\ waiting_executors \in [1 .. m -> Executors]
  BY LenProperties DEF TMTypeOK
<1>7. waiting_executors \in Injection(1 .. m, S)
  <2>1. \A i \in 1 .. m : waiting_executors[i] # x
    BY WorkingTokens DEF Parked
  <2>2. \A i, j \in 1 .. m : waiting_executors[i] = waiting_executors[j] => i = j
    BY DEF ExecutorTokens
  <2>3. QED
    BY <1>6, <2>1, <2>2 DEF Injection, IsInjective
<1>8. Cardinality(1 .. m) = m
  BY <1>6, FS_Interval
<1>9. m <= Cardinality(S)
  <2>1. Cardinality(1 .. m) <= Cardinality(S)
    BY <1>5, <1>7, FS_Injection
  <2>2. QED
    BY <1>8, <2>1
<1>10. QED
  BY <1>1, <1>4, <1>5, <1>6, <1>9

\* The sends and the park of the task manager never block and their unwraps never
\* panic, whatever the number of executors and waking threads.
THEOREM TMSendsSucceed == TMSpec => []SendsSucceed
<1>1. ASSUME TMTypeOK, ExecutorTokens PROVE SendsSucceed
  <2>1. Len(<<>>) < MaxQueuedTasks
    BY Bounds
  <2>2. ASSUME NEW th \in Threads, pc[th] = "send"
        PROVE  Len(ready_queue[target[th]]) < MaxQueuedTasks /\ pc[target[th]] # "dead"
    <3>1. target[th] \in Executors /\ Sending(th, target[th])
      BY <1>1, <2>2 DEF TMTypeOK, Sending
    <3>2. ready_queue[target[th]] = <<>> /\ pc[target[th]] = "recv"
      BY <1>1, <2>2, <3>1 DEF ExecutorTokens
    <3>3. QED
      BY <2>1, <3>2
  <2>3. ASSUME NEW e \in Executors, pc[e] = "resend"
        PROVE  Len(ready_queue[e]) < MaxQueuedTasks
    BY <1>1, <2>1, <2>3, WorkingTokens
  <2>4. ASSUME NEW e \in Executors, pc[e] = "park"
        PROVE  Len(waiting_executors) < ExecutorBound
    BY <1>1, <2>4, RoomToPark
  <2>5. QED
    BY <2>2, <2>3, <2>4 DEF SendsSucceed
<1>2. QED
  BY <1>1, TMTypes, TMTokens, PTL

-----------------------------------------------------------------------------
(* Abort is final. *)

\* A step after which an aborted task is committed starts with it committed.
LEMMA AbortStep ==
  ASSUME TMTypeOK, NEW t \in Tasks, abort[t], ~Committed(t), [TMNext]_tmvars
  PROVE  ~Committed(t)'
<1> USE DEF Goto, Home
<1>1. /\ \A a \in Threads : pc[a] \in {"pop", "send"} => task[a] # t
      /\ \A e \in Executors : pc[e] = "resend" => task[e] # t
      /\ \A e \in Executors : \A i \in 1 .. Len(ready_queue[e]) : ready_queue[e][i] # t
      /\ \A e \in Executors :
           pc[e] \in {"run", "check", "pop", "send", "push"} => running[e] # t
  BY DEF Committed, RegisterPC
<1>2. SUFFICES
      /\ \A a \in Threads : pc'[a] \in {"pop", "send"} => task'[a] # t
      /\ \A e \in Executors : pc'[e] = "resend" => task'[e] # t
      /\ \A e \in Executors : \A i \in 1 .. Len(ready_queue'[e]) : ready_queue'[e][i] # t
      /\ \A e \in Executors :
           pc'[e] \in {"run", "check", "pop", "send", "push"} => running'[e] # t
  BY DEF Committed, RegisterPC
\* A step that neither receives nor sends: only pc and task of one thread change.
<1>3. ASSUME UNCHANGED <<ready_queue, running>>, NEW th \in Threads,
             NEW l, pc' = [pc EXCEPT ![th] = l],
             \A a \in Threads \ {th} : task'[a] = task[a],
             l \in {"pop", "send", "resend"} => task'[th] # t,
             th \in Executors /\ l \in {"run", "check", "pop", "send", "push"}
               => pc[th] \in {"run", "check", "pop", "send", "push"}
      PROVE  <1>2!1
  BY <1>1, <1>3 DEF TMTypeOK, Threads
<1>4. ASSUME NEW th \in Threads, NEW u \in Tasks, Register(th, u) PROVE <1>2!1
  BY <1>3, <1>4 DEF Register, TMTypeOK
<1>5. ASSUME NEW th \in Threads, RegisterStep(th) PROVE <1>2!1
  <2>1. CASE RegisterAborted(th)
    BY <1>3, <2>1 DEF RegisterAborted, TMTypeOK
  <2>2. CASE RegisterLive(th)
    BY <1>3, <2>2 DEF RegisterLive, TMTypeOK
  <2>3. CASE PopExecutor(th)
    BY <1>1, <1>3, <2>3 DEF PopExecutor, TMTypeOK
  <2>4. CASE PopNoExecutor(th)
    BY <1>3, <2>4 DEF PopNoExecutor, TMTypeOK
  <2>5. CASE SendTask(th)
    <3>1. /\ pc[th] = "send" /\ task[th] # t /\ task[th] \in Tasks
          /\ target[th] \in Executors /\ ready_queue[target[th]] \in Seq(Tasks)
      BY <1>1, <2>5 DEF SendTask, TMTypeOK
    <3>2. \A e \in Executors : \A i \in 1 .. Len(ready_queue'[e]) : ready_queue'[e][i] # t
      <4> SUFFICES ASSUME NEW e \in Executors, NEW i \in 1 .. Len(ready_queue'[e])
                   PROVE  ready_queue'[e][i] # t
        OBVIOUS
      <4>1. CASE e # target[th]
        BY <1>1, <2>5, <4>1 DEF SendTask, TMTypeOK
      <4>2. CASE e = target[th]
        <5>1. ready_queue'[e] = Append(ready_queue[e], task[th])
          BY <2>5, <4>2 DEF SendTask, TMTypeOK
        <5>2. i \in 1 .. Len(ready_queue[e]) + 1
          BY <3>1, <4>2, <5>1, AppendProperties
        <5>3. CASE i = Len(ready_queue[e]) + 1
          BY <3>1, <4>2, <5>1, <5>3, AppendProperties
        <5>4. CASE i # Len(ready_queue[e]) + 1
          <6>1. Len(ready_queue[e]) \in Nat
            BY <3>1, <4>2
          <6>2. i \in 1 .. Len(ready_queue[e])
            BY <5>2, <5>4, <6>1
          <6>3. QED
            BY <1>1, <3>1, <4>2, <5>1, <6>2, AppendProperties
        <5>5. QED
          BY <5>3, <5>4
      <4>3. QED
        BY <4>1, <4>2
    <3>3. /\ UNCHANGED <<task, running>>
          /\ pc' = [pc EXCEPT ![th] = Home(th)]
      BY <2>5 DEF SendTask
    <3>4. QED
      BY <1>1, <3>1, <3>2, <3>3 DEF TMTypeOK, Threads
  <2>6. CASE PushTask(th)
    BY <1>3, <2>6 DEF PushTask, TMTypeOK
  <2>7. CASE PushTaskFull(th)
    BY <1>3, <2>7 DEF PushTaskFull, TMTypeOK
  <2>8. QED
    BY <1>5, <2>1, <2>2, <2>3, <2>4, <2>5, <2>6, <2>7 DEF RegisterStep
<1>6. ASSUME NEW e \in Executors, Recv(e) PROVE <1>2!1
  <2>1. /\ ready_queue[e] \in Seq(Tasks) /\ ready_queue[e] # <<>>
        /\ pc' = [pc EXCEPT ![e] = "run"] /\ UNCHANGED task
        /\ running' = [running EXCEPT ![e] = Head(ready_queue[e])]
        /\ ready_queue' = [ready_queue EXCEPT ![e] = Tail(ready_queue[e])]
    BY <1>6 DEF Recv, TMTypeOK
  <2>2. Len(ready_queue[e]) \in Nat \ {0} /\ Head(ready_queue[e]) = ready_queue[e][1]
    BY <2>1, EmptySeq
  <2>3. Head(ready_queue[e]) # t
    BY <1>1, <2>2
  <2>4. \A d \in Executors : \A i \in 1 .. Len(ready_queue'[d]) : ready_queue'[d][i] # t
    <3> SUFFICES ASSUME NEW d \in Executors, NEW i \in 1 .. Len(ready_queue'[d])
                 PROVE  ready_queue'[d][i] # t
      OBVIOUS
    <3>1. CASE d # e
      BY <1>1, <2>1, <3>1 DEF TMTypeOK
    <3>2. CASE d = e
      <4>1. ready_queue'[d] = Tail(ready_queue[e])
        BY <2>1, <3>2 DEF TMTypeOK
      <4>2. /\ Len(Tail(ready_queue[e])) = Len(ready_queue[e]) - 1
            /\ \A j \in 1 .. Len(Tail(ready_queue[e])) :
                 Tail(ready_queue[e])[j] = ready_queue[e][j + 1]
        BY <2>1, HeadTailProperties
      <4>3. i + 1 \in 1 .. Len(ready_queue[e])
        BY <2>2, <4>1, <4>2
      <4>4. QED
        BY <1>1, <4>1, <4>2, <4>3
    <3>3. QED
      BY <3>1, <3>2
  <2>5. QED
    BY <1>1, <2>1, <2>3, <2>4 DEF TMTypeOK, Threads
<1>7. ASSUME NEW e \in Executors, RunEnd(e) \/ Die(e) PROVE <1>2!1
  <2>1. CASE RunEnd(e)  BY <1>3, <2>1 DEF RunEnd, TMTypeOK, Threads
  <2>2. CASE Die(e)     BY <1>3, <2>2 DEF Die, TMTypeOK, Threads
  <2>3. QED             BY <1>7, <2>1, <2>2
<1>8. ASSUME NEW e \in Executors, ExecutorReadyStep(e) PROVE <1>2!1
  <2>1. CASE ReadyPop(e)
    BY <1>3, <2>1 DEF ReadyPop, TMTypeOK, Threads
  <2>2. CASE ReadyNone(e)
    BY <1>3, <2>2 DEF ReadyNone, TMTypeOK, Threads
  <2>3. CASE SkipAborted(e)
    BY <1>3, <2>3 DEF SkipAborted, TMTypeOK, Threads
  <2>4. CASE KeepTask(e)
    BY <1>3, <2>4 DEF KeepTask, TMTypeOK, Threads
  <2>5. CASE SendSelf(e)
    <3>1. /\ pc[e] = "resend" /\ task[e] # t /\ task[e] \in Tasks
          /\ ready_queue[e] \in Seq(Tasks)
          /\ pc' = [pc EXCEPT ![e] = "recv"] /\ UNCHANGED <<task, running>>
          /\ ready_queue' = [ready_queue EXCEPT ![e] = Append(ready_queue[e], task[e])]
      BY <1>1, <2>5 DEF SendSelf, TMTypeOK, Threads
    <3>2. \A d \in Executors : \A i \in 1 .. Len(ready_queue'[d]) : ready_queue'[d][i] # t
      <4> SUFFICES ASSUME NEW d \in Executors, NEW i \in 1 .. Len(ready_queue'[d])
                   PROVE  ready_queue'[d][i] # t
        OBVIOUS
      <4>1. CASE d # e
        BY <1>1, <3>1, <4>1 DEF TMTypeOK
      <4>2. CASE d = e
        <5>1. ready_queue'[d] = Append(ready_queue[e], task[e])
          BY <3>1, <4>2 DEF TMTypeOK
        <5>2. i \in 1 .. Len(ready_queue[e]) + 1 /\ Len(ready_queue[e]) \in Nat
          BY <3>1, <5>1, AppendProperties
        <5>3. CASE i = Len(ready_queue[e]) + 1
          BY <3>1, <5>1, <5>3, AppendProperties
        <5>4. CASE i # Len(ready_queue[e]) + 1
          <6>1. i \in 1 .. Len(ready_queue[e])
            BY <5>2, <5>4
          <6>2. QED
            BY <1>1, <3>1, <5>1, <6>1, AppendProperties
        <5>5. QED
          BY <5>3, <5>4
      <4>3. QED
        BY <4>1, <4>2
    <3>3. QED
      BY <1>1, <3>1, <3>2 DEF TMTypeOK, Threads
  <2>6. CASE Park(e)
    BY <1>3, <2>6 DEF Park, TMTypeOK, Threads
  <2>7. QED
    BY <1>8, <2>1, <2>2, <2>3, <2>4, <2>5, <2>6 DEF ExecutorReadyStep
<1>9. ASSUME NEW u \in Tasks, Abort(u) PROVE <1>2!1
  BY <1>1, <1>9 DEF Abort
<1>10. CASE UNCHANGED tmvars
  BY <1>1, <1>10 DEF tmvars
<1>11. QED
  BY <1>4, <1>5, <1>6, <1>7, <1>8, <1>9, <1>10 DEF TMNext

\* Once a task is aborted and no instance of it is past its last has_aborted check,
\* it never runs again, whatever wakes it.
THEOREM TMAbortIsFinal == TMSpec => AbortIsFinal
<1>1. TMTypeOK /\ [TMNext]_tmvars
        => [\A t \in Tasks : abort[t] /\ ~Committed(t) => ~Committed(t)']_tmvars
  BY AbortStep
<1>2. QED
  BY <1>1, TMTypes, PTL DEF TMSpec, AbortIsFinal

-----------------------------------------------------------------------------
(* A queued task loses its last looking executor only from outside, or to a death. *)

\* An executor looks unless it is parked, about to park, or gone.
LEMMA LooksForm ==
  ASSUME ExecutorTokens
  PROVE  \A e \in Executors : Looks(e) <=> pc[e] \notin {"park", "dead"} /\ ~Parked(e)
BY DEF Looks, ExecutorTokens

\* The same of the state after a step.
LEMMA LooksFormNext ==
  ASSUME ExecutorTokens'
  PROVE  \A e \in Executors : Looks(e)' <=> pc'[e] \notin {"park", "dead"} /\ ~Parked(e)'
BY DEF Looks, ExecutorTokens

\* A step of an executor that does not die.
LEMMA AttendedExecutorStep ==
  ASSUME TMTypeOK, ExecutorTokens, Attended, ExecutorTokens', NEW x \in Executors,
         \/ \E t \in Tasks : Register(x, t)
         \/ RegisterStep(x) \/ Recv(x) \/ RunEnd(x) \/ ExecutorReadyStep(x)
  PROVE  Attended'
<1>1. \A a \in Threads \ {x} : pc'[a] = pc[a]
  <2>1. \E l : pc' = [pc EXCEPT ![x] = l]
    BY DEF Register, Goto, RegisterStep, RegisterAborted, RegisterLive, PopExecutor,
       PopNoExecutor, SendTask, PushTask, PushTaskFull, Recv, RunEnd,
       ExecutorReadyStep, ReadyPop, ReadyNone, SkipAborted, KeepTask, SendSelf, Park
  <2>2. QED
    BY <2>1, Bounds DEF TMTypeOK, Threads
<1>2. SUFFICES ASSUME waiting_tasks' # <<>> PROVE \E e \in Executors : Looks(e)'
  BY DEF Attended
<1>3. CASE Park(x)
  <2>1. waiting_tasks' = waiting_tasks /\ pc[x] = "park"
    BY <1>3 DEF Park, Goto
  <2>2. PICK w \in Executors : ~Parked(w) /\ pc[w] \notin {"park", "dead"}
    BY <1>2, <2>1, LooksForm DEF Attended
  <2>3. w # x /\ pc'[w] = pc[w]
    BY <1>1, <2>1, <2>2 DEF Threads
  <2>4. ~Parked(w)'
    <3>1. /\ waiting_executors \in Seq(Executors)
          /\ waiting_executors' = Append(waiting_executors, x)
      BY <1>3 DEF Park, TMTypeOK
    <3>2. \A i \in 1 .. Len(waiting_executors) : waiting_executors[i] # w
      BY <2>2 DEF Parked
    <3>3. ASSUME NEW i \in 1 .. Len(Append(waiting_executors, x))
          PROVE  Append(waiting_executors, x)[i] # w
      <4>1. /\ Len(waiting_executors) \in Nat
            /\ i \in 1 .. Len(waiting_executors) + 1
        BY <3>1, AppendProperties
      <4>2. CASE i = Len(waiting_executors) + 1
        BY <2>3, <3>1, <4>2, AppendProperties
      <4>3. CASE i # Len(waiting_executors) + 1
        <5>1. i \in 1 .. Len(waiting_executors)
          BY <4>1, <4>3
        <5>2. QED
          BY <3>1, <3>2, <5>1, AppendProperties
      <4>4. QED
        BY <4>2, <4>3
    <3>4. QED
      BY <3>1, <3>3 DEF Parked
  <2>5. QED
    BY <2>2, <2>3, <2>4, LooksFormNext
<1>4. CASE ReadyNone(x)
  BY <1>2, <1>4 DEF ReadyNone
<1>5. CASE SendSelf(x)
  <2>1. pc'[x] = "recv" /\ ready_queue'[x] # <<>>
    <3>1. ready_queue[x] \in Seq(Tasks) /\ task[x] \in Tasks
      BY DEF TMTypeOK, Threads
    <3>2. ready_queue'[x] = Append(ready_queue[x], task[x]) /\ pc'[x] = "recv"
      BY <1>5 DEF SendSelf, Goto, TMTypeOK, Threads
    <3>3. QED
      BY <3>1, <3>2, AppendProperties
  <2>2. ~Parked(x)'
    BY <2>1 DEF ExecutorTokens
  <2>3. QED
    BY <2>1, <2>2, LooksFormNext
<1>6. CASE ~Park(x) /\ ~ReadyNone(x) /\ ~SendSelf(x)
  <2>1. pc'[x] \notin {"recv", "park", "dead"}
    BY <1>6 DEF Register, Goto, Home, RegisterStep, RegisterAborted, RegisterLive,
       PopExecutor, PopNoExecutor, SendTask, PushTask, PushTaskFull, Recv, RunEnd,
       ExecutorReadyStep, ReadyPop, SkipAborted, KeepTask, TMTypeOK, Threads
  <2>2. ~Parked(x)'
    BY <2>1 DEF ExecutorTokens
  <2>3. QED
    BY <2>1, <2>2, LooksFormNext
<1>7. QED
  BY <1>3, <1>4, <1>5, <1>6

\* A step of a thread outside the executors that queues no task: it parks no executor.
LEMMA AttendedClientStep ==
  ASSUME TMTypeOK, ExecutorTokens, Attended, ExecutorTokens', NEW c \in Clients,
         (\E t \in Tasks : Register(c, t)) \/ (RegisterStep(c) /\ ~PushTask(c))
  PROVE  Attended'
<1> USE DEF Goto, Home
<1>1. \A e \in Executors : pc'[e] = pc[e]
  <2>1. \E l : pc' = [pc EXCEPT ![c] = l]
    BY DEF Register, RegisterStep, RegisterAborted, RegisterLive, PopExecutor,
       PopNoExecutor, SendTask, PushTask, PushTaskFull
  <2>2. QED
    BY <2>1, Bounds DEF TMTypeOK, Threads
<1>2. waiting_tasks' = waiting_tasks
  BY DEF Register, RegisterStep, RegisterAborted, RegisterLive, PopExecutor,
     PopNoExecutor, SendTask, PushTaskFull
<1>3. \A e \in Executors : Parked(e)' => Parked(e)
  <2>1. CASE waiting_executors' = waiting_executors
    BY <2>1 DEF Parked
  <2>2. CASE PopExecutor(c)
    <3>1. /\ waiting_executors \in Seq(Executors) /\ waiting_executors # <<>>
          /\ waiting_executors' = Tail(waiting_executors)
      BY <2>2 DEF PopExecutor, TMTypeOK
    <3>2. ASSUME NEW e \in Executors, NEW i \in 1 .. Len(Tail(waiting_executors)),
                 Tail(waiting_executors)[i] = e
          PROVE  Parked(e)
      <4>1. /\ Len(waiting_executors) \in Nat /\ Len(Tail(waiting_executors)) = Len(waiting_executors) - 1
            /\ i + 1 \in 1 .. Len(waiting_executors) /\ waiting_executors[i + 1] = e
        BY <3>1, <3>2
      <4>2. QED
        BY <4>1 DEF Parked
    <3>3. QED
      BY <3>1, <3>2 DEF Parked
  <2>3. QED
    BY <2>1, <2>2 DEF Register, RegisterStep, RegisterAborted, RegisterLive,
       PopNoExecutor, SendTask, PushTaskFull
<1>4. QED
  BY <1>1, <1>2, <1>3, LooksForm, LooksFormNext DEF Attended

\* While a task waits some executor has yet to look at waiting_tasks, and it parks only when
\* it found none: the last looking executor is lost only to a registration of a thread
\* outside the executors or to a death (task/manager.rs:84-110).
THEOREM TMStrandedOnlyFromOutside == TMSpec => StrandedOnlyFromOutside
<1>1. ASSUME TMTypeOK, ExecutorTokens, ExecutorTokens', [TMNext]_tmvars, Attended,
             ~(\E c \in Clients : PushTask(c)), ~(\E e \in Executors : Die(e))
      PROVE  Attended'
  <2>1. CASE UNCHANGED tmvars \/ \E t \in Tasks : Abort(t)
    <3>1. UNCHANGED <<waiting_tasks, waiting_executors, pc>>
      BY <2>1 DEF tmvars, Abort
    <3>2. \A e \in Executors : Parked(e)' <=> Parked(e)
      BY <3>1 DEF Parked
    <3>3. \A e \in Executors : Looks(e) <=> Looks(e)'
      BY <3>1, <3>2 DEF Looks
    <3>4. QED
      BY <1>1, <3>1, <3>3 DEF Attended
  <2>2. ASSUME NEW c \in Clients, (\E t \in Tasks : Register(c, t)) \/ RegisterStep(c)
        PROVE  Attended'
    BY <1>1, <2>2, AttendedClientStep
  <2>3. ASSUME NEW x \in Executors,
               \/ \E t \in Tasks : Register(x, t)
               \/ RegisterStep(x) \/ Recv(x) \/ RunEnd(x) \/ Die(x) \/ ExecutorReadyStep(x)
        PROVE  Attended'
    BY <1>1, <2>3, AttendedExecutorStep
  <2>4. QED
    BY <1>1, <2>1, <2>2, <2>3, Zenon DEF TMNext, Threads
<1>2. TMTypeOK /\ ExecutorTokens /\ ExecutorTokens' /\ [TMNext]_tmvars
        => [Attended => \/ Attended'
                        \/ \E c \in Clients : PushTask(c)
                        \/ \E e \in Executors : Die(e)]_tmvars
  BY <1>1
<1>3. QED
  BY <1>2, TMTypes, TMTokens, PTL DEF TMSpec, StrandedOnlyFromOutside

=============================================================================
