--------------------------- MODULE ReadinessProofs ---------------------------
(***************************************************************************)
(* Readiness for every set of tasks, sockets and timers: the type          *)
(* invariant, that no sleep or timeout ends before its timer has fired,    *)
(* and that no readiness is lost.                                          *)
(***************************************************************************)
EXTENDS Readiness, TLAPS

\* Every action keeps the types; the count of a socket is decremented only when
\* something waits there.
LEMMA RdTypeStep == RdTypeOK /\ [RdNext]_rdvars => RdTypeOK'
<1> SUFFICES ASSUME RdTypeOK, [RdNext]_rdvars PROVE RdTypeOK'
  OBVIOUS
<1> USE ReadinessAssumption DEF RdTypeOK, Goto, Timers, IoTasks
<1>1. ASSUME NEW t \in Timers, SleepStep(t) PROVE RdTypeOK'
  <2>1. CASE SleepStore(t) BY <2>1 DEF SleepStore, StatusStore, sockvars
  <2>2. CASE SleepArm(t) BY <2>2 DEF SleepArm, AfterSleep, sockvars, reactorvars
  <2>3. CASE SleepReady(t) BY <2>3 DEF SleepReady, Finish, DropTimer, TimerSet, sockvars
  <2>4. CASE SleepPending(t) BY <2>4 DEF SleepPending, AfterSleep, sockvars, reactorvars
  <2> QED BY <1>1, <2>1, <2>2, <2>3, <2>4 DEF SleepStep
<1>2. ASSUME NEW t \in Timers, Expire(t) PROVE RdTypeOK'
  BY <1>2 DEF Expire, Edge, sockvars
<1>3. ASSUME NEW t \in IoTasks, NEW d \in {"in", "out"}, CallIo(t, d) PROVE RdTypeOK'
  BY <1>3 DEF CallIo, sockvars, reactorvars
<1>4. ASSUME NEW t \in IoTasks, IoStep(t) PROVE RdTypeOK'
  <2>1. CASE IoOk(t)
    <3>1. SocketOf[t] \in Sockets OBVIOUS
    <3>2. dir[t] = "in" => avail[SocketOf[t]] - 1 \in 0 .. MaxItems
      BY <2>1, <3>1 DEF IoOk, CanDo
    <3> QED BY <2>1, <3>1, <3>2 DEF IoOk, Finish, DropTimer, TimerSet
  <2>2. CASE IoEnd(t) BY <2>2 DEF IoEnd, Finish, DropTimer, TimerSet, sockvars
  <2>3. CASE IoBlock(t) BY <2>3 DEF IoBlock, sockvars, reactorvars
  <2>4. CASE IoAwait(t) BY <2>4 DEF IoAwait, ReactorPollPending, sockvars
  <2>5. CASE IoRetry(t) BY <2>5 DEF IoRetry, ReactorPollReady, sockvars
  <2> QED BY <1>4, <2>1, <2>2, <2>3, <2>4, <2>5 DEF IoStep
<1>5. ASSUME NEW t \in Tasks, CallSleep(t) PROVE RdTypeOK'
  BY <1>5 DEF CallSleep, reactorvars, sockvars
<1>6. ASSUME NEW t \in Tasks, Repoll(t) PROVE RdTypeOK'
  BY <1>6 DEF Repoll, sockvars
<1>7. ASSUME NEW t \in Tasks, PollElsewhere(t) PROVE RdTypeOK'
  BY <1>7 DEF PollElsewhere, taskvars, sockvars
<1>8. ASSUME NEW s \in Sockets, Arrive(s) PROVE RdTypeOK'
  BY <1>8 DEF Arrive, Edge, taskvars
<1>9. ASSUME NEW s \in Sockets, Drain(s) \/ HangUp(s) PROVE RdTypeOK'
  BY <1>9 DEF Drain, HangUp, Edge, taskvars
<1>10. ASSUME NEW s \in Sockets, DropSocket(s) PROVE RdTypeOK'
  BY <1>10 DEF DropSocket, taskvars
<1>11. CASE ReactorStep /\ UNCHANGED <<taskvars, sockvars>>
  BY <1>11 DEF ReactorStep, ReactorPoll, HandleEvent, taskvars, sockvars
<1>12. CASE UNCHANGED rdvars
  BY <1>12 DEF rdvars, reactorvars, taskvars, sockvars
<1> QED
  BY <1>1, <1>2, <1>3, <1>4, <1>5, <1>6, <1>7, <1>8, <1>9, <1>10, <1>11, <1>12 DEF RdNext

\* The initial state is type correct.
LEMMA RdTypeInit == RdInit => RdTypeOK
  BY ReadinessAssumption DEF RdInit, ReactorInit, RdTypeOK, Sockets, Timers, IoTasks

\* The types hold in every behaviour, whatever tasks, sockets and timers there are.
THEOREM RdTypeCorrect == RdSpec => []RdTypeOK
  BY RdTypeInit, RdTypeStep, PTL DEF RdSpec

-----------------------------------------------------------------------------
(* Timers *)

\* A timer's event, on its way or recorded in statuses, means that the timer has fired;
\* only the poll that stores the waker sets the timer.
TimerInv ==
  /\ \A t \in Timers :
       t \in edge \cup batch \/ statuses[t] = "happened" => timer[t] \in {"fired", "spent"}
  /\ \A t \in Timers : tpc[t] = "arm" => timer[t] = "stored"
  /\ NoEarlyEnd

\* The parts of an operation's end that TimerInv speaks of.
LEMMA FinishTimers ==
  ASSUME RdTypeOK, TimerInv, NEW t \in Tasks, NEW from, from # "arm",
         NEW how \in {"ok", "end", "slept", "timeout"}, Finish(t, from, how),
         how \in {"slept", "timeout"} => TimerSet(t) /\ HasTokenProgressed(t),
         UNCHANGED <<statuses, batch>>
  PROVE  TimerInv'
<1> USE ReadinessAssumption DEF RdTypeOK, TimerInv, NoEarlyEnd, Finish, Goto
<1>1. CASE TimerSet(t)
  <2>1. timer' = [timer EXCEPT ![t] = IF @ = "fired" THEN "spent" ELSE "closed"]
    BY <1>1 DEF DropTimer
  <2>2. t \in Timers /\ tpc[t] # "arm" /\ edge' \subseteq edge
    BY <1>1 DEF DropTimer, TimerSet
  <2>3. how \in {"slept", "timeout"} => timer[t] = "fired"
    BY <1>1 DEF TimerSet, HasTokenProgressed
  <2>4. t \in edge \cup batch \/ statuses[t] = "happened" => timer[t] = "fired"
    BY <1>1 DEF TimerSet
  <2>5. t \in edge' \cup batch' \/ statuses'[t] = "happened" => timer'[t] = "spent"
    BY <2>1, <2>2, <2>4
  <2>6. ended'[t] \in {"slept", "timeout"} => timer'[t] = "spent"
    BY <1>1, <2>1, <2>2, <2>3
  <2>7. \A u \in Timers \ {t} : /\ timer'[u] = timer[u] /\ ended'[u] = ended[u]
                                /\ tpc'[u] = tpc[u] /\ statuses'[u] = statuses[u]
    BY <1>1, <2>1
  <2>8. tpc'[t] = "idle"
    OBVIOUS
  <2> QED BY <2>2, <2>5, <2>6, <2>7, <2>8
<1>2. CASE ~TimerSet(t)
  BY <1>2 DEF DropTimer
<1> QED BY <1>1, <1>2

\* The sockets' tokens are not timers, so what happens at a socket leaves TimerInv alone.
LEMMA SocketsAndTimers == Sockets \cap Timers = {}
  BY ReadinessAssumption DEF Timers, IoTasks

\* Every action keeps TimerInv: Expire alone sends a timer's event, and the timer is
\* dropped with its operation.
LEMMA TimerStep == RdTypeOK /\ TimerInv /\ [RdNext]_rdvars => TimerInv'
<1> SUFFICES ASSUME RdTypeOK, TimerInv, [RdNext]_rdvars PROVE TimerInv'
  OBVIOUS
<1> USE ReadinessAssumption, SocketsAndTimers
<1> USE DEF RdTypeOK, TimerInv, NoEarlyEnd, Goto
<1>1. ASSUME NEW t \in Timers, SleepStep(t) PROVE TimerInv'
  <2>0. t \in Tasks BY DEF Timers, IoTasks
  <2>1. CASE SleepStore(t) BY <2>0, <2>1, ReactorAssumption DEF SleepStore, StatusStore
  <2>2. CASE SleepArm(t) BY <2>0, <2>2 DEF SleepArm, AfterSleep, reactorvars
  <2>3. CASE SleepReady(t) BY <2>0, <2>3, FinishTimers DEF SleepReady
  <2>4. CASE SleepPending(t) BY <2>0, <2>4 DEF SleepPending, AfterSleep, reactorvars
  <2> QED BY <1>1, <2>1, <2>2, <2>3, <2>4 DEF SleepStep
<1>2. ASSUME NEW t \in Timers, Expire(t) PROVE TimerInv'
  BY <1>2 DEF Expire, Edge
<1>3. ASSUME NEW t \in IoTasks, NEW d \in {"in", "out"}, CallIo(t, d) PROVE TimerInv'
  BY <1>3 DEF CallIo, reactorvars
<1>4. ASSUME NEW t \in IoTasks, IoStep(t) PROVE TimerInv'
  <2>0. t \in Tasks /\ SocketOf[t] \in Sockets BY DEF IoTasks
  <2>1. CASE IoOk(t) \/ IoEnd(t) BY <2>0, <2>1, FinishTimers DEF IoOk, IoEnd
  <2>2. CASE IoBlock(t) BY <2>0, <2>2 DEF IoBlock, reactorvars
  <2>3. CASE IoAwait(t) BY <2>0, <2>3 DEF IoAwait, ReactorPollPending
  <2>4. CASE IoRetry(t) BY <2>0, <2>4 DEF IoRetry, ReactorPollReady
  <2> QED BY <1>4, <2>1, <2>2, <2>3, <2>4 DEF IoStep
<1>5. ASSUME NEW t \in Tasks, CallSleep(t) \/ Repoll(t) \/ PollElsewhere(t) PROVE TimerInv'
  <2>1. CASE CallSleep(t) BY <2>1 DEF CallSleep, reactorvars
  <2>2. CASE Repoll(t) BY <2>2 DEF Repoll
  <2>3. CASE PollElsewhere(t) BY <2>3 DEF PollElsewhere, taskvars
  <2> QED BY <1>5, <2>1, <2>2, <2>3
<1>6. ASSUME NEW s \in Sockets, Arrive(s) \/ Drain(s) \/ HangUp(s) \/ DropSocket(s)
      PROVE  TimerInv'
  BY <1>6 DEF Arrive, Drain, HangUp, DropSocket, Edge, taskvars
<1>7. CASE ReactorStep /\ UNCHANGED <<taskvars, sockvars>>
  <2>1. CASE ReactorPoll BY <1>7, <2>1 DEF ReactorPoll, taskvars
  <2>2. ASSUME NEW k \in Tokens, HandleEvent(k) PROVE TimerInv'
    BY <1>7, <2>2 DEF HandleEvent, taskvars
  <2> QED BY <1>7, <2>1, <2>2 DEF ReactorStep
<1>8. CASE UNCHANGED rdvars
  BY <1>8 DEF rdvars, reactorvars, taskvars
<1> QED
  BY <1>1, <1>2, <1>3, <1>4, <1>5, <1>6, <1>7, <1>8 DEF RdNext

\* No timer has an event before it is set.
LEMMA TimerInit == RdInit => TimerInv
  BY ReadinessAssumption, SocketsAndTimers
  DEF RdInit, ReactorInit, TimerInv, NoEarlyEnd, Sockets, Timers, IoTasks

\* No sleep and no timeout ends before its own timer has fired, however the events of
\* sockets, of other timers and of finished operations are ordered.
THEOREM TimersCorrect == RdSpec => []NoEarlyEnd
<1>1. TimerInv => NoEarlyEnd
  BY DEF TimerInv
<1> QED
  BY <1>1, RdTypeCorrect, TimerInit, TimerStep, PTL DEF RdSpec

-----------------------------------------------------------------------------
(* Readiness of sockets *)

\* A listener or a UDP socket, whose methods take &self, is used by one task.
OneTaskEach ==
  \A t, u \in IoTasks : SocketOf[t] = SocketOf[u] /\ SocketOf[t] \notin Streams => t = u

\* The tasks that share a socket take turns.
Turns ==
  \A t, u \in IoTasks : SocketOf[t] = SocketOf[u] /\ t # u => tpc[t] = "idle" \/ tpc[u] = "idle"

\* The system call of t has returned WouldBlock and is not tried again yet.
Blocked(t) == tpc[t] \in {"wait", "pending"} \/ (tpc[t] = "sleep" /\ TimerSet(t))

\* What ReadinessTold rests on: a socket that became ready after WouldBlock has its event
\* on the way or in statuses, and a task that sleeps has its waker there or was woken.
Told(t) ==
  /\ Blocked(t) /\ (CanDo(t) \/ CanEnd(t)) =>
       SocketOf[t] \in edge \cup batch \/ statuses[SocketOf[t]] = "happened"
  /\ tpc[t] = "pending" => statuses[SocketOf[t]] = t \/ t \in woken

ToldInv == \A t \in IoTasks : Told(t)

\* Tasks take turns at a stream because read and write borrow it mutably.
LEMMA TurnsStep ==
  ASSUME OneTaskEach, RdTypeOK, Turns, [RdNext]_rdvars PROVE Turns'
<1> USE ReadinessAssumption DEF RdTypeOK, Turns, Goto
<1>1. ASSUME NEW t \in IoTasks, NEW d \in {"in", "out"}, CallIo(t, d) PROVE Turns'
  <2>1. \A u \in IoTasks \ {t} : SocketOf[u] = SocketOf[t] => tpc[u] = "idle"
    BY <1>1 DEF CallIo, TurnOf, OneTaskEach
  <2>2. \A u \in IoTasks \ {t} : tpc'[u] = tpc[u]
    BY <1>1 DEF CallIo, IoTasks
  <2> QED BY <2>1, <2>2
<1>2. ASSUME NEW t \in Tasks, tpc[t] # "idle" \/ t \in Sleepers,
             \A u \in Tasks \ {t} : tpc'[u] = tpc[u]
      PROVE  Turns'
  BY <1>2 DEF IoTasks
<1>3. CASE UNCHANGED tpc
  BY <1>3
<1>4. ASSUME NEW t \in Timers, SleepStep(t) PROVE Turns'
  <2>1. t \in Tasks
    BY DEF Timers, IoTasks
  <2>2. tpc[t] # "idle" /\ \E q : tpc' = [tpc EXCEPT ![t] = q]
    BY <1>4 DEF SleepStep, SleepStore, SleepArm, SleepReady, SleepPending, Finish
  <2>3. \A u \in Tasks \ {t} : tpc'[u] = tpc[u]
    BY <2>2
  <2> QED BY <1>2, <2>1, <2>2, <2>3
<1>5. ASSUME NEW t \in IoTasks, IoStep(t) PROVE Turns'
  BY <1>2, <1>5 DEF IoStep, IoOk, IoEnd, IoBlock, IoAwait, IoRetry, Finish, IoTasks
<1>6. ASSUME NEW t \in Tasks, CallSleep(t) \/ Repoll(t) PROVE Turns'
  BY <1>2, <1>6 DEF CallSleep, Repoll
<1>7. ASSUME NEW t, Expire(t) \/ PollElsewhere(t) PROVE Turns'
  BY <1>3, <1>7 DEF Expire, PollElsewhere, taskvars
<1>8. ASSUME NEW s \in Sockets, Arrive(s) \/ Drain(s) \/ HangUp(s) \/ DropSocket(s)
      PROVE  Turns'
  BY <1>3, <1>8 DEF Arrive, Drain, HangUp, DropSocket, taskvars
<1>9. CASE ReactorStep /\ UNCHANGED <<taskvars, sockvars>>
  BY <1>3, <1>9 DEF taskvars
<1>10. CASE UNCHANGED rdvars
  BY <1>3, <1>10 DEF rdvars, taskvars
<1> QED
  BY <1>1, <1>4, <1>5, <1>6, <1>7, <1>8, <1>9, <1>10 DEF RdNext

\* A step that leaves task u and its socket alone, or adds events, keeps what u was told.
LEMMA ToldFrame ==
  ASSUME NEW u \in IoTasks, Told(u),
         tpc'[u] = tpc[u], dir'[u] = dir[u], TimerSet(u)' <=> TimerSet(u),
         statuses'[SocketOf[u]] = statuses[SocketOf[u]],
         SocketOf[u] \in edge \cup batch => SocketOf[u] \in edge' \cup batch',
         u \in woken => u \in woken',
         avail'[SocketOf[u]] = avail[SocketOf[u]], full'[SocketOf[u]] = full[SocketOf[u]],
         hup'[SocketOf[u]] = hup[SocketOf[u]]
  PROVE  Told(u)'
  BY DEF Told, Blocked, CanDo, CanEnd

\* A task that is not blocked has nothing to be told.
LEMMA ToldFree ==
  ASSUME NEW u \in IoTasks, tpc'[u] \in {"idle", "io", "arm"} PROVE Told(u)'
  BY DEF Told, Blocked

\* A step of task t, in an operation, keeps what the other tasks were told: those that
\* share its socket are idle, the others do not see it.
LEMMA ToldOthers ==
  ASSUME RdTypeOK, Turns, ToldInv, NEW t \in IoTasks, tpc[t] # "idle",
         \A u \in IoTasks \ {t} :
           /\ tpc'[u] = tpc[u] /\ dir'[u] = dir[u] /\ (TimerSet(u)' <=> TimerSet(u))
           /\ u \in woken => u \in woken',
         \A s \in Sockets \ {SocketOf[t]} :
           /\ statuses'[s] = statuses[s] /\ (s \in edge \cup batch => s \in edge' \cup batch')
           /\ avail'[s] = avail[s] /\ full'[s] = full[s] /\ hup'[s] = hup[s],
         NEW u \in IoTasks \ {t}
  PROVE  Told(u)'
<1>1. SocketOf[u] \in Sockets
  BY ReadinessAssumption
<1>2. CASE SocketOf[u] = SocketOf[t]
  BY <1>2, ToldFree DEF Turns
<1>3. CASE SocketOf[u] # SocketOf[t]
  BY <1>1, <1>3, ToldFrame DEF ToldInv
<1> QED BY <1>2, <1>3

\* The step of a timer: Timeout goes on to its future with what it had been told.
LEMMA ToldSleep ==
  ASSUME RdTypeOK, Turns, ToldInv, NEW t \in Timers, SleepStep(t), NEW u \in IoTasks
  PROVE  Told(u)'
<1> USE ReadinessAssumption, SocketsAndTimers DEF RdTypeOK, Goto
<1>1. t \in Tasks /\ u \in Tasks /\ SocketOf[u] \in Sockets
  BY DEF Timers, IoTasks
<1>2. CASE u = t
  <2>1. CASE SleepStore(t) BY <1>1, <1>2, <2>1, ToldFree DEF SleepStore
  <2>2. CASE SleepArm(t) BY <1>1, <1>2, <2>2, ToldFree DEF SleepArm, AfterSleep, IoTasks
  <2>3. CASE SleepReady(t) BY <1>1, <1>2, <2>3, ToldFree DEF SleepReady, Finish
  <2>4. CASE SleepPending(t)
    BY <1>1, <1>2, <2>4 DEF SleepPending, AfterSleep, IoTasks, ToldInv, Told, Blocked, CanDo,
                            CanEnd, reactorvars, sockvars
  <2> QED BY <2>1, <2>2, <2>3, <2>4 DEF SleepStep
<1>3. CASE u # t
  <2>1. /\ tpc'[u] = tpc[u] /\ dir'[u] = dir[u] /\ woken' = woken
        /\ UNCHANGED <<avail, full, hup>>
    BY <1>1, <1>3 DEF SleepStep, SleepStore, SleepArm, SleepReady, SleepPending, Finish,
                      reactorvars, sockvars
  <2>2. TimerSet(u)' <=> TimerSet(u)
    <3>1. \A v \in Timers \ {t} : timer'[v] = timer[v]
      <4>1. CASE SleepStore(t) BY <4>1 DEF SleepStore
      <4>2. CASE SleepArm(t) BY <4>2 DEF SleepArm
      <4>3. CASE SleepReady(t) BY <4>3 DEF SleepReady, Finish, DropTimer
      <4>4. CASE SleepPending(t) BY <4>4 DEF SleepPending
      <4> QED BY <4>1, <4>2, <4>3, <4>4 DEF SleepStep
    <3> QED BY <1>3, <3>1 DEF TimerSet
  <2>3. SocketOf[u] # t
    BY <1>1
  <2>4. /\ statuses'[SocketOf[u]] = statuses[SocketOf[u]]
        /\ SocketOf[u] \in edge \cup batch => SocketOf[u] \in edge' \cup batch'
    <3>1. CASE SleepStore(t) BY <1>1, <2>3, <3>1 DEF SleepStore, StatusStore
    <3>2. CASE SleepArm(t) BY <3>2 DEF SleepArm, reactorvars
    <3>3. CASE SleepReady(t) BY <2>3, <3>3 DEF SleepReady, Finish, DropTimer
    <3>4. CASE SleepPending(t) BY <3>4 DEF SleepPending, reactorvars
    <3> QED BY <3>1, <3>2, <3>3, <3>4 DEF SleepStep
  <2> QED BY <2>1, <2>2, <2>4, ToldFrame DEF ToldInv
<1> QED BY <1>2, <1>3

\* A step of a socket operation: an event between WouldBlock and Reactor::poll is found
\* in statuses, a later one finds the waker there.
LEMMA ToldIo ==
  ASSUME RdTypeOK, Turns, ToldInv, NEW t \in IoTasks, IoStep(t), NEW u \in IoTasks
  PROVE  Told(u)'
<1> USE ReadinessAssumption, SocketsAndTimers DEF RdTypeOK, Goto
<1>1. t \in Tasks /\ SocketOf[t] \in Sockets
  BY DEF IoTasks
<1>2. CASE u = t
  <2>1. CASE IoOk(t) \/ IoEnd(t) \/ IoRetry(t)
    BY <1>1, <1>2, <2>1, ToldFree DEF IoOk, IoEnd, IoRetry, Finish
  <2>2. CASE IoBlock(t)
    BY <1>1, <1>2, <2>2 DEF IoBlock, Told, Blocked, CanDo, CanEnd, sockvars
  <2>3. CASE IoAwait(t)
    BY <1>1, <1>2, <2>3 DEF IoAwait, ReactorPollPending, ToldInv, Told, Blocked, CanDo, CanEnd,
                            sockvars
  <2> QED BY <2>1, <2>2, <2>3 DEF IoStep
<1>3. CASE u # t
  <2>1. /\ tpc[t] # "idle" /\ woken' = woken
        /\ \A v \in Tasks \ {t} : tpc'[v] = tpc[v]
        /\ \A v \in IoTasks \ {t} : dir'[v] = dir[v]
    BY <1>1 DEF IoStep, IoOk, IoEnd, IoBlock, IoAwait, IoRetry, Finish, reactorvars
  <2>2. \A v \in IoTasks \ {t} : TimerSet(v)' <=> TimerSet(v)
    BY DEF IoStep, IoOk, IoEnd, IoBlock, IoAwait, IoRetry, Finish, DropTimer, TimerSet
  <2>3. \A s \in Sockets \ {SocketOf[t]} :
          statuses'[s] = statuses[s] /\ (s \in edge \cup batch => s \in edge' \cup batch')
    BY DEF IoStep, IoOk, IoEnd, IoBlock, IoAwait, IoRetry, Finish, DropTimer, TimerSet,
           ReactorPollPending, ReactorPollReady, reactorvars
  <2>4. \A s \in Sockets \ {SocketOf[t]} :
          avail'[s] = avail[s] /\ full'[s] = full[s] /\ hup'[s] = hup[s]
    BY <1>1 DEF IoStep, IoOk, IoEnd, IoBlock, IoAwait, IoRetry, sockvars
  <2> QED BY <1>1, <1>3, <2>1, <2>2, <2>3, <2>4, ToldOthers DEF IoTasks
<1> QED BY <1>2, <1>3

\* The reactor's thread: a token's event moves from mio to its hands to statuses, and the
\* waker it finds there is woken.
LEMMA ToldReactor ==
  ASSUME RdTypeOK, ToldInv, ReactorStep, UNCHANGED <<taskvars, sockvars>>, NEW u \in IoTasks
  PROVE  Told(u)'
<1> USE DEF RdTypeOK, taskvars, sockvars
<1>1. u \in Tasks /\ SocketOf[u] \in Tokens
  BY ReadinessAssumption DEF IoTasks
<1>2. TimerSet(u)' <=> TimerSet(u)
  BY DEF TimerSet
<1>3. CASE ReactorPoll
  BY <1>2, <1>3, ToldFrame DEF ReactorPoll, ToldInv
<1>4. ASSUME NEW k \in Tokens, HandleEvent(k) PROVE Told(u)'
  <2>1. CASE SocketOf[u] = k
    BY <1>1, <1>4, <2>1 DEF HandleEvent, ToldInv, Told
  <2>2. CASE SocketOf[u] # k
    BY <1>1, <1>2, <1>4, <2>2, ToldFrame DEF HandleEvent, ToldInv
  <2> QED BY <2>1, <2>2
<1> QED BY <1>3, <1>4 DEF ReactorStep

\* Calls and polls of tasks.
LEMMA ToldCalls ==
  ASSUME RdTypeOK, ToldInv, NEW t \in Tasks, NEW u \in IoTasks,
         \/ CallSleep(t) \/ Repoll(t) \/ PollElsewhere(t)
         \/ \E d \in {"in", "out"} : t \in IoTasks /\ CallIo(t, d)
  PROVE  Told(u)'
<1> USE DEF RdTypeOK, Goto, reactorvars, sockvars, taskvars
<1>1. u \in Tasks
  BY DEF IoTasks
<1>2. TimerSet(u)' <=> TimerSet(u)
  BY DEF TimerSet, CallSleep, Repoll, PollElsewhere, CallIo
<1>3. CASE CallSleep(t)
  BY <1>1, <1>2, <1>3, ToldFrame DEF CallSleep, IoTasks, ToldInv
<1>4. CASE Repoll(t)
  BY <1>1, <1>2, <1>4 DEF Repoll, ToldInv, Told, Blocked, CanDo, CanEnd
<1>5. CASE PollElsewhere(t)
  BY <1>1, <1>2, <1>5 DEF PollElsewhere, ToldInv, Told, Blocked, CanDo, CanEnd
<1>6. ASSUME NEW d \in {"in", "out"}, t \in IoTasks, CallIo(t, d) PROVE Told(u)'
  <2>1. CASE u = t
    <3>1. tpc'[u] = "io" \/ (tpc'[u] = "sleep" /\ ~TimerSet(u)')
      BY <1>1, <1>6, <2>1 DEF CallIo, TimerSet
    <3> QED BY <3>1 DEF Told, Blocked
  <2>2. CASE u # t
    BY <1>1, <1>2, <1>6, <2>2, ToldFrame DEF CallIo, ToldInv
  <2> QED BY <2>1, <2>2
<1> QED BY <1>3, <1>4, <1>5, <1>6

\* The kernel's side: what makes a socket ready is an edge, and a socket is dropped only
\* between operations.
LEMMA ToldKernel ==
  ASSUME RdTypeOK, ToldInv, NEW u \in IoTasks,
         \/ \E t \in Timers : Expire(t)
         \/ \E s \in Sockets : Arrive(s) \/ Drain(s) \/ HangUp(s) \/ DropSocket(s)
  PROVE  Told(u)'
<1> USE DEF RdTypeOK, Edge, sockvars, taskvars
<1>1. u \in Tasks /\ SocketOf[u] \in Sockets
  BY ReadinessAssumption DEF IoTasks
<1>2. ASSUME NEW t \in Timers, Expire(t) PROVE Told(u)'
  <2>1. TimerSet(u)' <=> TimerSet(u)
    BY <1>2 DEF Expire, TimerSet
  <2> QED BY <1>2, <2>1, ToldFrame DEF Expire, ToldInv
<1>3. ASSUME NEW s \in Sockets, Arrive(s) \/ Drain(s) \/ HangUp(s) PROVE Told(u)'
  <2>1. TimerSet(u)' <=> TimerSet(u)
    BY <1>3 DEF Arrive, Drain, HangUp, TimerSet
  <2>2. CASE SocketOf[u] = s
    BY <1>3, <2>2 DEF Arrive, Drain, HangUp, ToldInv, Told
  <2>3. CASE SocketOf[u] # s
    BY <1>1, <1>3, <2>1, <2>3, ToldFrame DEF Arrive, Drain, HangUp, ToldInv
  <2> QED BY <2>2, <2>3
<1>4. ASSUME NEW s \in Sockets, DropSocket(s) PROVE Told(u)'
  <2>1. TimerSet(u)' <=> TimerSet(u)
    BY <1>4 DEF DropSocket, TimerSet
  <2>2. CASE SocketOf[u] = s
    BY <1>4, <2>2, ToldFree DEF DropSocket
  <2>3. CASE SocketOf[u] # s
    <3>1. SocketOf[u] \in edge \cup batch => SocketOf[u] \in edge' \cup batch'
      BY <1>4, <2>3 DEF DropSocket
    <3>2. /\ avail'[SocketOf[u]] = avail[SocketOf[u]] /\ full'[SocketOf[u]] = full[SocketOf[u]]
          /\ hup'[SocketOf[u]] = hup[SocketOf[u]]
      BY <1>1, <1>4, <2>3 DEF DropSocket
    <3>3. UNCHANGED <<tpc, dir, statuses, woken>>
      BY <1>4 DEF DropSocket
    <3> QED BY <2>1, <3>1, <3>2, <3>3, ToldFrame DEF ToldInv
  <2> QED BY <2>2, <2>3
<1> QED BY <1>2, <1>3, <1>4

\* Every action keeps what the tasks have been told.
LEMMA ToldStep ==
  ASSUME RdTypeOK, Turns, ToldInv, [RdNext]_rdvars PROVE ToldInv'
<1> SUFFICES ASSUME NEW u \in IoTasks PROVE Told(u)'
  BY DEF ToldInv
<1>1. CASE UNCHANGED rdvars
  <2>1. TimerSet(u)' <=> TimerSet(u)
    BY <1>1 DEF TimerSet, rdvars, taskvars
  <2> QED BY <1>1, <2>1, ToldFrame DEF rdvars, reactorvars, taskvars, sockvars, ToldInv
<1>2. IoTasks \subseteq Tasks
  BY DEF IoTasks
<1> QED
  BY <1>1, <1>2, ToldSleep, ToldIo, ToldReactor, ToldCalls, ToldKernel DEF RdNext

\* With one task per listener or UDP socket no readiness is lost, for any number of tasks,
\* sockets and timers: whoever sleeps on a socket that is ready for it will be woken.
THEOREM ReadinessNotLost ==
  ASSUME OneTaskEach PROVE RdSpec => []ReadinessTold
<1>1. RdInit => Turns /\ ToldInv
  BY DEF RdInit, Turns, ToldInv, Told, Blocked, IoTasks
<1>2. RdTypeOK /\ Turns /\ [RdNext]_rdvars => Turns'
  BY TurnsStep
<1>3. RdTypeOK /\ Turns /\ ToldInv /\ [RdNext]_rdvars => ToldInv'
  BY ToldStep
<1>4. RdTypeOK /\ ToldInv => ReadinessTold
  BY ReactorAssumption DEF ToldInv, Told, Blocked, ReadinessTold, IoTasks
<1> QED
  BY <1>1, <1>2, <1>3, <1>4, RdTypeCorrect, PTL DEF RdSpec

=============================================================================
