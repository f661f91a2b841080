------------------------------ MODULE Readiness ------------------------------
(***************************************************************************)
(* What waits for readiness through the reactor's statuses: accept, read,  *)
(* write, recv_from and send_to (src/src/net/), Sleep (src/src/time/       *)
(* sleep.rs) and Timeout around a socket operation (src/src/time/          *)
(* timeout.rs).  A task awaits one operation at a time and may call the    *)
(* next when it has ended.  A socket has a token, and so has the timer of  *)
(* a task, which is used once and named after the task.  The kernel's side *)
(* (data, buffer space, hang-ups, expiry) acts at any time; every change   *)
(* that makes a source ready is an edge.  The liveness properties end      *)
(* where the task is queued to be polled: Runtime says what follows.       *)
(***************************************************************************)
EXTENDS Reactor

CONSTANTS Listeners, Streams, Udps,
          Sleepers,   \* tasks that await sleep(duration)
          Timed,      \* tasks whose first socket operation is inside timeout(..)
          SocketOf,   \* SocketOf[t]: the socket that task t uses
          MaxItems    \* bound: connections, datagrams or chunks that wait at a socket

Sockets == Listeners \cup Streams \cup Udps
IoTasks == Tasks \ Sleepers
Timers  == Sleepers \cup Timed

ASSUME ReadinessAssumption ==
  /\ Sleepers \subseteq Tasks /\ Timed \subseteq IoTasks
  /\ Sockets \cap Tasks = {}
  /\ Tokens = Sockets \cup Timers
  /\ SocketOf \in [IoTasks -> Sockets]
  /\ MaxItems \in Nat

VARIABLES tpc,    \* where each task is; "idle" outside an operation
          dir,    \* dir[t]: "in" for accept, read, recv_from; "out" for write, send_to;
                  \* "in" when t is idle
          ended,  \* ended[t]: how the operation with t's timer ended
          timer,  \* timer[t]: "unset", "stored", "armed" (or "disarmed"), "fired", and
                  \* after its drop "spent" if it had fired, else "closed"
          avail,  \* avail[s]: what waits to be accepted or read
          full,   \* full[s]: no room to write
          hup,    \* hup[s]: the peer has closed
          open    \* sockets that are not dropped

taskvars == <<tpc, dir, ended, timer>>
sockvars == <<avail, full, hup, open>>
rdvars   == <<reactorvars, taskvars, sockvars>>

\* connect, bind and accept have registered the sockets; one that can be written is
\* ready at once.
RdInit ==
  /\ ReactorInit(Streams \cup Udps)
  /\ tpc = [t \in Tasks |-> "idle"] /\ dir = [t \in IoTasks |-> "in"]
  /\ ended = [t \in Timers |-> "none"] /\ timer = [t \in Timers |-> "unset"]
  /\ avail = [s \in Sockets |-> 0] /\ full = [s \in Sockets |-> FALSE]
  /\ hup = [s \in Sockets |-> FALSE] /\ open = Sockets

Goto(t, from, to) == tpc[t] = from /\ tpc' = [tpc EXCEPT ![t] = to]

\* The operation under way has a timer that was set.
TimerSet(t) == t \in Timers /\ timer[t] \in {"armed", "disarmed", "fired"}

\* The Sleep of an operation that ends is dropped; closing the descriptor takes a
\* pending event out of mio, but not out of the reactor's hands.
DropTimer(t) ==
  IF TimerSet(t)
    THEN /\ timer' = [timer EXCEPT ![t] = IF @ = "fired" THEN "spent" ELSE "closed"]
         /\ edge' = edge \ {t}
    ELSE UNCHANGED <<timer, edge>>

Finish(t, from, how) ==
  /\ Goto(t, from, "idle")
  /\ dir' = [u \in IoTasks |-> IF u = t THEN "in" ELSE dir[u]]
  /\ ended' = IF TimerSet(t) THEN [ended EXCEPT ![t] = how] ELSE ended
  /\ DropTimer(t)

-----------------------------------------------------------------------------
(* Sleep *)

CallSleep(t) ==
  /\ t \in Sleepers /\ timer[t] = "unset"
  /\ Goto(t, "idle", "sleep")
  /\ UNCHANGED <<reactorvars, dir, ended, timer, sockvars>>

\* Mutant: the waker is not stored.
SleepStoreNothing(t) ==
  /\ t \in Timers /\ timer[t] = "unset"
  /\ Goto(t, "sleep", "arm")
  /\ timer' = [timer EXCEPT ![t] = "stored"]
  /\ UNCHANGED <<reactorvars, dir, ended, sockvars>>

\* The first poll: reactor.status_store(self.mio_token, ..)
SleepStore(t) ==
  /\ t \in Timers /\ timer[t] = "unset"
  /\ Goto(t, "sleep", "arm")
  /\ StatusStore(t, t)
  /\ timer' = [timer EXCEPT ![t] = "stored"]
  /\ UNCHANGED <<edge, batch, woken, dir, ended, sockvars>>

\* Where a poll whose timer is not ready goes on: Pending, or Timeout polls its future,
\* which starts, or waits in Reactor::poll.
AfterSleep(t, first) == IF t \in Sleepers THEN "pending" ELSE IF first THEN "io" ELSE "wait"

\* timer.set(..) and its registration.  A duration of zero disarms the timer.
SleepArm(t) ==
  /\ Goto(t, "arm", AfterSleep(t, TRUE))
  /\ \E set \in {"armed", "disarmed"} : timer' = [timer EXCEPT ![t] = set]
  /\ UNCHANGED <<reactorvars, dir, ended, sockvars>>

\* Mutant: whatever woke the task is taken for the timer.
SleepReadyUnchecked(t) ==
  /\ TimerSet(t)
  /\ Finish(t, "sleep", IF t \in Sleepers THEN "slept" ELSE "timeout")
  /\ UNCHANGED <<statuses, batch, woken, sockvars>>

\* A later poll: has_token_progressed.  The entry stays in statuses.  Timeout returns
\* its error and drops the future without polling it.
SleepReady(t) ==
  /\ TimerSet(t) /\ HasTokenProgressed(t)
  /\ Finish(t, "sleep", IF t \in Sleepers THEN "slept" ELSE "timeout")
  /\ UNCHANGED <<statuses, batch, woken, sockvars>>

SleepPending(t) ==
  /\ TimerSet(t) /\ ~HasTokenProgressed(t)
  /\ Goto(t, "sleep", AfterSleep(t, FALSE))
  /\ UNCHANGED <<reactorvars, dir, ended, timer, sockvars>>

-----------------------------------------------------------------------------
(* accept, read, write, recv_from, send_to: one loop *)

\* read and write borrow the stream mutably: tasks may share one, and take turns.
TurnOf(t) == SocketOf[t] \in Streams =>
  \A u \in IoTasks \ {t} : SocketOf[u] = SocketOf[t] => tpc[u] = "idle"

CallIo(t, d) ==
  /\ t \in IoTasks /\ SocketOf[t] \in open /\ TurnOf(t)
  /\ SocketOf[t] \in Listeners => d = "in"
  /\ Goto(t, "idle", IF t \in Timed /\ timer[t] = "unset" THEN "sleep" ELSE "io")
  /\ dir' = [dir EXCEPT ![t] = d]
  /\ UNCHANGED <<reactorvars, ended, timer, sockvars>>

\* What the system call would do.
CanDo(t) == IF dir[t] = "in" THEN avail[SocketOf[t]] > 0
                             ELSE ~full[SocketOf[t]] /\ ~hup[SocketOf[t]]
CanEnd(t) == hup[SocketOf[t]] /\ (dir[t] = "in" => avail[SocketOf[t]] = 0)

\* Mutant: WouldBlock is taken for Ok.
IoOkUnchecked(t) ==
  /\ Finish(t, "io", "ok")
  /\ dir[t] = "in" /\ avail' = [avail EXCEPT ![SocketOf[t]] = @ - 1]
  /\ UNCHANGED <<statuses, batch, woken, full, hup, open>>

\* Ok(..): something is taken, or written, which may use the last room.  The registration
\* of an accepted connection may fail: it is dropped, and `?` returns the error.
IoOk(t) ==
  /\ CanDo(t)
  /\ Finish(t, "io", "ok") \/ (SocketOf[t] \in Listeners /\ Finish(t, "io", "end"))
  /\ IF dir[t] = "in"
       THEN avail' = [avail EXCEPT ![SocketOf[t]] = @ - 1] /\ UNCHANGED full
       ELSE (\E b \in BOOLEAN : full' = [full EXCEPT ![SocketOf[t]] = b]) /\ UNCHANGED avail
  /\ UNCHANGED <<statuses, batch, woken, hup, open>>

\* Ok(0) at the end of a stream, or an error that is not WouldBlock.
IoEnd(t) ==
  /\ CanEnd(t)
  /\ Finish(t, "io", "end")
  /\ UNCHANGED <<statuses, batch, woken, sockvars>>

\* WouldBlock
IoBlock(t) ==
  /\ ~CanDo(t) /\ ~CanEnd(t)
  /\ Goto(t, "io", "wait")
  /\ UNCHANGED <<reactorvars, dir, ended, timer, sockvars>>

\* Reactor::get().poll(self.token, cx) is Pending.
IoAwait(t) ==
  /\ Goto(t, "wait", "pending")
  /\ ReactorPollPending(SocketOf[t], t)
  /\ UNCHANGED <<edge, batch, woken, dir, ended, timer, sockvars>>

\* Mutant: the loop asks the reactor again instead of trying again.
IoRetryAsks(t) ==
  /\ tpc[t] = "wait" /\ HasTokenProgressed(SocketOf[t])
  /\ UNCHANGED rdvars

\* It is Ready: the loop tries again.
IoRetry(t) ==
  /\ Goto(t, "wait", "io")
  /\ ReactorPollReady(SocketOf[t])
  /\ UNCHANGED <<edge, batch, woken, dir, ended, timer, sockvars>>

-----------------------------------------------------------------------------
(* The scheduler and the kernel. *)

\* The scheduler polls a woken task: Timeout and Sleep look at their timer first.
Repoll(t) ==
  /\ t \in woken
  /\ Goto(t, "pending", IF TimerSet(t) THEN "sleep" ELSE "wait")
  /\ woken' = woken \ {t}
  /\ UNCHANGED <<statuses, edge, batch, dir, ended, timer, sockvars>>

\* The woken task is not in an operation any more.
PollElsewhere(t) ==
  /\ t \in woken /\ tpc[t] = "idle"
  /\ woken' = woken \ {t}
  /\ UNCHANGED <<statuses, edge, batch, taskvars, sockvars>>

Edge(k) == edge' = edge \cup {k} /\ UNCHANGED <<statuses, batch, woken>>

Expire(t) ==
  /\ timer[t] = "armed"
  /\ timer' = [timer EXCEPT ![t] = "fired"]
  /\ Edge(t)
  /\ UNCHANGED <<tpc, dir, ended, sockvars>>

Arrive(s) ==
  /\ s \in open /\ ~hup[s] /\ avail[s] < MaxItems
  /\ avail' = [avail EXCEPT ![s] = @ + 1]
  /\ Edge(s)
  /\ UNCHANGED <<taskvars, full, hup, open>>

Drain(s) ==
  /\ s \in open /\ full[s]
  /\ full' = [full EXCEPT ![s] = FALSE]
  /\ Edge(s)
  /\ UNCHANGED <<taskvars, avail, hup, open>>

HangUp(s) ==
  /\ s \in open \cap Streams /\ ~hup[s]
  /\ hup' = [hup EXCEPT ![s] = TRUE]
  /\ Edge(s)
  /\ UNCHANGED <<taskvars, avail, full, open>>

\* The socket is dropped between operations: it is deregistered and what waited at it
\* is gone; its entry in statuses stays.
DropSocket(s) ==
  /\ s \in open /\ \A t \in IoTasks : SocketOf[t] = s => tpc[t] = "idle"
  /\ open' = open \ {s}
  /\ edge' = edge \ {s}
  /\ avail' = [avail EXCEPT ![s] = 0] /\ full' = [full EXCEPT ![s] = FALSE]
  /\ hup' = [hup EXCEPT ![s] = FALSE]
  /\ UNCHANGED <<statuses, batch, woken, taskvars>>

-----------------------------------------------------------------------------
SleepStep(t) == SleepStore(t) \/ SleepArm(t) \/ SleepReady(t) \/ SleepPending(t)
IoStep(t)    == IoOk(t) \/ IoEnd(t) \/ IoBlock(t) \/ IoAwait(t) \/ IoRetry(t)

RdNext ==
  \/ \E t \in Timers : SleepStep(t) \/ Expire(t)
  \/ \E t \in IoTasks : (\E d \in {"in", "out"} : CallIo(t, d)) \/ IoStep(t)
  \/ \E t \in Tasks : CallSleep(t) \/ Repoll(t) \/ PollElsewhere(t)
  \/ \E s \in Sockets : Arrive(s) \/ Drain(s) \/ HangUp(s) \/ DropSocket(s)
  \/ ReactorStep /\ UNCHANGED <<taskvars, sockvars>>

RdSpec == RdInit /\ [][RdNext]_rdvars

\* Threads are scheduled: a poll that has begun ends, and the reactor runs.  An armed timer
\* expires.  Whether a woken task is polled is left open.
RdFairness ==
  /\ \A t \in Timers : WF_rdvars(SleepStep(t)) /\ WF_rdvars(Expire(t))
  /\ \A t \in IoTasks : WF_rdvars(IoStep(t))
  /\ WF_rdvars(ReactorStep /\ UNCHANGED <<taskvars, sockvars>>)

FairRdSpec == RdSpec /\ RdFairness

-----------------------------------------------------------------------------
(* Properties *)

\* Every variable keeps its type.
RdTypeOK ==
  /\ statuses \in [Tokens -> Tasks \cup {"vacant", "happened"}]
  /\ edge \subseteq Tokens /\ batch \subseteq Tokens /\ woken \subseteq Tasks
  /\ tpc \in [Tasks -> {"idle", "sleep", "arm", "io", "wait", "pending"}]
  /\ dir \in [IoTasks -> {"in", "out"}]
  /\ ended \in [Timers -> {"none", "ok", "end", "slept", "timeout"}]
  /\ timer \in [Timers -> {"unset", "stored", "armed", "disarmed", "fired", "spent", "closed"}]
  /\ avail \in [Sockets -> 0 .. MaxItems]
  /\ full \in [Sockets -> BOOLEAN] /\ hup \in [Sockets -> BOOLEAN]
  /\ open \subseteq Sockets

\* Readiness is not lost between WouldBlock and Reactor::poll, nor between the reactor's
\* system call and its lock: while a task sleeps on a socket that is ready for it, the
\* task is queued or the event is on its way to it (reactor.rs:149-170, 214-222).
ReadinessTold ==
  \A t \in IoTasks : tpc[t] = "pending" /\ (CanDo(t) \/ CanEnd(t)) =>
    t \in woken \/ SocketOf[t] \in edge \cup batch

\* A sleep ends, and a timeout is reported, only after its own timer has fired: not for
\* an event of the socket or a late wake-up of an earlier operation (sleep.rs:109-111).
NoEarlyEnd == \A t \in Timers : ended[t] \in {"slept", "timeout"} => timer[t] = "spent"

\* A timer gets its task queued with the expiry recorded, so that sleep "completes after
\* the specified duration has elapsed" (sleep.rs:23) and timeout ends by then even if its
\* future never does: unless the duration was zero, which disarms the timer.
TimerEnds ==
  \A t \in Timers :
    tpc[t] = "sleep" ~> \/ tpc[t] = "idle" \/ timer[t] = "disarmed"
                        \/ t \in woken /\ HasTokenProgressed(t)

\* accept, read and write wait "for the reactor to signal readiness" (stream.rs:94, 119):
\* one that has begun while its socket is ready ends, or its task is queued to go on.
OpServed ==
  \A t \in IoTasks : tpc[t] \in {"io", "wait", "pending"} /\ (CanDo(t) \/ CanEnd(t)) ~>
                      tpc[t] = "idle" \/ t \in woken

=============================================================================
