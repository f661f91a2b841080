----------------------------- MODULE JoinProofs -----------------------------
(***************************************************************************)
(* Theorems about a spawned task and its handle.  Join uses the channel    *)
(* only through Channel's actions, so ChannelProofs applies to it; what    *)
(* the handle returns follows from the channel's counters.                 *)
(***************************************************************************)
EXTENDS Join, ChannelProofs

\* The steps of Join that touch the channel.
LEMMA JoinStepRefines == [JNext]_jvars => [ChNext]_vars
<1> SUFFICES ASSUME [JNext]_jvars PROVE ChNext \/ UNCHANGED vars
  OBVIOUS
<1>0. tx \in Senders
  BY JoinAssumption
<1>1. CASE ChildPending \/ AbortChild \/ UNCHANGED jvars
  BY <1>1 DEF ChildPending, AbortChild, jvars
<1>2. CASE ChildReady \/ ChildSend \/ ChildEnd \/ ChildPanic \/ DropAborted
  <2>1. Send(tx) \/ SenderStep(tx) \/ DropSender(tx)
    BY <1>2, Zenon DEF ChildReady, ChildSend, ChildEnd, ChildPanic, DropAborted
  <2>2. QED
    BY <1>0, <2>1, Zenon DEF ChNext
<1>3. CASE JoinAwait \/ JoinRepoll \/ JoinPoll \/ JoinLeave \/ DropHandle
  <2>1. ReceiverMoves
    BY <1>3, Zenon DEF JoinAwait, JoinRepoll, JoinPoll, JoinLeave, DropHandle, ReceiverMoves,
                       ReceiverStep
  <2>2. QED
    BY <2>1, Zenon DEF ReceiverMoves, ChNext
<1>4. CASE JoinReactor
  BY <1>4, Zenon DEF JoinReactor, ChNext
<1>5. QED
  BY <1>1, <1>2, <1>3, <1>4, Zenon DEF JNext, ChildStep

\* A task and its handle use the result channel as bounded_channel.rs allows: what holds of
\* every channel holds of theirs.
THEOREM JoinImplementsChannel == JSpec => ChSpec
<1>1. JInit => ChInit
  BY DEF JInit
<1>2. QED
  BY <1>1, JoinStepRefines, PTL DEF JSpec, ChSpec

-----------------------------------------------------------------------------
ChildTypeOK ==
  /\ child \in {"queued", "send", "done", "panicked", "dropped"}
  /\ abort \in BOOLEAN /\ yields \in 0 .. MaxYields

\* A handle never uses try_recv, so its channel's count is exact.
CountExact == ~tried /\ ret # "error"

\* Before the send of the result nothing is in the channel and nothing was received.
NothingSent ==
  child \in {"queued", "dropped"} =>
    queue_cnt = 0 /\ chan = 0 /\ rpc \notin {"try", "sub"} /\ ret = "none"

\* abort consumes the handle: nobody awaits it then or later.  Only an aborted task is
\* dropped unpolled.
AbortConsumes ==
  /\ abort => rpc \in {"out", "gone"}
  /\ child = "dropped" => abort

JoinInv == ChInv /\ ChildTypeOK /\ CountExact /\ NothingSent /\ AbortConsumes

\* Before the child runs nothing was sent and nobody has aborted.
LEMMA JoinInvInit == JInit => JoinInv
<1> SUFFICES ASSUME JInit PROVE JoinInv
  OBVIOUS
<1>1. ChInv
  BY ChInvInit DEF JInit, AnyInit
<1>2. ChildTypeOK
  <2>1. child = "queued" /\ yields \in 0 .. MaxYields
    BY JoinAssumption DEF JInit
  <2>2. abort \in BOOLEAN
    BY DEF JInit
  <2>3. QED
    BY <2>1, <2>2 DEF ChildTypeOK
<1>3. ~tried /\ ret = "none" /\ queue_cnt = 0 /\ chan = 0 /\ rpc = "out"
  BY DEF JInit, ChInit
<1>4. child = "queued" /\ ~abort
  BY DEF JInit
<1>5. QED
  BY <1>1, <1>2, <1>3, <1>4 DEF JoinInv, CountExact, NothingSent, AbortConsumes

\* The child sends its result once, at its end.
LEMMA ChildKeeps ==
  ASSUME JoinInv, ChildStep \/ ChildPending \/ ChildPanic
  PROVE  ChildTypeOK' /\ CountExact' /\ NothingSent' /\ AbortConsumes'
<1> USE JoinAssumption DEF JoinInv, ChildTypeOK, CountExact, NothingSent, AbortConsumes,
                           recvvars, history
<1>1. CASE ChildPending
  BY <1>1 DEF ChildPending, vars
<1>2. CASE ChildReady
  BY <1>2 DEF ChildReady, Send
<1>3. CASE ChildSend
  BY <1>3 DEF ChildSend, SenderStep, SendOk, SendErr, SendAdd, SendTag, SendTagFull, SendWake, childvars
<1>4. CASE ChildEnd
  BY <1>4 DEF ChildEnd, DropSender
<1>5. CASE ChildPanic
  BY <1>5 DEF ChildPanic, DropSender
<1>6. CASE DropAborted
  BY <1>6 DEF DropAborted, DropSender
<1>7. QED
  BY <1>1, <1>2, <1>3, <1>4, <1>5, <1>6 DEF ChildStep

\* The poll of the handle finds the message its count promised.
LEMMA TryFindsMessage ==
  ASSUME ChInv, ~tried, rpc = "try"
  PROVE  chan > 0
<1>1. queue_cnt \in Nat /\ chan \in Nat /\ queue_cnt > 0
  BY ChannelAssumption DEF ChInv, CountHeld, ChTypeOK
<1>2. queue_cnt + Cardinality(Adding) = chan
  BY ChannelAssumption DEF ChInv, ChTypeOK, CountAgrees, Adding
<1>3. QED
  BY <1>1, <1>2, HandlesFinite

\* What the holder of the handle does sends nothing; abort consumes the handle.
LEMMA HolderKeeps ==
  ASSUME JoinInv, JoinPoll \/ JoinAwait \/ JoinRepoll \/ JoinLeave \/ DropHandle \/ AbortChild
  PROVE  ChildTypeOK' /\ CountExact' /\ NothingSent' /\ AbortConsumes'
<1> USE DEF JoinInv, ChildTypeOK, CountExact, NothingSent, AbortConsumes, childvars, RGoto, history
<1>1. CASE JoinAwait
  BY <1>1 DEF JoinAwait, Recv
<1>2. CASE JoinRepoll
  BY <1>2 DEF JoinRepoll, Repoll
<1>3. CASE JoinPoll
  <2>1. CASE LoadZero \/ LoadSome \/ StoreWaker
    BY <1>3, <2>1 DEF JoinPoll, LoadZero, LoadSome, StoreWaker
  <2>2. CASE TakeMessage
    <3>1. chan > 0
      BY <2>2, TryFindsMessage DEF TakeMessage
    <3>2. QED
      BY <1>3, <2>2, <3>1 DEF JoinPoll, TakeMessage
  <2>3. CASE RecvOk
    BY <1>3, <2>3 DEF JoinPoll, RecvOk
  <2>4. QED
    BY <1>3, <2>1, <2>2, <2>3 DEF JoinPoll
<1>4. CASE JoinLeave
  BY <1>4 DEF JoinLeave, CancelRecv, PollElsewhere
<1>5. CASE DropHandle
  BY <1>5 DEF DropHandle, DropReceiver
<1>6. CASE AbortChild
  BY <1>6 DEF AbortChild, vars
<1>7. QED
  BY <1>1, <1>2, <1>3, <1>4, <1>5, <1>6

\* The invariant is inductive.
LEMMA JoinInvStep == JoinInv /\ [JNext]_jvars => JoinInv'
<1> SUFFICES ASSUME JoinInv, [JNext]_jvars PROVE JoinInv'
  OBVIOUS
<1>1. ChInv'
  BY JoinStepRefines, ChInvStep DEF JoinInv
<1>2. CASE ChildStep \/ ChildPending \/ ChildPanic
  BY <1>1, <1>2, ChildKeeps DEF JoinInv
<1>3. CASE JoinPoll \/ JoinAwait \/ JoinRepoll \/ JoinLeave \/ DropHandle \/ AbortChild
  BY <1>1, <1>3, HolderKeeps DEF JoinInv
<1>4. CASE JoinReactor \/ UNCHANGED jvars
  <2>1. UNCHANGED <<chan, queue_cnt, rpc, ret, tried, childvars>>
    BY <1>4 DEF JoinReactor, ReactorStep, ReactorPoll, PopTag, PopNoTag, WakeTag, OtherTag, OtherWake,
                jvars, vars, recvvars, history
  <2>2. QED
    BY <1>1, <2>1 DEF JoinInv, ChildTypeOK, CountExact, NothingSent, AbortConsumes, childvars
<1>5. QED
  BY <1>2, <1>3, <1>4 DEF JNext

\* So it always holds.
LEMMA JoinInvAlways == JSpec => []JoinInv
BY JoinInvInit, JoinInvStep, PTL DEF JSpec

\* Every variable of the task, its handle and their channel keeps its type.
THEOREM JoinTypes == JSpec => []JTypeOK
<1>1. JoinInv => JTypeOK
  BY DEF JoinInv, JTypeOK, ChInv, ChildTypeOK
<1>2. QED
  BY <1>1, JoinInvAlways, PTL

\* A handle returns a value only if the task's future completed and its result was sent,
\* also when it is aborted after it was awaited; JoinHandleError only if the task failed;
\* and nobody awaits the handle of a task dropped unpolled: for every interleaving of the
\* child's send, the handle's polls, drop and abort, and the reactor.
THEOREM JoinReturnsOutcome == JSpec => []JoinOutcome
<1>1. JoinInv => JoinOutcome
  BY DEF JoinInv, ChildTypeOK, CountExact, NothingSent, AbortConsumes, JoinOutcome
<1>2. QED
  BY <1>1, JoinInvAlways, PTL

=============================================================================
