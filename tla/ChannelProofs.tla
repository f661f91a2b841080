---------------------------- MODULE ChannelProofs ----------------------------
(***************************************************************************)
(* Theorems about the bounded channel, for every number of senders, every  *)
(* capacity and every number of calls.  The invariants of the counters     *)
(* hold from both initial states; WakeInFlight holds once the receiver has *)
(* been parked, which is what ParkedSpec starts from.                      *)
(***************************************************************************)
EXTENDS Channel, FiniteSetTheorems, TLAPS

SenderPC == {"none", "out", "send", "add", "tag", "wake", "drop"}

\* The handles that exist, and those between sender.send and fetch_add.
Existing == {s \in Senders : spc[s] # "none"}
Adding   == {s \in Senders : spc[s] = "add"}

\* A new channel, or one whose receiver has parked once.
AnyInit == ChInit \/ ParkedInit

AnySpec == AnyInit /\ [][ChNext]_vars

\* clone_count counts the handles, so that no drop finds it at zero.
ClonesCounted == clone_count = Cardinality(Existing)

\* From the load of a count that is not zero to its own fetch_sub the receiver is the only
\* thread that lowers the count.
CountHeld == rpc \in {"try", "sub"} => queue_cnt > 0

ChInv == ChTypeOK /\ ClonesCounted /\ CountHeld /\ CountAgrees

-----------------------------------------------------------------------------
(* Facts about one step of a handle. *)

\* A step of one handle leaves the others where they are.
LEMMA HandleMoves ==
  ASSUME ChTypeOK, NEW s \in Senders, NEW to \in SenderPC,
         spc' = [spc EXCEPT ![s] = to]
  PROVE  /\ spc' \in [Senders -> SenderPC]
         /\ spc'[s] = to
         /\ \A u \in Senders \ {s} : spc'[u] = spc[u]
BY DEF ChTypeOK, SenderPC

\* The handles are finitely many, and so are those inside one step of send.
LEMMA HandlesFinite ==
  /\ IsFiniteSet(Existing) /\ Cardinality(Existing) \in Nat
  /\ IsFiniteSet(Adding) /\ Cardinality(Adding) \in Nat
<1>1. Existing \in SUBSET Senders /\ Adding \in SUBSET Senders
  BY DEF Existing, Adding
<1>2. IsFiniteSet(Existing) /\ IsFiniteSet(Adding)
  BY <1>1, FS_Subset, ChannelAssumption
<1>3. QED
  BY <1>2, FS_CardinalityType

\* A handle that exists is counted.
LEMMA CountPositive ==
  ASSUME ChTypeOK, ClonesCounted, NEW s \in Senders, spc[s] # "none"
  PROVE  clone_count > 0
<1>1. s \in Existing
  BY DEF Existing
<1>2. Cardinality(Existing) # 0
  BY <1>1, HandlesFinite, FS_EmptySet
<1>3. QED
  BY <1>2, HandlesFinite DEF ClonesCounted, Existing, ChTypeOK

\* How the number of handles changes when one of them moves.
LEMMA ExistingMoves ==
  ASSUME ChTypeOK, NEW s \in Senders, NEW to \in SenderPC,
         spc' = [spc EXCEPT ![s] = to]
  PROVE  Cardinality(Existing)' =
           IF spc[s] = "none" /\ to # "none" THEN Cardinality(Existing) + 1
           ELSE IF spc[s] # "none" /\ to = "none" THEN Cardinality(Existing) - 1
           ELSE Cardinality(Existing)
<1>1. /\ spc'[s] = to
      /\ \A u \in Senders \ {s} : spc'[u] = spc[u]
  BY HandleMoves
<1>2. CASE spc[s] = "none" /\ to # "none"
  <2>1. Existing' = Existing \cup {s} /\ s \notin Existing
    BY <1>1, <1>2 DEF Existing
  <2>2. QED
    BY <1>2, <2>1, HandlesFinite, FS_AddElement
<1>3. CASE spc[s] # "none" /\ to = "none"
  <2>1. Existing' = Existing \ {s} /\ s \in Existing
    BY <1>1, <1>3 DEF Existing
  <2>2. QED
    BY <1>3, <2>1, HandlesFinite, FS_RemoveElement
<1>4. CASE spc[s] = "none" <=> to = "none"
  <2>1. Existing' = Existing
    BY <1>1, <1>4 DEF Existing
  <2>2. QED
    BY <1>4, <2>1
<1>5. QED
  BY <1>2, <1>3, <1>4

\* How the number of uncounted messages changes when a handle moves.
LEMMA AddingMoves ==
  ASSUME ChTypeOK, NEW s \in Senders, NEW to \in SenderPC,
         spc' = [spc EXCEPT ![s] = to]
  PROVE  Cardinality(Adding)' =
           IF spc[s] # "add" /\ to = "add" THEN Cardinality(Adding) + 1
           ELSE IF spc[s] = "add" /\ to # "add" THEN Cardinality(Adding) - 1
           ELSE Cardinality(Adding)
<1>1. /\ spc'[s] = to
      /\ \A u \in Senders \ {s} : spc'[u] = spc[u]
  BY HandleMoves
<1>2. CASE spc[s] # "add" /\ to = "add"
  <2>1. Adding' = Adding \cup {s} /\ s \notin Adding
    BY <1>1, <1>2 DEF Adding
  <2>2. QED
    BY <1>2, <2>1, HandlesFinite, FS_AddElement
<1>3. CASE spc[s] = "add" /\ to # "add"
  <2>1. Adding' = Adding \ {s} /\ s \in Adding
    BY <1>1, <1>3 DEF Adding
  <2>2. QED
    BY <1>3, <2>1, HandlesFinite, FS_RemoveElement
<1>4. CASE spc[s] = "add" <=> to = "add"
  <2>1. Adding' = Adding
    BY <1>1, <1>4 DEF Adding
  <2>2. QED
    BY <1>4, <2>1
<1>5. QED
  BY <1>2, <1>3, <1>4

-----------------------------------------------------------------------------
(* The type invariant. *)

\* A sender's steps keep the types.
LEMMA SenderTypes ==
  ASSUME ChInv, NEW s \in Senders, Send(s) \/ SenderStep(s) \/ DropSender(s)
  PROVE  ChTypeOK'
<1> USE ChannelAssumption DEF ChInv, ChTypeOK, SGoto, recvvars, reactorvars, history
<1>1. CASE Send(s)
  BY <1>1 DEF Send
<1>2. CASE SendOk(s)
  BY <1>2 DEF SendOk
<1>3. CASE SendErr(s)
  BY <1>3 DEF SendErr
<1>4. CASE SendAdd(s)
  BY <1>4 DEF SendAdd
<1>5. CASE SendTag(s)
  BY <1>5 DEF SendTag
<1>6. CASE SendTagFull(s)
  BY <1>6 DEF SendTagFull
<1>7. CASE SendWake(s)
  BY <1>7 DEF SendWake
<1>8. CASE DropSender(s)
  <2>1. clone_count > 0
    BY <1>8, CountPositive DEF DropSender
  <2>2. QED
    BY <1>8, <2>1 DEF DropSender
<1>9. QED
  BY <1>1, <1>2, <1>3, <1>4, <1>5, <1>6, <1>7, <1>8 DEF SenderStep

\* So does cloning a sender.
LEMMA CloneTypes ==
  ASSUME ChInv, NEW s \in Senders, NEW new \in Senders, CloneSender(s, new)
  PROVE  ChTypeOK'
BY DEF ChInv, ChTypeOK, CloneSender, SGoto, recvvars, reactorvars, history

ReceiverMoves ==
  \/ Recv \/ ReceiverStep \/ Repoll \/ CancelRecv \/ PollElsewhere \/ DropReceiver
  \/ TryRecv \/ MoveReceiver

\* So do the receiver's steps.
LEMMA ReceiverTypes ==
  ASSUME ChInv, ReceiverMoves
  PROVE  ChTypeOK'
<1> USE ChannelAssumption
    DEF ChInv, ChTypeOK, CountHeld, RGoto, sendvars, reactorvars, history
<1>1. CASE Recv
  BY <1>1 DEF Recv
<1>2. CASE LoadZero \/ LoadSome
  BY <1>2 DEF LoadZero, LoadSome
<1>3. CASE StoreWaker
  BY <1>3 DEF StoreWaker
<1>4. CASE Repoll
  BY <1>4 DEF Repoll
<1>5. CASE TakeMessage
  BY <1>5 DEF TakeMessage
<1>6. CASE RecvOk
  BY <1>6 DEF RecvOk
<1>7. CASE CancelRecv
  BY <1>7 DEF CancelRecv
<1>8. CASE DropReceiver
  BY <1>8 DEF DropReceiver
<1>9. CASE TryRecv
  BY <1>9 DEF TryRecv
<1>10. CASE MoveReceiver
  BY <1>10 DEF MoveReceiver
<1>11. CASE PollElsewhere
  BY <1>11 DEF PollElsewhere
<1>12. QED
  BY <1>1, <1>2, <1>3, <1>4, <1>5, <1>6, <1>7, <1>8, <1>9, <1>10, <1>11
     DEF ReceiverMoves, ReceiverStep

\* So do the reactor's steps and tags of other channels.
LEMMA ReactorTypes ==
  ASSUME ChInv, ReactorStep \/ OtherTag \/ OtherWake
  PROVE  ChTypeOK'
<1> USE ChannelAssumption DEF ChInv, ChTypeOK, recvvars, sendvars, history
<1>1. CASE ReactorPoll
  BY <1>1 DEF ReactorPoll
<1>2. CASE PopTag
  BY <1>2 DEF PopTag
<1>3. CASE WakeTag
  BY <1>3 DEF WakeTag
<1>4. CASE OtherTag
  BY <1>4 DEF OtherTag
<1>4a. CASE OtherWake
  BY <1>4a DEF OtherWake
<1>5. CASE PopNoTag
  BY <1>5 DEF PopNoTag
<1>6. QED
  BY <1>1, <1>2, <1>3, <1>4, <1>4a, <1>5 DEF ReactorStep

-----------------------------------------------------------------------------
(* The counters. *)

\* Only the senders touch clone_count.
LEMMA SenderCounts ==
  ASSUME ChInv, NEW s \in Senders, Send(s) \/ SenderStep(s) \/ DropSender(s)
  PROVE  ClonesCounted' /\ CountHeld' /\ CountAgrees'
<1> USE HandlesFinite DEF ChInv, ClonesCounted, CountHeld, CountAgrees, SenderPC, SGoto,
                          recvvars, history
<1>t. ChTypeOK
  OBVIOUS
<1>n. chan \in Nat /\ queue_cnt \in Nat /\ clone_count \in Nat
  BY ChannelAssumption DEF ChTypeOK
<1>d. /\ ClonesCounted <=> clone_count = Cardinality(Existing)
      /\ ClonesCounted' <=> clone_count' = Cardinality(Existing)'
      /\ CountAgrees <=> (rpc # "gone" /\ ~tried =>
           queue_cnt + Cardinality(Adding) = chan + (IF rpc = "sub" THEN 1 ELSE 0))
      /\ CountAgrees' <=> (rpc' # "gone" /\ ~tried' =>
           queue_cnt' + Cardinality(Adding)' = chan' + (IF rpc' = "sub" THEN 1 ELSE 0))
  BY DEF Existing, Adding
<1>1. CASE Send(s) \/ SendErr(s) \/ SendTag(s) \/ SendTagFull(s) \/ SendWake(s)
  <2>1. PICK to \in {"send", "out", "wake", "drop"} :
          spc' = [spc EXCEPT ![s] = to] /\ spc[s] \notin {"none", "add"}
    BY <1>1 DEF Send, SendErr, SendTag, SendTagFull, SendWake
  <2>2. Cardinality(Existing)' = Cardinality(Existing) /\ Cardinality(Adding)' = Cardinality(Adding)
    BY <2>1, <1>t, ExistingMoves, AddingMoves
  <2>3. UNCHANGED <<chan, queue_cnt, clone_count, rpc, tried>>
    BY <1>1 DEF Send, SendErr, SendTag, SendTagFull, SendWake
  <2>4. QED
    BY <2>2, <2>3, <1>d
<1>2. CASE SendOk(s)
  <2>1. Cardinality(Existing)' = Cardinality(Existing) /\ Cardinality(Adding)' = Cardinality(Adding) + 1
    BY <1>2, <1>t, ExistingMoves, AddingMoves DEF SendOk
  <2>2. QED
    BY <1>2, <2>1, <1>d, <1>n DEF SendOk
<1>3. CASE SendAdd(s)
  <2>1. Cardinality(Existing)' = Cardinality(Existing) /\ Cardinality(Adding)' = Cardinality(Adding) - 1
    BY <1>3, <1>t, ExistingMoves, AddingMoves DEF SendAdd
  <2>2. QED
    BY <1>3, <2>1, <1>d, <1>n DEF SendAdd
<1>4. CASE DropSender(s)
  <2>1. Cardinality(Existing)' = Cardinality(Existing) - 1 /\ Cardinality(Adding)' = Cardinality(Adding)
    BY <1>4, <1>t, ExistingMoves, AddingMoves DEF DropSender
  <2>2. QED
    BY <1>4, <2>1, <1>d, <1>n DEF DropSender
<1>5. QED
  BY <1>1, <1>2, <1>3, <1>4 DEF SenderStep

\* A clone adds one handle and one to clone_count.
LEMMA CloneCounts ==
  ASSUME ChInv, NEW s \in Senders, NEW new \in Senders, CloneSender(s, new)
  PROVE  ClonesCounted' /\ CountHeld' /\ CountAgrees'
<1>1. /\ Cardinality(Existing)' = Cardinality(Existing) + 1
      /\ Cardinality(Adding)' = Cardinality(Adding)
  BY ExistingMoves, AddingMoves DEF CloneSender, SGoto, ChInv, SenderPC
<1>2. QED
  BY <1>1 DEF CloneSender, ChInv, ClonesCounted, CountHeld, CountAgrees, Existing, Adding,
              recvvars, history

\* A step that is not a sender's leaves the handles alone.
LEMMA ReceiverCounts ==
  ASSUME ChInv, ReceiverMoves
  PROVE  ClonesCounted' /\ CountHeld' /\ CountAgrees'
<1>1. spc' = spc /\ clone_count' = clone_count
  BY DEF ReceiverMoves, Recv, ReceiverStep, LoadZero, LoadSome, StoreWaker, Repoll, TakeMessage,
         RecvOk, CancelRecv, PollElsewhere, DropReceiver, TryRecv, MoveReceiver, sendvars
<1>2. Adding' = Adding /\ Cardinality(Adding)' = Cardinality(Adding)
  BY <1>1 DEF Adding
<1>n. chan \in Nat /\ queue_cnt \in Nat /\ Cardinality(Adding) \in Nat
  BY ChannelAssumption, HandlesFinite DEF ChInv, ChTypeOK
<1>d. /\ CountAgrees <=> (rpc # "gone" /\ ~tried =>
           queue_cnt + Cardinality(Adding) = chan + (IF rpc = "sub" THEN 1 ELSE 0))
      /\ CountAgrees' <=> (rpc' # "gone" /\ ~tried' =>
           queue_cnt' + Cardinality(Adding)' = chan' + (IF rpc' = "sub" THEN 1 ELSE 0))
  BY DEF CountAgrees, Adding
<1>3. ClonesCounted'
  BY <1>1 DEF ChInv, ClonesCounted, Existing
<1>4. CountHeld' /\ CountAgrees'
  <2> USE <1>2, <1>n, <1>d DEF ChInv, CountHeld, RGoto, history
  <2>1. CASE Recv \/ LoadZero \/ LoadSome \/ StoreWaker \/ Repoll
    BY <2>1 DEF Recv, LoadZero, LoadSome, StoreWaker, Repoll
  <2>2. CASE TakeMessage
    BY <2>2 DEF TakeMessage
  <2>3. CASE RecvOk
    <3>1. /\ rpc = "sub" /\ rpc' = "out" /\ chan' = chan /\ tried' = tried
          /\ queue_cnt' = queue_cnt - 1
      BY <2>3 DEF RecvOk
    <3>2. ~tried => queue_cnt + Cardinality(Adding) = chan + 1
      BY <3>1
    <3>3. ~tried' => queue_cnt' + Cardinality(Adding)' = chan'
      BY <3>1, <3>2
    <3>4. QED
      BY <3>1, <3>3
  <2>4. CASE CancelRecv \/ PollElsewhere \/ DropReceiver \/ TryRecv \/ MoveReceiver
    BY <2>4 DEF CancelRecv, PollElsewhere, DropReceiver, TryRecv, MoveReceiver
  <2>5. QED
    BY <2>1, <2>2, <2>3, <2>4 DEF ReceiverMoves, ReceiverStep
<1>5. QED
  BY <1>3, <1>4

\* The reactor touches neither messages nor counts.
LEMMA ReactorCounts ==
  ASSUME ChInv, ReactorStep \/ OtherTag \/ OtherWake
  PROVE  ClonesCounted' /\ CountHeld' /\ CountAgrees'
<1>1. UNCHANGED <<chan, queue_cnt, clone_count, spc, rpc, tried>>
  BY DEF ReactorStep, ReactorPoll, PopTag, PopNoTag, WakeTag, OtherTag, OtherWake,
         recvvars, sendvars, history
<1>2. QED
  BY <1>1 DEF ChInv, ClonesCounted, Existing, CountHeld, CountAgrees

-----------------------------------------------------------------------------
\* A fresh channel and a parked receiver both satisfy the invariant.
LEMMA ChInvInit == AnyInit => ChInv
<1> SUFFICES ASSUME AnyInit PROVE ChInv
  OBVIOUS
<1>1. PICK first \in Senders : spc = [s \in Senders |-> IF s = first THEN "out" ELSE "none"]
  BY DEF AnyInit, ChInit, ParkedInit
<1>2. ChTypeOK
  <2>1. spc \in [Senders -> SenderPC]
    BY <1>1 DEF SenderPC
  <2>2. CASE ChInit
    <3>1. /\ chan \in 0 .. Bound /\ queue_cnt \in Nat /\ clone_count \in Nat
          /\ sends \in 0 .. MaxSends /\ others \in 0 .. MaxOthers
      BY <2>2, ChannelAssumption DEF ChInit
    <3>2. tag_buffer \in Seq({"chan", "other"}) /\ Len(tag_buffer) <= TagBound
      BY <2>2, ChannelAssumption DEF ChInit
    <3>3. woken \in BOOLEAN /\ mio_wake \in BOOLEAN /\ tried \in BOOLEAN /\ moved \in BOOLEAN
      BY <2>2 DEF ChInit
    <3>4. /\ rpc \in {"out", "pending"} /\ ret = "none" /\ waker \in {"none", "mine"}
          /\ reactor = "poll" /\ tag = "chan"
      BY <2>2 DEF ChInit
    <3>5. QED
      BY <2>1, <3>1, <3>2, <3>3, <3>4 DEF ChTypeOK, SenderPC
  <2>3. CASE ParkedInit
    <3>1. /\ chan \in 0 .. Bound /\ queue_cnt \in Nat /\ clone_count \in Nat
          /\ sends \in 0 .. MaxSends /\ others \in 0 .. MaxOthers
      BY <2>3, ChannelAssumption DEF ParkedInit
    <3>2. tag_buffer \in Seq({"chan", "other"}) /\ Len(tag_buffer) <= TagBound
      BY <2>3, ChannelAssumption DEF ParkedInit
    <3>3. woken \in BOOLEAN /\ mio_wake \in BOOLEAN /\ tried \in BOOLEAN /\ moved \in BOOLEAN
      BY <2>3 DEF ParkedInit
    <3>4. /\ rpc \in {"out", "pending"} /\ ret = "none" /\ waker \in {"none", "mine"}
          /\ reactor = "poll" /\ tag = "chan"
      BY <2>3 DEF ParkedInit
    <3>5. QED
      BY <2>1, <3>1, <3>2, <3>3, <3>4 DEF ChTypeOK, SenderPC
  <2>4. QED
    BY <2>2, <2>3 DEF AnyInit
<1>3. {s \in Senders : spc[s] # "none"} = {first} /\ {s \in Senders : spc[s] = "add"} = {}
  BY <1>1
<1>4. ClonesCounted
  BY <1>3, FS_Singleton DEF AnyInit, ChInit, ParkedInit, ClonesCounted, Existing
<1>5. CountAgrees /\ CountHeld
  BY <1>3, FS_EmptySet DEF AnyInit, ChInit, ParkedInit, CountAgrees, CountHeld
<1>6. QED
  BY <1>2, <1>4, <1>5 DEF ChInv

\* The invariant is inductive.
LEMMA ChInvStep == ChInv /\ [ChNext]_vars => ChInv'
<1> SUFFICES ASSUME ChInv, [ChNext]_vars PROVE ChInv'
  OBVIOUS
<1>1. ASSUME NEW s \in Senders, Send(s) \/ SenderStep(s) \/ DropSender(s) PROVE ChInv'
  BY <1>1, SenderTypes, SenderCounts DEF ChInv
<1>2. ASSUME NEW s \in Senders, NEW new \in Senders, CloneSender(s, new) PROVE ChInv'
  BY <1>2, CloneTypes, CloneCounts DEF ChInv
<1>3. CASE ReceiverMoves
  BY <1>3, ReceiverTypes, ReceiverCounts DEF ChInv
<1>4. CASE ReactorStep \/ OtherTag \/ OtherWake
  BY <1>4, ReactorTypes, ReactorCounts DEF ChInv
<1>5. CASE UNCHANGED vars
  BY <1>5 DEF vars, ChInv, ChTypeOK, ClonesCounted, Existing, CountHeld, CountAgrees
<1>6. QED
  BY <1>1, <1>2, <1>3, <1>4, <1>5 DEF ChNext, ReceiverMoves

\* So it always holds, from either initial state.
LEMMA ChInvAlways == AnySpec => []ChInv
BY ChInvInit, ChInvStep, PTL DEF AnySpec

\* Both specifications of Channel are covered.
LEMMA ChStarts == (ChSpec => AnySpec) /\ (ParkedSpec => AnySpec)
BY DEF ChSpec, ParkedSpec, AnySpec, AnyInit

\* Whatever senders, receiver and reactor do, no counter of bounded_channel.rs falls below
\* zero and neither the channel nor the tag buffer exceeds its capacity.
THEOREM ChannelTypes == (ChSpec \/ ParkedSpec) => []ChTypeOK
<1>1. ChInv => ChTypeOK
  BY DEF ChInv
<1>2. QED
  BY <1>1, ChStarts, ChInvAlways, PTL

\* queue_cnt is the number of messages, up to the calls under way, unless try_recv is used.
THEOREM ChannelCounts == (ChSpec \/ ParkedSpec) => []CountAgrees
<1>1. ChInv => CountAgrees
  BY DEF ChInv
<1>2. QED
  BY <1>1, ChStarts, ChInvAlways, PTL

\* recv does not fail while a sender exists: the count it has read holds until it has
\* taken its message, and the count never exceeds the messages.
THEOREM ChannelNoFalseError == (ChSpec \/ ParkedSpec) => []NoFalseRecvError
<1>1. ChInv => NoFalseRecvError
  <2> SUFFICES ASSUME ChInv, rpc = "try", chan = 0, ~tried PROVE FALSE
    BY DEF NoFalseRecvError
  <2>1. queue_cnt \in Nat /\ queue_cnt > 0
    BY DEF ChInv, CountHeld, ChTypeOK
  <2>2. queue_cnt + Cardinality(Adding) = 0
    BY DEF ChInv, CountAgrees, Adding
  <2>3. QED
    BY <2>1, <2>2, HandlesFinite
<1>2. QED
  BY <1>1, ChStarts, ChInvAlways, PTL

-----------------------------------------------------------------------------
(* The wake-up of a parked receiver. *)

OwnTag == \E i \in 1 .. Len(tag_buffer) : tag_buffer[i] = "chan"

\* A send that finds the tag buffer full finds a tag of its own channel there.
OwnTagWhenFull == Len(tag_buffer) = TagBound => OwnTag

\* The reactor is on its way to a tag buffer that holds a tag of this channel.
TagsSignalled ==
  OwnTag => mio_wake \/ reactor # "poll" \/ \E s \in Senders : spc[s] = "wake"

\* The waker that the receiver's only task has stored once stays stored.
WakerStays == ~moved => waker = "mine"

WakeInv == TagsSignalled /\ WakerStays /\ WakeInFlight

\* A parked receiver has its waker stored and nothing to be woken for.
LEMMA WakeInvInit == ParkedInit => WakeInv
BY DEF ParkedInit, WakeInv, TagsSignalled, OwnTag, WakerStays, WakeInFlight

\* A sender wakes the reactor after its push and takes no waker away.
LEMMA SenderSignals ==
  ASSUME ChInv, WakeInv, NEW s \in Senders, Send(s) \/ SenderStep(s) \/ DropSender(s)
  PROVE  TagsSignalled' /\ WakerStays'
<1> USE DEF ChInv, WakeInv, TagsSignalled, OwnTag, WakerStays, SGoto, recvvars, reactorvars, history
<1>0. \A u \in Senders \ {s} : spc'[u] = spc[u]
  BY DEF Send, SenderStep, SendOk, SendErr, SendAdd, SendTag, SendTagFull, SendWake, DropSender, ChTypeOK
<1>1. CASE Send(s) \/ SendOk(s) \/ SendErr(s) \/ SendAdd(s) \/ SendTagFull(s)
  <2>1. spc[s] # "wake"
    BY <1>1 DEF Send, SendOk, SendErr, SendAdd, SendTagFull
  <2>2. UNCHANGED <<tag_buffer, mio_wake, reactor, waker, moved>>
    BY <1>1 DEF Send, SendOk, SendErr, SendAdd, SendTagFull
  <2>3. QED
    BY <1>0, <2>1, <2>2
<1>2. CASE SendTag(s)
  <2>1. spc'[s] = "wake"
    BY <1>2 DEF SendTag, ChTypeOK
  <2>2. QED
    BY <1>2, <2>1 DEF SendTag
<1>3. CASE SendWake(s)
  BY <1>3 DEF SendWake
<1>4. CASE DropSender(s)
  <2>1. clone_count > 0
    BY <1>4, CountPositive DEF DropSender
  <2>2. waker' = waker /\ spc[s] # "wake"
    BY <1>4, <2>1 DEF DropSender, ChTypeOK
  <2>3. QED
    BY <1>0, <1>4, <2>2 DEF DropSender
<1>5. QED
  BY <1>1, <1>2, <1>3, <1>4 DEF SenderStep

\* A sender's step keeps the wake-up of the receiver coming.
LEMMA SenderWakes ==
  ASSUME ChInv, WakeInv, OwnTagWhenFull,
         NEW s \in Senders, Send(s) \/ SenderStep(s) \/ DropSender(s)
  PROVE  WakeInFlight'
<1> SUFFICES ASSUME rpc' \in {"store", "pending"}, ~moved', queue_cnt' > 0
             PROVE  woken' \/ WakeComing'
  BY DEF WakeInFlight
<1> USE DEF SGoto, recvvars, reactorvars, history
<1>0. \A u \in Senders \ {s} : spc'[u] = spc[u]
  BY DEF Send, SenderStep, SendOk, SendErr, SendAdd, SendTag, SendTagFull, SendWake, DropSender,
         ChTypeOK, ChInv
<1>r. UNCHANGED <<rpc, moved, woken>>
  BY DEF Send, SenderStep, SendOk, SendErr, SendAdd, SendTag, SendTagFull, SendWake, DropSender
<1>w. waker = "mine"
  BY <1>r DEF WakeInv, WakerStays
<1>1. CASE SendAdd(s)
  <2>1. spc'[s] = "tag"
    BY <1>1 DEF SendAdd, ChInv, ChTypeOK
  <2>2. QED
    BY <2>1 DEF WakeComing
<1>2. CASE ~SendAdd(s)
  <2>0. queue_cnt' = queue_cnt
    BY <1>2 DEF Send, SenderStep, SendOk, SendErr, SendAdd, SendTag, SendTagFull, SendWake, DropSender
  <2>1. woken \/ WakeComing
    BY <1>r, <1>w, <2>0 DEF WakeInv, WakeInFlight
  <2>2. CASE Send(s) \/ SendOk(s) \/ SendErr(s) \/ DropSender(s)
    <3>1. spc[s] \notin {"tag", "wake"}
      BY <2>2 DEF Send, SendOk, SendErr, DropSender
    <3>2. UNCHANGED <<tag_buffer, mio_wake, reactor, tag>>
      BY <2>2 DEF Send, SendOk, SendErr, DropSender
    <3>3. WakeComing => WakeComing'
      BY <1>0, <3>1, <3>2 DEF WakeComing
    <3>4. QED
      BY <1>r, <2>1, <3>3
  <2>3. CASE SendTag(s)
    <3>1. spc'[s] = "wake"
      BY <2>3 DEF SendTag, ChInv, ChTypeOK
    <3>2. tag_buffer' = Append(tag_buffer, "chan") /\ tag_buffer \in Seq({"chan", "other"})
      BY <2>3 DEF SendTag, ChInv, ChTypeOK
    <3>3. Len(tag_buffer') \in 1 .. Len(tag_buffer') /\ tag_buffer'[Len(tag_buffer')] = "chan"
      BY <3>2
    <3>4. QED
      BY <3>1, <3>3 DEF WakeComing
  <2>4. CASE SendTagFull(s)
    <3>1. OwnTag
      BY <2>4 DEF SendTagFull, OwnTagWhenFull, OwnTag
    <3>2. UNCHANGED <<tag_buffer, mio_wake, reactor, tag>> /\ spc[s] # "wake"
      BY <2>4 DEF SendTagFull
    <3>3. mio_wake \/ reactor # "poll" \/ \E u \in Senders \ {s} : spc[u] = "wake"
      BY <3>1, <3>2 DEF WakeInv, TagsSignalled
    <3>4. QED
      BY <1>0, <3>1, <3>2, <3>3 DEF WakeComing, OwnTag
  <2>5. CASE SendWake(s)
    <3>1. mio_wake' /\ UNCHANGED <<tag_buffer, reactor, tag>> /\ spc[s] = "wake"
      BY <2>5 DEF SendWake
    <3>2. WakeComing => WakeComing'
      BY <1>0, <3>1 DEF WakeComing
    <3>3. QED
      BY <1>r, <2>1, <3>2
  <2>6. QED
    BY <1>2, <2>2, <2>3, <2>4, <2>5 DEF SenderStep
<1>3. QED
  BY <1>1, <1>2

\* A new handle is idle and owes no wake-up.
LEMMA CloneWakes ==
  ASSUME ChInv, WakeInv, NEW s \in Senders, NEW new \in Senders, CloneSender(s, new)
  PROVE  WakeInv'
<1>0. /\ \A u \in Senders \ {new} : spc'[u] = spc[u]
      /\ spc[new] = "none"
      /\ UNCHANGED <<tag_buffer, mio_wake, reactor, tag, waker, moved, rpc, woken, queue_cnt>>
  BY DEF CloneSender, SGoto, ChInv, ChTypeOK, recvvars, reactorvars, history
<1>1. TagsSignalled' /\ WakerStays'
  BY <1>0 DEF WakeInv, TagsSignalled, OwnTag, WakerStays
<1>2. WakeComing => WakeComing'
  BY <1>0 DEF WakeComing
<1>3. QED
  BY <1>0, <1>1, <1>2 DEF WakeInv, WakeInFlight

\* The receiver parks only after it has read a count of zero, and a poll that uses up a
\* wake-up reads the count again.
LEMMA ReceiverWakes ==
  ASSUME ChInv, WakeInv, ReceiverMoves
  PROVE  WakeInv'
<1> USE DEF RGoto, history
<1>0. UNCHANGED <<spc, tag_buffer, mio_wake, reactor, tag>>
  BY DEF ReceiverMoves, Recv, ReceiverStep, LoadZero, LoadSome, StoreWaker, Repoll, TakeMessage,
         RecvOk, CancelRecv, PollElsewhere, DropReceiver, TryRecv, MoveReceiver, sendvars, reactorvars
<1>1. TagsSignalled'
  BY <1>0 DEF WakeInv, TagsSignalled, OwnTag
<1>2. WakerStays'
  BY DEF WakeInv, WakerStays, ReceiverMoves, Recv, ReceiverStep, LoadZero, LoadSome, StoreWaker,
         Repoll, TakeMessage, RecvOk, CancelRecv, PollElsewhere, DropReceiver, TryRecv, MoveReceiver
<1>3. WakeInFlight'
  <2>1. WakeComing => WakeComing'
    BY <1>0 DEF WakeComing
  <2>2. CASE LoadZero
    BY <2>2 DEF LoadZero, WakeInFlight
  <2>3. CASE StoreWaker
    <3>1. waker' = "mine" /\ rpc = "store" /\ UNCHANGED <<queue_cnt, woken, moved>>
      BY <2>3 DEF StoreWaker
    <3>2. QED
      BY <2>1, <3>1 DEF WakeInv, WakerStays, WakeInFlight
  <2>4. CASE Recv \/ LoadSome \/ Repoll \/ TakeMessage \/ RecvOk \/ CancelRecv \/ DropReceiver
    <3>1. rpc' \notin {"store", "pending"}
      BY <2>4 DEF Recv, LoadSome, Repoll, TakeMessage, RecvOk, CancelRecv, DropReceiver
    <3>2. QED
      BY <3>1 DEF WakeInFlight
  <2>5. CASE PollElsewhere \/ TryRecv \/ MoveReceiver
    <3>1. rpc' = "out"
      BY <2>5 DEF PollElsewhere, TryRecv, MoveReceiver
    <3>2. QED
      BY <3>1 DEF WakeInFlight
  <2>6. QED
    BY <2>2, <2>3, <2>4, <2>5 DEF ReceiverMoves, ReceiverStep
<1>4. QED
  BY <1>1, <1>2, <1>3 DEF WakeInv

\* The reactor drops no tag between the buffer and the lookup, and does not poll again
\* before the buffer is empty.
LEMMA ReactorWakes ==
  ASSUME ChInv, WakeInv, ReactorStep \/ OtherTag \/ OtherWake
  PROVE  WakeInv'
<1> USE DEF recvvars, sendvars, history
<1>0. UNCHANGED <<spc, rpc, queue_cnt, moved, waker>>
  BY DEF ReactorStep, ReactorPoll, PopTag, PopNoTag, WakeTag, OtherTag, OtherWake
<1>s. tag_buffer \in Seq({"chan", "other"})
  BY DEF ChInv, ChTypeOK
<1>1. WakerStays'
  BY <1>0 DEF WakeInv, WakerStays
<1>2. TagsSignalled'
  <2>1. CASE ReactorPoll \/ PopTag \/ WakeTag \/ OtherWake
    BY <2>1 DEF TagsSignalled, ReactorPoll, PopTag, WakeTag, OtherWake
  <2>2. CASE PopNoTag
    <3>1. tag_buffer' = <<>>
      BY <2>2 DEF PopNoTag
    <3>2. QED
      BY <3>1 DEF TagsSignalled, OwnTag
  <2>3. CASE OtherTag
    <3>1. tag_buffer' = Append(tag_buffer, "other") /\ UNCHANGED <<mio_wake, reactor>>
      BY <2>3 DEF OtherTag
    <3>2. OwnTag' => OwnTag
      BY <1>s, <3>1 DEF OwnTag
    <3>3. QED
      BY <1>0, <3>1, <3>2 DEF WakeInv, TagsSignalled
  <2>4. QED
    BY <2>1, <2>2, <2>3 DEF ReactorStep
<1>3. WakeInFlight'
  <2> SUFFICES ASSUME rpc \in {"store", "pending"}, ~moved, waker = "mine", queue_cnt > 0
               PROVE  woken' \/ WakeComing'
    BY <1>0 DEF WakeInFlight
  <2>0. woken \/ WakeComing
    BY DEF WakeInv, WakeInFlight
  <2>1. CASE ReactorPoll
    <3>1. reactor' = "drain" /\ reactor = "poll" /\ UNCHANGED <<tag_buffer, woken>>
      BY <2>1 DEF ReactorPoll
    <3>2. QED
      BY <1>0, <2>0, <3>1 DEF WakeComing
  <2>2. CASE PopTag
    <3>1. /\ tag' = Head(tag_buffer) /\ tag_buffer' = Tail(tag_buffer) /\ tag_buffer # <<>>
          /\ reactor = "drain" /\ reactor' = "lookup" /\ UNCHANGED woken
      BY <2>2 DEF PopTag
    <3>2. ASSUME NEW i \in 1 .. Len(tag_buffer), tag_buffer[i] = "chan" PROVE WakeComing'
      <4>1. CASE i = 1
        BY <3>1, <3>2, <4>1 DEF WakeComing
      <4>2. CASE i # 1
        <5>1. i - 1 \in 1 .. Len(tag_buffer') /\ tag_buffer'[i - 1] = "chan"
          BY <1>s, <3>1, <3>2, <4>2
        <5>2. QED
          BY <3>1, <5>1 DEF WakeComing
      <4>3. QED
        BY <4>1, <4>2
    <3>3. QED
      BY <1>0, <2>0, <3>1, <3>2 DEF WakeComing
  <2>3. CASE PopNoTag
    <3>1. /\ reactor = "drain" /\ Len(tag_buffer) = 0
          /\ UNCHANGED woken
      BY <2>3 DEF PopNoTag
    <3>2. QED
      BY <1>0, <2>0, <3>1 DEF WakeComing
  <2>4. CASE WakeTag
    <3>1. /\ reactor = "lookup" /\ reactor' = "drain" /\ tag_buffer' = tag_buffer
          /\ woken' = IF tag = "chan" /\ waker = "mine" THEN TRUE ELSE woken
      BY <2>4 DEF WakeTag
    <3>2. QED
      BY <1>0, <2>0, <3>1 DEF WakeComing
  <2>5. CASE OtherTag
    <3>1. /\ tag_buffer' = Append(tag_buffer, "other")
          /\ UNCHANGED <<mio_wake, reactor, tag, woken>>
      BY <2>5 DEF OtherTag
    <3>2. \A i \in 1 .. Len(tag_buffer) : i \in 1 .. Len(tag_buffer') /\ tag_buffer'[i] = tag_buffer[i]
      BY <1>s, <3>1
    <3>3. QED
      BY <1>0, <2>0, <3>1, <3>2 DEF WakeComing
  <2>6. CASE OtherWake
    <3>1. mio_wake' /\ UNCHANGED <<tag_buffer, reactor, tag, woken>>
      BY <2>6 DEF OtherWake
    <3>2. QED
      BY <1>0, <2>0, <3>1 DEF WakeComing
  <2>7. QED
    BY <2>1, <2>2, <2>3, <2>4, <2>5, <2>6 DEF ReactorStep
<1>4. QED
  BY <1>1, <1>2, <1>3 DEF WakeInv

\* While a full tag buffer holds a tag of this channel, wake-ups are kept.
LEMMA WakeInvStep == ChInv /\ WakeInv /\ OwnTagWhenFull /\ [ChNext]_vars => WakeInv'
<1> SUFFICES ASSUME ChInv, WakeInv, OwnTagWhenFull, [ChNext]_vars PROVE WakeInv'
  OBVIOUS
<1>1. ASSUME NEW s \in Senders, Send(s) \/ SenderStep(s) \/ DropSender(s) PROVE WakeInv'
  BY <1>1, SenderSignals, SenderWakes DEF WakeInv
<1>2. ASSUME NEW s \in Senders, NEW new \in Senders, CloneSender(s, new) PROVE WakeInv'
  BY <1>2, CloneWakes
<1>3. CASE ReceiverMoves
  BY <1>3, ReceiverWakes
<1>4. CASE ReactorStep \/ OtherTag \/ OtherWake
  BY <1>4, ReactorWakes
<1>5. CASE UNCHANGED vars
  BY <1>5 DEF vars, WakeInv, TagsSignalled, OwnTag, WakerStays, WakeInFlight, WakeComing
<1>6. QED
  BY <1>1, <1>2, <1>3, <1>4, <1>5 DEF ChNext, ReceiverMoves

\* Once parked, a receiver that stays in its task does not sleep on a counted message, as
\* long as a full tag buffer holds a tag of this channel: reactor.rs looks a tag up after
\* the count is raised, and the waker is never taken out of reactor_tags.
THEOREM ChannelWakes == ParkedSpec /\ []OwnTagWhenFull => []WakeInFlight
<1>1. WakeInv => WakeInFlight
  BY DEF WakeInv
<1>2. QED
  BY <1>1, WakeInvInit, WakeInvStep, ChInvAlways, ChStarts, PTL DEF ParkedSpec

\* The tags after the last one of this channel were registered by others.
ForeignTail ==
  \A i \in 0 .. Len(tag_buffer) :
    (\A j \in i + 1 .. Len(tag_buffer) : tag_buffer[j] = "other") => Len(tag_buffer) - i <= others

\* A tag behind the last one of this channel is a registration counted in others.
LEMMA ForeignTailStep == ChInv /\ ForeignTail /\ [ChNext]_vars => ForeignTail'
<1> SUFFICES ASSUME ChInv, ForeignTail, [ChNext]_vars,
                    NEW i \in 0 .. Len(tag_buffer'),
                    \A j \in i + 1 .. Len(tag_buffer') : tag_buffer'[j] = "other"
             PROVE  Len(tag_buffer') - i <= others'
  BY DEF ForeignTail
<1>t. /\ tag_buffer \in Seq({"chan", "other"}) /\ Len(tag_buffer) \in Nat
      /\ others \in Nat
  BY ChannelAssumption DEF ChInv, ChTypeOK
<1>1. CASE UNCHANGED <<tag_buffer, others>>
  BY <1>1 DEF ForeignTail
<1>2. CASE tag_buffer' = Append(tag_buffer, "chan") /\ others' = others
  <2>1. Len(tag_buffer') = Len(tag_buffer) + 1 /\ tag_buffer'[Len(tag_buffer')] = "chan"
    BY <1>t, <1>2
  <2>2. i = Len(tag_buffer')
    BY <1>t, <2>1
  <2>3. QED
    BY <1>t, <1>2, <2>1, <2>2
<1>3. CASE OtherTag
  <2>1. /\ tag_buffer' = Append(tag_buffer, "other") /\ others' = others + 1
        /\ Len(tag_buffer') = Len(tag_buffer) + 1
        /\ \A j \in 1 .. Len(tag_buffer) : tag_buffer'[j] = tag_buffer[j]
    BY <1>t, <1>3 DEF OtherTag
  <2>2. CASE i = Len(tag_buffer')
    BY <1>t, <2>1, <2>2
  <2>3. CASE i # Len(tag_buffer')
    <3>1. i \in 0 .. Len(tag_buffer) /\ \A j \in i + 1 .. Len(tag_buffer) : tag_buffer[j] = "other"
      BY <1>t, <2>1, <2>3
    <3>2. Len(tag_buffer) - i <= others
      BY <3>1 DEF ForeignTail
    <3>3. QED
      BY <1>t, <2>1, <3>2
  <2>4. QED
    BY <2>2, <2>3
<1>4. CASE PopTag
  <2>1. /\ tag_buffer' = Tail(tag_buffer) /\ others' = others /\ tag_buffer # <<>>
        /\ Len(tag_buffer') = Len(tag_buffer) - 1
        /\ \A j \in 1 .. Len(tag_buffer') : tag_buffer'[j] = tag_buffer[j + 1]
    BY <1>t, <1>4 DEF PopTag
  <2>2. \A j \in (i + 1) + 1 .. Len(tag_buffer) : tag_buffer[j] = "other"
    <3> TAKE j \in (i + 1) + 1 .. Len(tag_buffer)
    <3>1. j - 1 \in i + 1 .. Len(tag_buffer') /\ j - 1 \in 1 .. Len(tag_buffer')
      BY <1>t, <2>1
    <3>2. tag_buffer'[j - 1] = "other" /\ tag_buffer'[j - 1] = tag_buffer[(j - 1) + 1]
      BY <2>1, <3>1
    <3>3. (j - 1) + 1 = j
      BY <1>t
    <3>4. QED
      BY <3>2, <3>3
  <2>3. i + 1 \in 0 .. Len(tag_buffer)
    BY <1>t, <2>1
  <2>4. Len(tag_buffer) - (i + 1) <= others
    BY <2>2, <2>3 DEF ForeignTail
  <2>5. QED
    BY <1>t, <2>1, <2>4
<1>5. ASSUME NEW s \in Senders, Send(s) \/ SenderStep(s) \/ DropSender(s)
      PROVE  UNCHANGED <<tag_buffer, others>> \/ (tag_buffer' = Append(tag_buffer, "chan") /\ others' = others)
  BY <1>5 DEF Send, SenderStep, SendOk, SendErr, SendAdd, SendTag, SendTagFull, SendWake, DropSender,
              reactorvars
<1>6. ASSUME NEW s \in Senders, NEW new \in Senders, CloneSender(s, new)
      PROVE  UNCHANGED <<tag_buffer, others>>
  BY <1>6 DEF CloneSender, reactorvars
<1>7. ASSUME ReceiverMoves PROVE UNCHANGED <<tag_buffer, others>>
  BY <1>7 DEF ReceiverMoves, Recv, ReceiverStep, LoadZero, LoadSome, StoreWaker, Repoll, TakeMessage,
              RecvOk, CancelRecv, PollElsewhere, DropReceiver, TryRecv, MoveReceiver, reactorvars
<1>8. ASSUME ReactorPoll \/ PopNoTag \/ WakeTag \/ OtherWake PROVE UNCHANGED <<tag_buffer, others>>
  BY <1>8 DEF ReactorPoll, PopNoTag, WakeTag, OtherWake
<1>9. ASSUME UNCHANGED vars PROVE UNCHANGED <<tag_buffer, others>>
  BY <1>9 DEF vars
<1>10. QED
  BY <1>1, <1>2, <1>3, <1>4, <1>5, <1>6, <1>7, <1>8, <1>9, Zenon DEF ChNext, ReceiverMoves, ReactorStep

\* With fewer registrations by others than the tag buffer has places (1024 * 1024 in
\* runtime.rs), a push that fails leaves a tag of this channel behind, and no wake-up is lost.
THEOREM ChannelWakesBelowTagBound ==
  ASSUME MaxOthers < TagBound
  PROVE  ParkedSpec => []WakeInFlight
<1>1. ParkedInit => ForeignTail
  BY DEF ParkedInit, ForeignTail
<1>2. ChInv /\ ForeignTail => OwnTagWhenFull
  <2> SUFFICES ASSUME ChInv, ForeignTail, Len(tag_buffer) = TagBound, ~OwnTag PROVE FALSE
    BY DEF OwnTagWhenFull
  <2>1. /\ tag_buffer \in Seq({"chan", "other"}) /\ others <= MaxOthers /\ others \in Nat
        /\ TagBound \in Nat /\ MaxOthers \in Nat
    BY ChannelAssumption DEF ChInv, ChTypeOK
  <2>2. \A j \in 0 + 1 .. Len(tag_buffer) : tag_buffer[j] = "other"
    BY <2>1 DEF OwnTag
  <2>3. Len(tag_buffer) - 0 <= others
    BY <2>1, <2>2 DEF ForeignTail
  <2>4. QED
    BY <2>1, <2>3
<1>3. QED
  BY <1>1, <1>2, ForeignTailStep, ChannelWakes, ChInvAlways, ChStarts, PTL DEF ParkedSpec

=============================================================================
