------------------------------- MODULE Reactor -------------------------------
(***************************************************************************)
(* The readiness half of src/src/reactor.rs: the table statuses, the       *)
(* operations on it and the token branch of run, over an edge-triggered    *)
(* mio::Poll.  Every access to statuses is under its mutex.  A waker is    *)
(* the task it wakes; waking a task queues it to be polled (Runtime).      *)
(***************************************************************************)
EXTENDS Naturals, FiniteSets

CONSTANTS Tasks,   \* tasks that may wait for a token
          Tokens   \* what unique_token has given out

ASSUME ReactorAssumption ==
  /\ "vacant" \notin Tasks /\ "happened" \notin Tasks

VARIABLES statuses,  \* statuses[k]: "vacant", "happened", or the task of Awaited
          edge,      \* tokens whose event mio has not returned yet
          batch,     \* tokens of the events the reactor has in hand
          woken      \* tasks that are queued to be polled

reactorvars == <<statuses, edge, batch, woken>>

\* Reactor::get, and tokens whose sources were ready when they were registered.
ReactorInit(ready) ==
  /\ statuses = [k \in Tokens |-> "vacant"]
  /\ edge = ready /\ batch = {} /\ woken = {}

-----------------------------------------------------------------------------
(* Parts of a poll; the actions of Readiness say what else changes. *)

\* status_store
StatusStore(k, t) == statuses' = [statuses EXCEPT ![k] = t]

\* has_token_progressed
HasTokenProgressed(k) == statuses[k] = "happened"

\* Mutant: an occupied entry is left as it is.
ReactorPollPendingFirst(k, t) ==
  /\ statuses[k] # "happened"
  /\ statuses' = IF statuses[k] = "vacant" THEN [statuses EXCEPT ![k] = t] ELSE statuses

\* Reactor::poll is Pending: the entry becomes, or already is, Awaited by t.
ReactorPollPending(k, t) ==
  /\ statuses[k] # "happened"
  /\ statuses' = [statuses EXCEPT ![k] = t]

\* Reactor::poll is Ready: the entry is removed.
ReactorPollReady(k) ==
  /\ statuses[k] = "happened"
  /\ statuses' = [statuses EXCEPT ![k] = "vacant"]

-----------------------------------------------------------------------------
(* The reactor's thread: run *)

\* poll.poll(&mut events, None) returns the events that are there.
ReactorPoll ==
  /\ batch = {} /\ edge # {}
  /\ batch' = edge /\ edge' = {}
  /\ UNCHANGED <<statuses, woken>>

\* The token branch: Happened is inserted and the waker found there is woken.
HandleEvent(k) ==
  /\ k \in batch
  /\ batch' = batch \ {k}
  /\ statuses' = [statuses EXCEPT ![k] = "happened"]
  /\ woken' = woken \cup ({statuses[k]} \cap Tasks)
  /\ UNCHANGED edge

ReactorStep == ReactorPoll \/ \E k \in Tokens : HandleEvent(k)

=============================================================================
