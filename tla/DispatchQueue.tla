--------------------------- MODULE DispatchQueue ---------------------------
(***************************************************************************)
(* The in-memory dispatch queue (internal/dispatch/queue.go): a buffered   *)
(* channel of pending specs, a mutex-guarded in-flight map, and a          *)
(* dead-letter list.  The methods are not atomic: each operator below is   *)
(* one channel operation or one critical section of q.mu, and the module   *)
(* that composes the queue with its callers (Dispatcher) decides how the   *)
(* steps of concurrent calls interleave.                                   *)
(***************************************************************************)
EXTENDS Naturals, Sequences, FiniteSets

CONSTANTS
    ExecutionIDs,   \* identities of the specs that callers enqueue
    BufferSize,     \* WithBufferSize: capacity of the pending channel
    MaxAttempts     \* WithMaxAttempts: the retry cap

ASSUME QueueAssumption ==
    /\ IsFiniteSet(ExecutionIDs)
    /\ BufferSize \in Nat \ {0}
    /\ MaxAttempts \in Nat \ {0}

VARIABLES
    pending,    \* the channel: a sequence of specs, oldest first
    inFlight,   \* the in-flight map: the attempt stored under an id, 0 if none
    dlq,        \* the dead-letter list
    dropped,    \* the counter behind DroppedCount
    closed,     \* the flag that Close sets under q.mu
    closeCh,    \* TRUE once Close has closed the channel of that name
    enq         \* per id: where the Enqueue call for it is

queueVars == <<pending, inFlight, dlq, dropped, closed, closeCh, enq>>

\* What a spec carries, as far as the queue is concerned.
Specs == [id : ExecutionIDs, attempt : Nat \ {0}]

EnqStates == {"new", "sending", "accepted", "rejected"}

QueueInit ==
    /\ pending = <<>>
    /\ inFlight = [id \in ExecutionIDs |-> 0]
    /\ dlq = <<>>
    /\ dropped = 0
    /\ closed = FALSE
    /\ closeCh = FALSE
    /\ enq = [id \in ExecutionIDs |-> "new"]

HasRoom == Len(pending) < BufferSize

(***************************************************************************)
(* Enqueue.  A caller whose call was refused may call again.  Callers      *)
(* submit attempt 1 (service.CreateExecution, AgentFactory.SpawnAgent).    *)
(***************************************************************************)

\* The valid spec is checked against the closed flag, under q.mu.
EnqueueCheck(id) ==
    /\ enq[id] \in {"new", "rejected"}
    /\ enq' = [enq EXCEPT ![id] = IF closed THEN "rejected" ELSE "sending"]
    /\ UNCHANGED <<pending, inFlight, dlq, dropped, closed, closeCh>>

\* The select sends; it may do so after Close, the flag being read earlier.
EnqueueSend(id) ==
    /\ enq[id] = "sending"
    /\ HasRoom
    /\ pending' = Append(pending, [id |-> id, attempt |-> 1])
    /\ enq' = [enq EXCEPT ![id] = "accepted"]
    /\ UNCHANGED <<inFlight, dlq, dropped, closed, closeCh>>

\* The select takes another branch: the buffer is full (WithNonBlocking),
\* closeCh is closed (otherwise), or - at any time - the caller's context is
\* done, so that the option makes no difference to what callers may see.
EnqueueGiveUp(id) ==
    /\ enq[id] = "sending"
    /\ enq' = [enq EXCEPT ![id] = "rejected"]
    /\ UNCHANGED <<pending, inFlight, dlq, dropped, closed, closeCh>>

(***************************************************************************)
(* Dequeue: the receive and the in-flight insertion are two steps.         *)
(***************************************************************************)
Receive ==
    /\ pending # <<>>
    /\ pending' = Tail(pending)
    /\ UNCHANGED <<inFlight, dlq, dropped, closed, closeCh, enq>>

\* The closeCh branch found nothing left to drain: ErrQueueClosed.
Drained == closeCh /\ pending = <<>>

StoreInFlight(spec) ==
    /\ inFlight' = [inFlight EXCEPT ![spec.id] = spec.attempt]
    /\ UNCHANGED <<pending, dlq, dropped, closed, closeCh, enq>>

(***************************************************************************)
(* Ack and Nack.                                                           *)
(***************************************************************************)
IsInFlight(spec) == inFlight[spec.id] # 0

RemoveInFlight(spec) ==
    /\ inFlight' = [inFlight EXCEPT ![spec.id] = 0]
    /\ UNCHANGED <<pending, dlq, dropped, closed, closeCh, enq>>

\* What the first critical section of Nack decides for an in-flight spec.
MayRetry(spec) == ~closed /\ spec.attempt < MaxAttempts

\* Mistake: the retry keeps its attempt number.
RetrySameAttempt(spec) == [spec EXCEPT !.attempt = @ + 0]

Retry(spec) == [spec EXCEPT !.attempt = @ + 1]

\* The dead-letter branch, for a closed queue or an exhausted spec.
DeadLetter(spec) ==
    /\ inFlight' = [inFlight EXCEPT ![spec.id] = 0]
    /\ dropped' = dropped + 1
    /\ dlq' = Append(dlq, spec)
    /\ UNCHANGED <<pending, closed, closeCh, enq>>

\* The send of the retry; it waits for room, whatever Close has done.
SendRetry(spec) ==
    /\ HasRoom
    /\ pending' = Append(pending, spec)
    /\ UNCHANGED <<inFlight, dlq, dropped, closed, closeCh, enq>>

(***************************************************************************)
(* Close: the flag is set under q.mu, the channel closed after it.         *)
(***************************************************************************)
CloseMark ==
    /\ ~closed
    /\ closed' = TRUE
    /\ UNCHANGED <<pending, inFlight, dlq, dropped, closeCh, enq>>

CloseSignal ==
    /\ closed
    /\ ~closeCh
    /\ closeCh' = TRUE
    /\ UNCHANGED <<pending, inFlight, dlq, dropped, closed, enq>>

QueueNext ==
    \/ \E id \in ExecutionIDs :
          EnqueueCheck(id) \/ EnqueueSend(id) \/ EnqueueGiveUp(id)
    \/ CloseMark
    \/ CloseSignal

QueueTypeOK ==
    /\ pending \in Seq(Specs)
    /\ Len(pending) <= BufferSize
    /\ inFlight \in [ExecutionIDs -> Nat]
    /\ dlq \in Seq(Specs)
    /\ dropped \in Nat
    /\ closed \in BOOLEAN
    /\ closeCh \in BOOLEAN
    /\ enq \in [ExecutionIDs -> EnqStates]
=============================================================================
