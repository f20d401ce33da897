---------------------------- MODULE Dispatcher ----------------------------
(***************************************************************************)
(* The dispatcher (internal/dispatch/dispatcher.go): a pool of worker      *)
(* goroutines that dequeue specs, drive each through runtime.Spawn and     *)
(* runtime.Wait, and ack or nack it; composed with the dispatch queue, its *)
(* enqueuing callers, and the callers of Start, Stop and Close.            *)
(*                                                                         *)
(* A worker is a pair <<generation, index>>: every effective Start creates *)
(* the workers of a new generation under a context of its own.             *)
(***************************************************************************)
EXTENDS DispatchQueue

CONSTANTS
    NumWorkers,     \* the workers argument of Start
    MaxStarts,      \* bound: effective Start calls
    Stoppers        \* goroutines that call Stop, once each

ASSUME DispatcherAssumption ==
    /\ NumWorkers \in Nat \ {0}
    /\ MaxStarts \in Nat \ {0}

Generations == 1..MaxStarts
Workers == Generations \X (1..NumWorkers)
Gen(w) == w[1]

VARIABLES
    running,    \* d.running
    gen,        \* number of effective Start calls; the last one owns d.cancel
    ctxDone,    \* the generations whose worker context is cancelled
    pc,         \* per worker: the next step of workerLoop / handleSpec
    spec,       \* per worker: the spec in its hands (NoSpec if none)
    stats,      \* d.stats
    stopPc,     \* per Stop caller: where its call is
    stopGen,    \* per Stop caller: the generation whose cancel it captured
    acked,      \* history: ids removed from the in-flight map by Ack
    spawns      \* history: the <<id, attempt>> pairs given to runtime.Spawn

dispVars == <<running, gen, ctxDone, pc, spec, stats, stopPc, stopGen, acked, spawns>>
vars == <<queueVars, dispVars>>

NoSpec == [id |-> "none", attempt |-> 0]

\* Steps at which the worker still stands in for the spec it has in its hands,
\* with the spec in the in-flight map ...
Driving == {"spawn", "wait", "ack", "nack", "remove", "drop"}
\* ... and out of it: between the receive and the insertion, and between the
\* removal and the send of the retry.
Carrying == {"register", "requeue"}
Recording == {"recordDropped", "recordRetried"}
WorkerPC == {"off", "starting", "loop", "dequeue", "exitClosed", "exitCtx"}
               \cup Driving \cup Carrying \cup Recording

Exited(w) == pc[w] \in {"exitClosed", "exitCtx"}
\* A worker counts in d.wg from the wg.Add in Start to its deferred wg.Done.
Live(w) == pc[w] \notin {"off", "starting"} /\ ~Exited(w)

StopPC == {"idle", "cancel", "waiting", "ok", "timeout"}

Init ==
    /\ QueueInit
    /\ running = FALSE
    /\ gen = 0
    /\ ctxDone = {}
    /\ pc = [w \in Workers |-> "off"]
    /\ spec = [w \in Workers |-> NoSpec]
    /\ stats = [Spawned |-> 0, Completed |-> 0, Failed |-> 0,
                Cancelled |-> 0, Retries |-> 0, Dropped |-> 0]
    /\ stopPc = [c \in Stoppers |-> "idle"]
    /\ stopGen = [c \in Stoppers |-> 0]
    /\ acked = {}
    /\ spawns = {}

Goto(w, l) == pc' = [pc EXCEPT ![w] = l]

\* The worker is back at the top of its loop with empty hands.
Release(w) ==
    /\ Goto(w, "loop")
    /\ spec' = [spec EXCEPT ![w] = NoSpec]

Count(counters) ==
    stats' = [k \in DOMAIN stats |->
                IF k \in counters THEN stats[k] + 1 ELSE stats[k]]

controlVars == <<running, gen, ctxDone, stopPc, stopGen>>

(***************************************************************************)
(* Start and Stop.                                                         *)
(***************************************************************************)

\* The critical section of Start.  A call that finds running set returns nil
\* without effect.
Start ==
    /\ ~running
    /\ gen < MaxStarts
    /\ running' = TRUE
    /\ gen' = gen + 1
    /\ pc' = [w \in Workers |-> IF Gen(w) = gen + 1 THEN "starting" ELSE pc[w]]
    /\ UNCHANGED <<queueVars, ctxDone, spec, stats, stopPc, stopGen, acked, spawns>>

\* One round of the loop after it: wg.Add(1) and the go statement.
Launch(w) ==
    /\ pc[w] = "starting"
    /\ \A v \in Workers : Gen(v) = Gen(w) /\ v[2] < w[2] => pc[v] # "starting"
    /\ Goto(w, "loop")
    /\ UNCHANGED <<queueVars, controlVars, spec, stats, acked, spawns>>

\* The context given to Start is cancelled by its owner.
CancelContext(g) ==
    /\ g <= gen
    /\ g \notin ctxDone
    /\ ctxDone' = ctxDone \cup {g}
    /\ UNCHANGED <<queueVars, running, gen, pc, spec, stats, stopPc, stopGen, acked, spawns>>

\* The critical section of Stop: returns nil at once when not running.
StopMark(c) ==
    /\ stopPc[c] = "idle"
    /\ running' = FALSE
    /\ stopPc' = [stopPc EXCEPT ![c] = IF running THEN "cancel" ELSE "ok"]
    /\ stopGen' = [stopGen EXCEPT ![c] = IF running THEN gen ELSE 0]
    /\ UNCHANGED <<queueVars, gen, ctxDone, pc, spec, stats, acked, spawns>>

StopCancel(c) ==
    /\ stopPc[c] = "cancel"
    /\ ctxDone' = ctxDone \cup {stopGen[c]}
    /\ stopPc' = [stopPc EXCEPT ![c] = "waiting"]
    /\ UNCHANGED <<queueVars, running, gen, pc, spec, stats, stopGen, acked, spawns>>

\* wg.Wait has returned.
StopDone(c) ==
    /\ stopPc[c] = "waiting"
    /\ \A w \in Workers : ~Live(w)
    /\ stopPc' = [stopPc EXCEPT ![c] = "ok"]
    /\ UNCHANGED <<queueVars, running, gen, ctxDone, pc, spec, stats, stopGen, acked, spawns>>

\* The context of the Stop call is done first.
StopTimeout(c) ==
    /\ stopPc[c] = "waiting"
    /\ stopPc' = [stopPc EXCEPT ![c] = "timeout"]
    /\ UNCHANGED <<queueVars, running, gen, ctxDone, pc, spec, stats, stopGen, acked, spawns>>

(***************************************************************************)
(* workerLoop.                                                             *)
(***************************************************************************)
LoopTop(w) ==
    /\ pc[w] = "loop"
    /\ Goto(w, IF Gen(w) \in ctxDone THEN "exitCtx" ELSE "dequeue")
    /\ UNCHANGED <<queueVars, controlVars, spec, stats, acked, spawns>>

Dequeue(w) ==
    /\ pc[w] = "dequeue"
    /\ Receive
    /\ spec' = [spec EXCEPT ![w] = Head(pending)]
    /\ Goto(w, "register")
    /\ UNCHANGED <<controlVars, stats, acked, spawns>>

DequeueCtx(w) ==
    /\ pc[w] = "dequeue"
    /\ Gen(w) \in ctxDone
    /\ Goto(w, "exitCtx")
    /\ UNCHANGED <<queueVars, controlVars, spec, stats, acked, spawns>>

DequeueClosed(w) ==
    /\ pc[w] = "dequeue"
    /\ Drained
    /\ Goto(w, "exitClosed")
    /\ UNCHANGED <<queueVars, controlVars, spec, stats, acked, spawns>>

Register(w) ==
    /\ pc[w] = "register"
    /\ StoreInFlight(spec[w])
    /\ Goto(w, "spawn")
    /\ UNCHANGED <<controlVars, spec, stats, acked, spawns>>

(***************************************************************************)
(* handleSpec.  The runtime is free to fail a Spawn, to fail a Wait, and   *)
(* to report any terminal status.                                          *)
(***************************************************************************)
Spawn(w) ==
    /\ pc[w] = "spawn"
    /\ \/ Count({"Spawned"}) /\ Goto(w, "wait")
       \/ Count({"Spawned", "Failed"}) /\ Goto(w, "nack")
    /\ spawns' = spawns \cup {<<spec[w].id, spec[w].attempt>>}
    /\ UNCHANGED <<queueVars, controlVars, spec, acked>>

\* Wait returned a terminal result.
WaitResult(w) ==
    /\ pc[w] = "wait"
    /\ \/ Count({"Completed"}) /\ Goto(w, "ack")
       \/ Count({"Failed"}) /\ Goto(w, "nack")
       \/ Count({"Cancelled"}) /\ Goto(w, "nack")
    /\ UNCHANGED <<queueVars, controlVars, spec, acked, spawns>>

\* Wait returned an error: the context is done or the runtime failed.
WaitError(w) ==
    /\ pc[w] = "wait"
    /\ Count({IF Gen(w) \in ctxDone THEN "Cancelled" ELSE "Failed"})
    /\ Goto(w, "nack")
    /\ UNCHANGED <<queueVars, controlVars, spec, acked, spawns>>

\* An unknown spec (ErrUnknownSpec) leaves the queue as it is.
Ack(w) ==
    /\ pc[w] = "ack"
    /\ \/ /\ IsInFlight(spec[w])
          /\ RemoveInFlight(spec[w])
          /\ acked' = acked \cup {spec[w].id}
       \/ /\ ~IsInFlight(spec[w])
          /\ UNCHANGED <<queueVars, acked>>
    /\ Release(w)
    /\ UNCHANGED <<controlVars, stats, spawns>>

\* Nack's first critical section.
NackRead(w) ==
    /\ pc[w] = "nack"
    /\ \/ /\ IsInFlight(spec[w])
          /\ Goto(w, IF MayRetry(spec[w]) THEN "remove" ELSE "drop")
          /\ UNCHANGED spec
       \/ /\ ~IsInFlight(spec[w])
          /\ Release(w)
    /\ UNCHANGED <<queueVars, controlVars, stats, acked, spawns>>

NackDrop(w) ==
    /\ pc[w] = "drop"
    /\ DeadLetter(spec[w])
    /\ Goto(w, "recordDropped")
    /\ spec' = [spec EXCEPT ![w] = NoSpec]
    /\ UNCHANGED <<controlVars, stats, acked, spawns>>

\* Mistake: the retry is sent with the old entry still in flight.
NackRemoveSkipped(w) ==
    /\ pc[w] = "remove"
    /\ spec' = [spec EXCEPT ![w] = Retry(@)]
    /\ Goto(w, "requeue")
    /\ UNCHANGED <<queueVars, controlVars, stats, acked, spawns>>

NackRemove(w) ==
    /\ pc[w] = "remove"
    /\ RemoveInFlight(spec[w])
    /\ spec' = [spec EXCEPT ![w] = Retry(@)]
    /\ Goto(w, "requeue")
    /\ UNCHANGED <<controlVars, stats, acked, spawns>>

NackRequeue(w) ==
    /\ pc[w] = "requeue"
    /\ SendRetry(spec[w])
    /\ Goto(w, "recordRetried")
    /\ spec' = [spec EXCEPT ![w] = NoSpec]
    /\ UNCHANGED <<controlVars, stats, acked, spawns>>

\* Mistake: a cancelled Nack forgets the retry it has taken out.
NackCtxForgets(w) ==
    /\ pc[w] = "requeue"
    /\ Gen(w) \in ctxDone
    /\ Release(w)
    /\ UNCHANGED <<queueVars, controlVars, stats, acked, spawns>>

\* Mistake: the select of Nack has no ctx.Done case.
NackCtxIgnored(w) ==
    /\ pc[w] = "requeue"
    /\ Gen(w) \in ctxDone
    /\ UNCHANGED vars

\* ctx.Done wins: the retry goes back into the in-flight map and Nack returns
\* an error, which handleSpec logs.
NackCtx(w) ==
    /\ pc[w] = "requeue"
    /\ Gen(w) \in ctxDone
    /\ StoreInFlight(spec[w])
    /\ Release(w)
    /\ UNCHANGED <<controlVars, stats, acked, spawns>>

\* Mistake: the outcome is counted the wrong way round.
recordNackResultSwapped(w) ==
    /\ pc[w] \in Recording
    /\ Count({IF pc[w] = "recordDropped" THEN "Retries" ELSE "Dropped"})
    /\ Goto(w, "loop")
    /\ UNCHANGED <<queueVars, controlVars, spec, acked, spawns>>

\* Mistake: the worker loop ends after a nacked spec.
recordNackResultReturns(w) ==
    /\ pc[w] \in Recording
    /\ Count({IF pc[w] = "recordDropped" THEN "Dropped" ELSE "Retries"})
    /\ Goto(w, "exitCtx")
    /\ UNCHANGED <<queueVars, controlVars, spec, acked, spawns>>

recordNackResult(w) ==
    /\ pc[w] \in Recording
    /\ Count({IF pc[w] = "recordDropped" THEN "Dropped" ELSE "Retries"})
    /\ Goto(w, "loop")
    /\ UNCHANGED <<queueVars, controlVars, spec, acked, spawns>>

WorkerStep(w) ==
    \/ LoopTop(w) \/ Dequeue(w) \/ DequeueCtx(w) \/ DequeueClosed(w)
    \/ Register(w) \/ Spawn(w) \/ WaitResult(w) \/ WaitError(w)
    \/ Ack(w) \/ NackRead(w) \/ NackDrop(w) \/ NackRemove(w)
    \/ NackRequeue(w) \/ NackCtx(w) \/ recordNackResult(w)

Next ==
    \/ QueueNext /\ UNCHANGED dispVars
    \/ Start
    \/ \E g \in Generations : CancelContext(g)
    \/ \E c \in Stoppers :
          StopMark(c) \/ StopCancel(c) \/ StopDone(c) \/ StopTimeout(c)
    \/ \E w \in Workers : Launch(w) \/ WorkerStep(w)

Spec == Init /\ [][Next]_vars

\* Goroutines that can step are eventually scheduled, Spawn returns, and every
\* Wait returns (a worker ends or the runtime's own timeout ends it).
Fairness ==
    /\ \A w \in Workers : WF_vars(Launch(w)) /\ WF_vars(WorkerStep(w))
    /\ WF_vars(CloseSignal /\ UNCHANGED dispVars)

FairSpec == Spec /\ Fairness

-----------------------------------------------------------------------------
(***************************************************************************)
(* Properties.                                                             *)
(***************************************************************************)

\* The state of the queue and of the dispatcher has the shape the Go types
\* give it, the channel never holds more than its capacity, and a worker has a
\* spec in its hands exactly while it handles one.
TypeOK ==
    /\ QueueTypeOK
    /\ running \in BOOLEAN
    /\ gen \in 0..MaxStarts
    /\ ctxDone \subseteq 0..MaxStarts
    /\ pc \in [Workers -> WorkerPC]
    /\ spec \in [Workers -> Specs \cup {NoSpec}]
    /\ \A w \in Workers : spec[w] \in Specs <=> pc[w] \in Driving \cup Carrying
    /\ stats \in [{"Spawned", "Completed", "Failed", "Cancelled", "Retries",
                   "Dropped"} -> Nat]
    /\ stopPc \in [Stoppers -> StopPC]
    /\ stopGen \in [Stoppers -> 0..MaxStarts]
    /\ acked \subseteq ExecutionIDs
    /\ spawns \subseteq ExecutionIDs \X (1..MaxAttempts)

Holds(w, id) == pc[w] \in Driving \cup Carrying /\ spec[w].id = id
InPending(id) == \E i \in 1..Len(pending) : pending[i].id = id
InDlq(id) == \E i \in 1..Len(dlq) : dlq[i].id = id
Held(id) == \E w \in Workers : Holds(w, id)
\* In the in-flight map with no worker left that will ack or nack it.
Stranded(id) == inFlight[id] # 0 /\ ~Held(id)
Settled(id) == id \in acked \/ InDlq(id)

\* No spec is lost: a spec whose Enqueue returned nil is waiting in the
\* channel, in the hands of a worker, in the in-flight map, dead-lettered or
\* acked, at every step of Dequeue, Ack and Nack.  One that is in the in-flight
\* map with nobody to ack it was left there by a worker whose context was
\* cancelled in the middle of a Nack; and Ack and Nack never answer
\* ErrUnknownSpec to the dispatcher, since the map has what a worker drives.
NoSpecLost ==
    /\ \A id \in ExecutionIDs :
          /\ enq[id] = "accepted" <=>
                InPending(id) \/ Held(id) \/ Stranded(id) \/ Settled(id)
          /\ Stranded(id) => ctxDone # {} /\ inFlight[id] > 1
    /\ \A w \in Workers : pc[w] \in Driving => inFlight[spec[w].id] = spec[w].attempt

\* No spec is run twice at once: there is at most one copy of a spec in the
\* channel, the workers' hands and the dead-letter list together, and an acked
\* or dead-lettered spec has none that could run again.
NoSpecDuplicated ==
    /\ \A i, j \in 1..Len(pending) : pending[i].id = pending[j].id => i = j
    /\ \A i, j \in 1..Len(dlq) : dlq[i].id = dlq[j].id => i = j
    /\ \A id \in ExecutionIDs :
          /\ \A v, w \in Workers : Holds(v, id) /\ Holds(w, id) => v = w
          /\ InPending(id) => ~Held(id) /\ inFlight[id] = 0
          /\ Settled(id) => ~InPending(id) /\ ~Held(id) /\ inFlight[id] = 0
          /\ ~(id \in acked /\ InDlq(id))

WorkersAt(l) == Cardinality({w \in Workers : pc[w] = l})

\* The dispatcher's counters agree with the queue's although each is kept
\* under its own mutex: every spawn is accounted for by an outcome, every
\* completion by an ack, and Dropped by the queue's own count and list.  Through
\* requeues, cancellations and restarts no attempt of a spec is spawned twice,
\* and no spec more than MaxAttempts times.
StatsBalance ==
    /\ stats.Spawned = stats.Completed + stats.Failed + stats.Cancelled
                         + WorkersAt("wait")
    /\ stats.Completed = Cardinality(acked) + WorkersAt("ack")
    /\ dropped = stats.Dropped + WorkersAt("recordDropped")
    /\ dropped = Len(dlq)
    /\ stats.Spawned = Cardinality(spawns)
    /\ stats.Spawned <= Cardinality(ExecutionIDs) * MaxAttempts

\* What makes NoSpecLost and NoSpecDuplicated inductive: the in-flight entry
\* of a spec in a worker's hands is there exactly while the worker drives it;
\* what Nack decided in its first critical section still holds in the next; no
\* spec is past the retry cap; and workers not started yet are off.
HandInv(w) ==
    /\ pc[w] \in Driving => inFlight[spec[w].id] = spec[w].attempt
    /\ pc[w] \in Carrying => inFlight[spec[w].id] = 0
    /\ pc[w] \in Driving \cup Carrying => spec[w].attempt <= MaxAttempts
    /\ pc[w] = "remove" => spec[w].attempt < MaxAttempts
    /\ pc[w] = "drop" => closed \/ spec[w].attempt = MaxAttempts
    /\ pc[w] = "requeue" => spec[w].attempt > 1
    /\ Gen(w) > gen => pc[w] = "off"

AccountInv ==
    \A id \in ExecutionIDs :
        /\ enq[id] = "accepted" <=>
              InPending(id) \/ Held(id) \/ inFlight[id] # 0 \/ Settled(id)
        /\ Stranded(id) => ctxDone # {} /\ inFlight[id] > 1

DispatchInv ==
    /\ TypeOK /\ NoSpecDuplicated /\ AccountInv
    /\ \A w \in Workers : HandInv(w)
    /\ \A i \in 1..Len(pending) : pending[i].attempt <= MaxAttempts

\* What makes StatsBalance inductive: the attempts spawned so far are the ones
\* before the next one, so that the pair a worker is about to spawn is new.
NextSpawn(w) ==
    spec[w].attempt + IF pc[w] \in {"register", "spawn", "requeue"} THEN 0 ELSE 1

SpawnInv ==
    \A p \in spawns :
        /\ enq[p[1]] = "accepted"
        /\ \A i \in 1..Len(pending) : pending[i].id = p[1] => p[2] < pending[i].attempt
        /\ \A w \in Workers : Holds(w, p[1]) => p[2] < NextSpawn(w)

BalanceInv == DispatchInv /\ StatsBalance /\ SpawnInv

\* The dispatcher implements the abstract work queue.
AttemptOf(id) ==
    IF InPending(id)
    THEN pending[CHOOSE i \in 1..Len(pending) : pending[i].id = id].attempt
    ELSE IF InDlq(id)
    THEN dlq[CHOOSE i \in 1..Len(dlq) : dlq[i].id = id].attempt
    ELSE IF Held(id)
    THEN LET w == CHOOSE w \in Workers : Holds(w, id)
         IN  IF pc[w] = "requeue" THEN spec[w].attempt - 1 ELSE spec[w].attempt
    ELSE inFlight[id]

JobOf(id) ==
    CASE id \in acked  -> "done"
      [] InDlq(id)     -> "dead"
      [] InPending(id) -> "queued"
      [] Held(id)      -> "leased"
      [] Stranded(id)  -> "stranded"
      [] OTHER         -> "new"

WQ == INSTANCE WorkQueue WITH
         Jobs <- ExecutionIDs, MaxTries <- MaxAttempts,
         job <- [id \in ExecutionIDs |-> JobOf(id)],
         tries <- [id \in ExecutionIDs |-> AttemptOf(id)],
         open <- ~closed

\* Every step of the queue and of the workers is a step of the work queue
\* (WorkQueue) or invisible in it.
ImplementsWorkQueue == WQ!Spec

\* The channel is full and every live worker waits in Nack for room in it.
Jammed ==
    /\ ~HasRoom
    /\ \E w \in Workers : Live(w)
    /\ \A w \in Workers : Live(w) => pc[w] = "requeue"

\* Every accepted spec is acked or dead-lettered, through any number of failed
\* attempts, unless a worker context is cancelled, the queue is closed, or the
\* workers jam: the one deadlock of the dispatcher.
EverySpecSettlesOrJams ==
    \A id \in ExecutionIDs :
        enq[id] = "accepted" /\ gen > 0 ~>
            Settled(id) \/ ctxDone # {} \/ closed \/ Jammed

\* A worker whose select has no case to take: Dequeue with nothing to receive,
\* Nack with no room for the retry.
Blocked(w) ==
    /\ Gen(w) \notin ctxDone
    /\ \/ pc[w] = "dequeue" /\ pending = <<>> /\ ~closeCh
       \/ pc[w] = "requeue" /\ ~HasRoom

\* What EverySpecSettlesOrJams rests on beside scheduling: with an accepted spec
\* still to settle, and neither a cancellation nor Close, some worker can go on,
\* or is about to be launched, or the pool is jammed.
OnlyAJamStopsThePool ==
    \A id \in ExecutionIDs :
        enq[id] = "accepted" /\ gen > 0 /\ ~Settled(id) /\ ctxDone = {} /\ ~closed =>
            \/ \E w \in Workers : pc[w] = "starting" \/ (Live(w) /\ ~Blocked(w))
            \/ Jammed

\* Workers of a Start are there, and leave only for a cancellation or Close.
PoolInv ==
    /\ closeCh => closed
    /\ \A w \in Workers : Gen(w) <= gen => pc[w] # "off"
    /\ (\E w \in Workers : Exited(w)) => ctxDone # {} \/ closeCh

\* Cancelling the worker context makes every worker of that generation leave
\* its loop, even one that waits in Nack for room in the channel.
CancelDrainsWorkers ==
    \A g \in Generations :
        g \in ctxDone ~> \A w \in Workers : Gen(w) = g => Exited(w)

(***************************************************************************)
(* What a comment of the package says and the code does not do.            *)
(***************************************************************************)

\* "ErrQueueClosed if the queue was closed (no more items will be produced,
\* and the buffer has been drained)": once a Dequeue returned ErrQueueClosed
\* the channel stays empty.
ClosedMeansDrained ==
    (\E w \in Workers : pc[w] = "exitClosed") => pending = <<>>
=============================================================================
