-------------------------- MODULE Dispatcher_proofs -------------------------
(***************************************************************************)
(* Proofs about the dispatch queue and its workers, for every number of    *)
(* specs, workers, generations and Stop callers, every channel capacity    *)
(* and every retry cap.                                                    *)
(*                                                                         *)
(* The inductive invariant is DispatchInv of module Dispatcher.  Most      *)
(* steps move no spec: QuietInv deals with all of them.  The others move   *)
(* one spec between the channel, a worker's hands, the in-flight map, the  *)
(* dead-letter list and the acked ones: the lemmas on channel and hands    *)
(* say where every spec is after such a move.                              *)
(***************************************************************************)
EXTENDS Dispatcher, FiniteSetTheorems, TLAPS

Holding == Driving \cup Carrying

\* Nothing is enqueued and no worker runs.
LEMMA DispatchInitially == Init => DispatchInv
  <1> SUFFICES ASSUME Init PROVE DispatchInv
    OBVIOUS
  <1> USE QueueAssumption, DispatcherAssumption DEF Init, QueueInit
  <1>0. Len(pending) = 0 /\ Len(dlq) = 0
    OBVIOUS
  <1>1. \A w \in Workers : pc[w] = "off" /\ spec[w] = NoSpec /\ NoSpec \notin Specs
    BY DEF NoSpec, Specs
  <1>2. TypeOK
    <2>1. QueueTypeOK
      <3>1. pending \in Seq(Specs) /\ dlq \in Seq(Specs) /\ Len(pending) <= BufferSize
        BY <1>0
      <3>2. inFlight \in [ExecutionIDs -> Nat] /\ enq \in [ExecutionIDs -> EnqStates]
        BY DEF EnqStates
      <3>3. QED
        BY <3>1, <3>2 DEF QueueTypeOK
    <2>2. pc \in [Workers -> WorkerPC] /\ stopPc \in [Stoppers -> StopPC]
      BY DEF WorkerPC, StopPC
    <2>3. \A w \in Workers : spec[w] \in Specs <=> pc[w] \in Driving \cup Carrying
      BY <1>1 DEF Driving, Carrying
    <2>4. stats \in [{"Spawned", "Completed", "Failed", "Cancelled", "Retries", "Dropped"} -> Nat]
      OBVIOUS
    <2>5. gen \in 0..MaxStarts /\ stopGen \in [Stoppers -> 0..MaxStarts] /\ ctxDone \subseteq 0..MaxStarts
      OBVIOUS
    <2>6. running \in BOOLEAN /\ spec \in [Workers -> Specs \cup {NoSpec}] /\ acked \subseteq ExecutionIDs
      OBVIOUS
    <2>7. QED
      BY <2>1, <2>2, <2>3, <2>4, <2>5, <2>6 DEF TypeOK
  <1>3. \A id \in ExecutionIDs : ~Held(id) /\ ~InPending(id) /\ ~Settled(id)
    BY <1>0, <1>1 DEF Held, Holds, InPending, Settled, InDlq, Driving, Carrying
  <1>4. \A w \in Workers, id \in ExecutionIDs : ~Holds(w, id)
    BY <1>1 DEF Holds, Driving, Carrying
  <1>5. NoSpecDuplicated
    BY <1>0, <1>3, <1>4 DEF NoSpecDuplicated, Settled
  <1>6. AccountInv
    BY <1>3 DEF AccountInv, Stranded
  <1>7. \A w \in Workers : HandInv(w)
    BY <1>1 DEF HandInv, Driving, Carrying
  <1>8. QED
    BY <1>0, <1>2, <1>5, <1>6, <1>7 DEF DispatchInv

-----------------------------------------------------------------------------
\* Where the specs are after a step.

\* The send on the channel.
LEMMA ChannelSend ==
    ASSUME pending \in Seq(Specs), NEW s \in Specs, pending' = Append(pending, s)
    PROVE  /\ pending' \in Seq(Specs) /\ Len(pending') = Len(pending) + 1
           /\ \A id \in ExecutionIDs : InPending(id)' <=> InPending(id) \/ id = s.id
           /\ \A i \in 1..Len(pending) : pending'[i] = pending[i]
           /\ pending'[Len(pending) + 1] = s
           /\ \A i \in 1..Len(pending') : i \in 1..Len(pending) \/ i = Len(pending) + 1
  <1>1. /\ pending' \in Seq(Specs) /\ Len(pending') = Len(pending) + 1
        /\ \A i \in 1..Len(pending) : pending'[i] = pending[i]
        /\ pending'[Len(pending) + 1] = s
        /\ Len(pending) \in Nat
    OBVIOUS
  <1>2. \A i \in 1..Len(pending') : i \in 1..Len(pending) \/ i = Len(pending) + 1
    BY <1>1
  <1>3. 1..Len(pending) \subseteq 1..Len(pending') /\ Len(pending) + 1 \in 1..Len(pending')
    BY <1>1
  <1>4. ASSUME NEW id \in ExecutionIDs PROVE InPending(id)' <=> InPending(id) \/ id = s.id
    BY <1>1, <1>2, <1>3 DEF InPending
  <1>5. QED
    BY <1>1, <1>2, <1>4

\* The receive from the channel, when no two specs in it have the same id.
LEMMA ChannelReceive ==
    ASSUME pending \in Seq(Specs), pending # <<>>, pending' = Tail(pending),
           \A i, j \in 1..Len(pending) : pending[i].id = pending[j].id => i = j
    PROVE  /\ pending' \in Seq(Specs) /\ Len(pending') = Len(pending) - 1 /\ Len(pending) > 0
           /\ Head(pending) = pending[1] /\ Head(pending) \in Specs
           /\ \A i \in 1..Len(pending') : i + 1 \in 1..Len(pending) /\ pending'[i] = pending[i + 1]
           /\ \A id \in ExecutionIDs : InPending(id)' <=> InPending(id) /\ id # Head(pending).id
           /\ \A i, j \in 1..Len(pending') : pending'[i].id = pending'[j].id => i = j
  <1>1. /\ pending' \in Seq(Specs) /\ Len(pending') = Len(pending) - 1 /\ Len(pending) > 0
        /\ Len(pending) \in Nat /\ Head(pending) = pending[1] /\ Head(pending) \in Specs
        /\ \A i \in 1..Len(pending') : pending'[i] = pending[i + 1]
    OBVIOUS
  <1>2. \A i \in 1..Len(pending') : i + 1 \in 1..Len(pending) /\ pending'[i] = pending[i + 1]
    BY <1>1
  <1>3. \A i \in 1..Len(pending) : i = 1 \/ (i - 1 \in 1..Len(pending') /\ pending'[i - 1] = pending[i])
    BY <1>1
  <1>4. ASSUME NEW id \in ExecutionIDs
        PROVE  InPending(id)' <=> InPending(id) /\ id # Head(pending).id
    <2>1. 1 \in 1..Len(pending)
      BY <1>1
    <2>2. ASSUME InPending(id)' PROVE InPending(id) /\ id # Head(pending).id
      <3>1. PICK i \in 1..Len(pending') : pending'[i].id = id
        BY <2>2 DEF InPending
      <3>2. i + 1 \in 1..Len(pending) /\ pending[i + 1].id = id /\ i + 1 # 1
        BY <1>1, <1>2, <3>1
      <3>3. QED
        BY <1>1, <2>1, <3>2 DEF InPending
    <2>3. ASSUME InPending(id), id # Head(pending).id PROVE InPending(id)'
      <3>1. PICK i \in 1..Len(pending) : pending[i].id = id
        BY <2>3 DEF InPending
      <3>2. i - 1 \in 1..Len(pending') /\ pending'[i - 1].id = id
        BY <1>1, <1>3, <2>3, <3>1
      <3>3. QED
        BY <3>2 DEF InPending
    <2>4. QED
      BY <2>2, <2>3
  <1>5. \A i, j \in 1..Len(pending') : pending'[i].id = pending'[j].id => i = j
    BY <1>1, <1>2
  <1>6. QED
    BY <1>1, <1>2, <1>4, <1>5

\* The dead-letter list grows at its end.
LEMMA DlqAppend ==
    ASSUME dlq \in Seq(Specs), NEW s \in Specs, dlq' = Append(dlq, s)
    PROVE  /\ dlq' \in Seq(Specs) /\ Len(dlq') = Len(dlq) + 1
           /\ \A id \in ExecutionIDs : InDlq(id)' <=> InDlq(id) \/ id = s.id
           /\ \A i \in 1..Len(dlq) : dlq'[i] = dlq[i]
           /\ dlq'[Len(dlq) + 1] = s
           /\ \A i \in 1..Len(dlq') : i \in 1..Len(dlq) \/ i = Len(dlq) + 1
  <1>1. /\ dlq' \in Seq(Specs) /\ Len(dlq') = Len(dlq) + 1
        /\ \A i \in 1..Len(dlq) : dlq'[i] = dlq[i]
        /\ dlq'[Len(dlq) + 1] = s
        /\ Len(dlq) \in Nat
    OBVIOUS
  <1>2. \A i \in 1..Len(dlq') : i \in 1..Len(dlq) \/ i = Len(dlq) + 1
    BY <1>1
  <1>3. 1..Len(dlq) \subseteq 1..Len(dlq') /\ Len(dlq) + 1 \in 1..Len(dlq')
    BY <1>1
  <1>4. ASSUME NEW id \in ExecutionIDs PROVE InDlq(id)' <=> InDlq(id) \/ id = s.id
    BY <1>1, <1>2, <1>3 DEF InDlq
  <1>5. QED
    BY <1>1, <1>2, <1>4

\* A step of w leaves the other workers' hands alone.
OthersKeep(w) == \A v \in Workers \ {w} : pc'[v] = pc[v] /\ spec'[v] = spec[v]

\* w goes on with the spec it has.
LEMMA HandsKeep ==
    ASSUME NEW w \in Workers, OthersKeep(w), pc[w] \in Holding, pc'[w] \in Holding,
           spec'[w].id = spec[w].id
    PROVE  /\ \A v \in Workers, id \in ExecutionIDs : Holds(v, id)' <=> Holds(v, id)
           /\ \A id \in ExecutionIDs : Held(id)' <=> Held(id)
  BY DEF OthersKeep, Holding, Holds, Held

\* w lets go of its spec.
LEMMA HandsRelease ==
    ASSUME NoSpecDuplicated, NEW w \in Workers, OthersKeep(w), pc[w] \in Holding,
           pc'[w] \notin Holding, spec[w].id \in ExecutionIDs
    PROVE  /\ \A v \in Workers, id \in ExecutionIDs : Holds(v, id)' <=> Holds(v, id) /\ v # w
           /\ \A id \in ExecutionIDs : Held(id)' <=> Held(id) /\ id # spec[w].id
  BY DEF NoSpecDuplicated, OthersKeep, Holding, Holds, Held

\* w, with empty hands, takes a spec.
LEMMA HandsTake ==
    ASSUME NEW w \in Workers, OthersKeep(w), pc[w] \notin Holding, pc'[w] \in Holding
    PROVE  /\ \A v \in Workers, id \in ExecutionIDs :
                Holds(v, id)' <=> Holds(v, id) \/ (v = w /\ id = spec'[w].id)
           /\ \A id \in ExecutionIDs : Held(id)' <=> Held(id) \/ id = spec'[w].id
  BY DEF OthersKeep, Holding, Holds, Held

\* What a worker has in its hands.
LEMMA InHand ==
    ASSUME TypeOK, NEW w \in Workers
    PROVE  /\ pc[w] \in WorkerPC
           /\ pc[w] \in Holding => /\ spec[w] \in Specs /\ spec[w].id \in ExecutionIDs
                                   /\ spec[w].attempt \in Nat \ {0}
                                   /\ Holds(w, spec[w].id) /\ Held(spec[w].id)
           /\ pc[w] \notin Holding => spec[w] = NoSpec
  BY DEF TypeOK, Holding, Specs, Holds, Held

-----------------------------------------------------------------------------
\* Steps that move no spec.

\* The counters stay counters.
LEMMA CountType ==
    ASSUME TypeOK, NEW counters, Count(counters)
    PROVE  stats' \in [{"Spawned", "Completed", "Failed", "Cancelled", "Retries", "Dropped"} -> Nat]
  BY DEF TypeOK, Count

\* A step that leaves channel, in-flight map, lists and hands alone.
Quiet ==
    /\ UNCHANGED <<pending, inFlight, dlq, acked, spec>>
    /\ \A w \in Workers : pc'[w] \in Holding <=> pc[w] \in Holding
    /\ \A w \in Workers : pc'[w] = "requeue" <=> pc[w] = "requeue"
    /\ \A id \in ExecutionIDs : enq'[id] = "accepted" <=> enq[id] = "accepted"
    /\ ctxDone \subseteq ctxDone'

\* It keeps every account.
LEMMA QuietInv ==
    ASSUME DispatchInv, Quiet, TypeOK', \A w \in Workers : HandInv(w)'
    PROVE  DispatchInv'
  <1>1. \A w \in Workers, id \in ExecutionIDs : Holds(w, id)' <=> Holds(w, id)
    BY DEF Quiet, Holds, Holding
  <1>2. \A id \in ExecutionIDs : Held(id)' <=> Held(id)
    BY <1>1 DEF Held
  <1>a. pending' = pending /\ dlq' = dlq /\ inFlight' = inFlight /\ acked' = acked
    BY DEF Quiet
  <1>3. ASSUME NEW id \in ExecutionIDs
        PROVE  /\ InPending(id)' <=> InPending(id)
               /\ InDlq(id)' <=> InDlq(id)
               /\ Settled(id)' <=> Settled(id)
    <2>1. InPending(id)' <=> InPending(id)
      BY <1>a DEF InPending
    <2>2. InDlq(id)' <=> InDlq(id)
      BY <1>a DEF InDlq
    <2>3. Settled(id)' <=> Settled(id)
      BY <1>a, <2>2 DEF Settled
    <2>4. QED
      BY <2>1, <2>2, <2>3
  <1>4. \A id \in ExecutionIDs : Stranded(id)' <=> Stranded(id)
    BY <1>2 DEF Stranded, Quiet
  <1>5. NoSpecDuplicated'
    <2>1. NoSpecDuplicated
      BY DEF DispatchInv
    <2>2. \A i, j \in 1..Len(pending') : pending'[i].id = pending'[j].id => i = j
      BY <1>a, <2>1 DEF NoSpecDuplicated
    <2>3. \A i, j \in 1..Len(dlq') : dlq'[i].id = dlq'[j].id => i = j
      BY <1>a, <2>1 DEF NoSpecDuplicated
    <2>4. ASSUME NEW id \in ExecutionIDs
          PROVE  /\ \A v, w \in Workers : Holds(v, id)' /\ Holds(w, id)' => v = w
                 /\ InPending(id)' => ~Held(id)' /\ inFlight'[id] = 0
                 /\ Settled(id)' => ~InPending(id)' /\ ~Held(id)' /\ inFlight'[id] = 0
                 /\ ~(id \in acked' /\ InDlq(id)')
      BY <1>a, <1>1, <1>2, <1>3, <2>1 DEF NoSpecDuplicated
    <2>5. QED
      BY <2>2, <2>3, <2>4 DEF NoSpecDuplicated
  <1>6. AccountInv'
    <2>1. SUFFICES ASSUME NEW id \in ExecutionIDs
                   PROVE  /\ enq'[id] = "accepted" <=>
                                InPending(id)' \/ Held(id)' \/ inFlight'[id] # 0 \/ Settled(id)'
                          /\ Stranded(id)' => ctxDone' # {} /\ inFlight'[id] > 1
      BY DEF AccountInv
    <2>2. QED
      BY <1>a, <1>2, <1>3, <1>4 DEF AccountInv, DispatchInv, Quiet
  <1>7. QED
    BY <1>5, <1>6 DEF DispatchInv, Quiet

\* Calls of Enqueue that send nothing, and Close.
LEMMA QueueQuiet ==
    ASSUME DispatchInv, UNCHANGED dispVars,
           \/ \E id \in ExecutionIDs : EnqueueCheck(id) \/ EnqueueGiveUp(id)
           \/ CloseMark
           \/ CloseSignal
    PROVE  DispatchInv' /\ Quiet
  <1> USE DEF dispVars, EnqueueCheck, EnqueueGiveUp, CloseMark, CloseSignal
  <1>1. TypeOK'
    BY DEF DispatchInv, TypeOK, QueueTypeOK, EnqStates
  <1>2. Quiet
    BY DEF Quiet, DispatchInv, TypeOK, QueueTypeOK
  <1>3. \A w \in Workers : HandInv(w)'
    BY DEF HandInv, DispatchInv
  <1>4. QED
    BY <1>1, <1>2, <1>3, QuietInv

\* Start, Stop and the owner of a context.
LEMMA ControlQuiet ==
    ASSUME DispatchInv,
           \/ Start
           \/ \E g \in Generations : CancelContext(g)
           \/ \E c \in Stoppers : StopMark(c) \/ StopCancel(c) \/ StopDone(c) \/ StopTimeout(c)
    PROVE  DispatchInv' /\ Quiet
  <1>1. CASE Start
    <2>0. /\ gen \in Nat /\ gen' = gen + 1 /\ gen' \in 0..MaxStarts
          /\ \A w \in Workers : Gen(w) = gen + 1 => pc[w] = "off"
          /\ \A w \in Workers : Gen(w) \in Nat
      BY <1>1, DispatcherAssumption
      DEF Start, DispatchInv, TypeOK, HandInv, Workers, Generations, Gen
    <2>1. /\ pc' \in [Workers -> WorkerPC]
          /\ \A w \in Workers : pc'[w] = pc[w] \/ (pc[w] = "off" /\ pc'[w] = "starting")
          /\ \A w \in Workers : Gen(w) > gen + 1 => pc'[w] = pc[w]
      BY <1>1, <2>0 DEF Start, DispatchInv, TypeOK, WorkerPC
    <2>2. "off" \notin Holding /\ "starting" \notin Holding
      BY DEF Holding, Driving, Carrying
    <2>3. TypeOK'
      BY <1>1, <2>0, <2>1, <2>2 DEF Start, DispatchInv, TypeOK, QueueTypeOK, queueVars, Holding
    <2>4. Quiet
      BY <1>1, <2>1, <2>2 DEF Quiet, Start, queueVars
    <2>5. ASSUME NEW w \in Workers PROVE HandInv(w)'
      BY <1>1, <2>0, <2>1, <2>2 DEF HandInv, DispatchInv, Start, queueVars, Driving, Carrying, Holding
    <2>6. QED
      BY <2>3, <2>4, <2>5, QuietInv
  <1>2. CASE ~Start
    <2> DEFINE A == \/ \E g \in Generations : CancelContext(g)
                    \/ \E c \in Stoppers :
                          StopMark(c) \/ StopCancel(c) \/ StopDone(c) \/ StopTimeout(c)
    <2>0. A
      BY <1>2
    <2> USE DEF CancelContext, StopMark, StopCancel, StopDone, StopTimeout
    <2>1. UNCHANGED <<queueVars, gen, pc, spec, stats, acked, spawns>> /\ ctxDone \subseteq ctxDone'
      BY <2>0
    <2>a. /\ running \in BOOLEAN /\ gen \in 0..MaxStarts /\ ctxDone \subseteq 0..MaxStarts
          /\ stopPc \in [Stoppers -> StopPC] /\ stopGen \in [Stoppers -> 0..MaxStarts]
          /\ 0 \in 0..MaxStarts /\ Generations \subseteq 0..MaxStarts
      BY DispatcherAssumption DEF DispatchInv, TypeOK, Generations
    <2>2. ctxDone' \subseteq 0..MaxStarts
      <3>1. ASSUME NEW c \in Stoppers, StopCancel(c) PROVE ctxDone' \subseteq 0..MaxStarts
        <4>1. stopGen[c] \in 0..MaxStarts
          BY <2>a
        <4>2. QED
          BY <2>a, <3>1, <4>1
      <3>2. ASSUME NEW g \in Generations, CancelContext(g) PROVE ctxDone' \subseteq 0..MaxStarts
        BY <2>a, <3>2
      <3>3. QED
        BY <2>0, <2>a, <3>1, <3>2
    <2>3. running' \in BOOLEAN /\ stopPc' \in [Stoppers -> StopPC] /\ stopGen' \in [Stoppers -> 0..MaxStarts]
      <3>1. running' \in BOOLEAN
        BY <2>0, <2>a
      <3>2. stopPc' \in [Stoppers -> StopPC]
        BY <2>0, <2>a DEF StopPC
      <3>3. stopGen' \in [Stoppers -> 0..MaxStarts]
        BY <2>0, <2>a
      <3>4. QED
        BY <3>1, <3>2, <3>3
    <2>4. TypeOK'
      BY <2>1, <2>2, <2>3 DEF DispatchInv, TypeOK, QueueTypeOK, queueVars
    <2>5. Quiet
      BY <2>1 DEF Quiet, queueVars
    <2>6. ASSUME NEW w \in Workers PROVE HandInv(w)'
      BY <2>1 DEF HandInv, DispatchInv, queueVars
    <2>7. QED
      BY <2>4, <2>5, <2>6, QuietInv
  <1>3. QED
    BY <1>1, <1>2

\* A worker that is launched, or goes round its loop, or leaves it; with empty hands.
LEMMA IdleQuiet ==
    ASSUME DispatchInv, NEW w \in Workers,
           Launch(w) \/ LoopTop(w) \/ DequeueCtx(w) \/ DequeueClosed(w) \/ recordNackResult(w)
    PROVE  DispatchInv' /\ Quiet
  <1> USE DEF Launch, LoopTop, DequeueCtx, DequeueClosed, recordNackResult, Goto
  <1>1. PICK l \in {"loop", "exitCtx", "dequeue", "exitClosed"} : pc' = [pc EXCEPT ![w] = l]
    OBVIOUS
  <1>2. UNCHANGED <<queueVars, running, gen, ctxDone, stopPc, stopGen, spec, acked, spawns>>
    BY DEF controlVars
  <1>3. pc[w] \in {"starting", "loop", "dequeue"} \cup Recording
    OBVIOUS
  <1>4. stats' \in [{"Spawned", "Completed", "Failed", "Cancelled", "Retries", "Dropped"} -> Nat]
    BY CountType DEF DispatchInv, TypeOK
  <1>5. l \notin Holding /\ pc[w] \notin Holding /\ pc[w] # "off" /\ l \in WorkerPC
    BY <1>1, <1>3 DEF Holding, Driving, Carrying, Recording, WorkerPC
  <1>6. /\ pc \in [Workers -> WorkerPC] /\ pc' \in [Workers -> WorkerPC]
        /\ pc'[w] = l /\ \A v \in Workers \ {w} : pc'[v] = pc[v]
    BY <1>1, <1>5 DEF DispatchInv, TypeOK
  <1>7. TypeOK'
    BY <1>2, <1>4, <1>5, <1>6 DEF DispatchInv, TypeOK, QueueTypeOK, queueVars, Holding
  <1>8. Quiet
    BY <1>2, <1>5, <1>6 DEF Quiet, queueVars, Holding, Carrying
  <1>9. ASSUME NEW v \in Workers PROVE HandInv(v)'
    <2>1. CASE v = w
      BY <1>1, <1>2, <1>5, <1>6, <2>1 DEF HandInv, DispatchInv, Holding
    <2>2. CASE v # w
      BY <1>2, <1>6, <2>2 DEF HandInv, DispatchInv, queueVars
    <2>3. QED
      BY <2>1, <2>2
  <1>10. QED
    BY <1>7, <1>8, <1>9, QuietInv

\* Spawn, Wait and the first critical section of Nack: the worker drives on.
LEMMA DrivingQuiet ==
    ASSUME DispatchInv, NEW w \in Workers,
           Spawn(w) \/ WaitResult(w) \/ WaitError(w) \/ NackRead(w)
    PROVE  DispatchInv' /\ Quiet
  <1> USE DEF Spawn, WaitResult, WaitError, NackRead, Goto
  <1>1. pc[w] \in Driving /\ pc[w] \in Holding /\ pc[w] # "off"
    BY DEF Driving, Holding
  <1>2. inFlight[spec[w].id] = spec[w].attempt /\ spec[w].attempt \in Nat \ {0}
    BY <1>1, InHand DEF DispatchInv, HandInv
  <1>3. IsInFlight(spec[w])
    BY <1>2 DEF IsInFlight
  <1>4. PICK l \in {"wait", "nack", "ack", "remove", "drop"} :
            /\ pc' = [pc EXCEPT ![w] = l]
            /\ l = "remove" => MayRetry(spec[w])
            /\ l = "drop" => ~MayRetry(spec[w])
    BY <1>3
  <1>5. UNCHANGED <<queueVars, running, gen, ctxDone, stopPc, stopGen, spec, acked>>
    BY <1>3 DEF controlVars
  <1>6. stats' \in [{"Spawned", "Completed", "Failed", "Cancelled", "Retries", "Dropped"} -> Nat]
    BY CountType DEF DispatchInv, TypeOK
  <1>7. l \in Driving /\ l \in Holding /\ l \in WorkerPC /\ l \notin Carrying /\ l # "requeue"
    BY <1>4 DEF Driving, Holding, WorkerPC, Carrying
  <1>8. /\ pc \in [Workers -> WorkerPC] /\ pc' \in [Workers -> WorkerPC]
        /\ pc'[w] = l /\ \A v \in Workers \ {w} : pc'[v] = pc[v]
    BY <1>4, <1>7 DEF DispatchInv, TypeOK
  <1>s. spawns' \subseteq ExecutionIDs \X (1..MaxAttempts)
    <2>1. spawns \subseteq ExecutionIDs \X (1..MaxAttempts) /\ spec[w].id \in ExecutionIDs
      BY <1>1, InHand DEF DispatchInv, TypeOK
    <2>2. spec[w].attempt \in 1..MaxAttempts
      BY <1>1, <1>2, QueueAssumption DEF DispatchInv, HandInv
    <2>3. QED
      BY <2>1, <2>2
  <1>9. TypeOK'
    BY <1>1, <1>5, <1>6, <1>7, <1>8, <1>s DEF DispatchInv, TypeOK, QueueTypeOK, queueVars, Holding
  <1>10. Quiet
    BY <1>1, <1>5, <1>7, <1>8 DEF Quiet, queueVars
  <1>11. ASSUME NEW v \in Workers PROVE HandInv(v)'
    <2>1. CASE v = w
      <3>1. HandInv(w) /\ spec[w].attempt <= MaxAttempts /\ Gen(w) <= gen
        BY <1>1 DEF DispatchInv, HandInv, Driving, TypeOK, Gen, Workers, Generations
      <3>2. l = "remove" => spec[w].attempt < MaxAttempts
        BY <1>4 DEF MayRetry
      <3>3. l = "drop" => closed \/ spec[w].attempt = MaxAttempts
        BY <1>2, <1>4, <3>1, QueueAssumption DEF MayRetry
      <3>4. Gen(w) > gen => FALSE
        BY <3>1 DEF DispatchInv, TypeOK, Gen, Workers, Generations
      <3>5. QED
        BY <1>2, <1>5, <1>7, <1>8, <2>1, <3>1, <3>2, <3>3, <3>4 DEF HandInv, queueVars
    <2>2. CASE v # w
      BY <1>5, <1>8, <2>2 DEF HandInv, DispatchInv, queueVars
    <2>3. QED
      BY <2>1, <2>2
  <1>12. QED
    BY <1>9, <1>10, <1>11, QuietInv

-----------------------------------------------------------------------------
\* Steps that move a spec.

\* What every one of them needs: the accounts before it, and the types after it.
LEMMA MoveInv ==
    ASSUME TypeOK',
           \A i, j \in 1..Len(pending') : pending'[i].id = pending'[j].id => i = j,
           \A i, j \in 1..Len(dlq') : dlq'[i].id = dlq'[j].id => i = j,
           \A i \in 1..Len(pending') : pending'[i].attempt <= MaxAttempts,
           \A w \in Workers : HandInv(w)',
           \A id \in ExecutionIDs :
              /\ \A v, w \in Workers : Holds(v, id)' /\ Holds(w, id)' => v = w
              /\ InPending(id)' => ~Held(id)' /\ inFlight'[id] = 0
              /\ Settled(id)' => ~InPending(id)' /\ ~Held(id)' /\ inFlight'[id] = 0
              /\ ~(id \in acked' /\ InDlq(id)')
              /\ enq'[id] = "accepted" <=>
                    InPending(id)' \/ Held(id)' \/ inFlight'[id] # 0 \/ Settled(id)'
              /\ Stranded(id)' => ctxDone' # {} /\ inFlight'[id] > 1
    PROVE  DispatchInv'
  BY DEF DispatchInv, NoSpecDuplicated, AccountInv

\* The same accounts before the step.
LEMMA Accounts ==
    ASSUME DispatchInv
    PROVE  /\ \A i, j \in 1..Len(pending) : pending[i].id = pending[j].id => i = j
           /\ \A i, j \in 1..Len(dlq) : dlq[i].id = dlq[j].id => i = j
           /\ \A i \in 1..Len(pending) : pending[i].attempt <= MaxAttempts
           /\ \A w \in Workers : HandInv(w)
           /\ \A id \in ExecutionIDs :
                 /\ \A v, w \in Workers : Holds(v, id) /\ Holds(w, id) => v = w
                 /\ InPending(id) => ~Held(id) /\ inFlight[id] = 0
                 /\ Settled(id) => ~InPending(id) /\ ~Held(id) /\ inFlight[id] = 0
                 /\ ~(id \in acked /\ InDlq(id))
                 /\ enq[id] = "accepted" <=>
                       InPending(id) \/ Held(id) \/ inFlight[id] # 0 \/ Settled(id)
                 /\ Stranded(id) => ctxDone # {} /\ inFlight[id] > 1
           /\ pending \in Seq(Specs) /\ dlq \in Seq(Specs) /\ inFlight \in [ExecutionIDs -> Nat]
           /\ pc \in [Workers -> WorkerPC] /\ spec \in [Workers -> Specs \cup {NoSpec}]
           /\ NoSpec \notin Specs
  BY DEF DispatchInv, NoSpecDuplicated, AccountInv, TypeOK, QueueTypeOK, NoSpec, Specs

\* EnqueueSend: a new spec enters the channel.
LEMMA EnqueueSendStep ==
    ASSUME DispatchInv, NEW id \in ExecutionIDs, EnqueueSend(id), UNCHANGED dispVars
    PROVE  DispatchInv'
  <1> DEFINE s == [id |-> id, attempt |-> 1]
  <1>1. s \in Specs /\ s.id = id /\ s.attempt = 1
    BY DEF Specs
  <1>2. /\ pending' = Append(pending, s) /\ enq[id] = "sending" /\ Len(pending) < BufferSize
        /\ enq' = [enq EXCEPT ![id] = "accepted"]
        /\ UNCHANGED <<inFlight, dlq, dropped, closed, closeCh>>
        /\ UNCHANGED <<running, gen, ctxDone, pc, spec, stats, stopPc, stopGen, acked, spawns>>
    BY DEF EnqueueSend, HasRoom, dispVars
  <1> HIDE DEF s
  <1>3. /\ pending' \in Seq(Specs) /\ Len(pending') = Len(pending) + 1 /\ Len(pending) \in Nat
        /\ \A x \in ExecutionIDs : InPending(x)' <=> InPending(x) \/ x = id
        /\ \A i \in 1..Len(pending) : pending'[i] = pending[i]
        /\ pending'[Len(pending) + 1] = s
        /\ \A i \in 1..Len(pending') : i \in 1..Len(pending) \/ i = Len(pending) + 1
    BY <1>1, <1>2, ChannelSend, Accounts
  <1>4. ~InPending(id) /\ ~Held(id) /\ inFlight[id] = 0 /\ ~Settled(id)
    BY <1>2, Accounts
  <1>5. TypeOK'
    <2>1. QueueTypeOK'
      BY <1>2, <1>3, QueueAssumption DEF DispatchInv, TypeOK, QueueTypeOK, EnqStates
    <2>2. QED
      BY <1>2, <2>1 DEF DispatchInv, TypeOK
  <1>6. \A x \in ExecutionIDs : /\ Held(x)' <=> Held(x)
                               /\ \A w \in Workers : Holds(w, x)' <=> Holds(w, x)
    BY <1>2 DEF Held, Holds
  <1>7. ASSUME NEW x \in ExecutionIDs
        PROVE  (InDlq(x)' <=> InDlq(x)) /\ (Settled(x)' <=> Settled(x))
    <2>1. InDlq(x)' <=> InDlq(x)
      BY <1>2 DEF InDlq
    <2>2. QED
      BY <1>2, <2>1 DEF Settled
  <1>8. \A i \in 1..Len(pending) : pending[i].id # id
    BY <1>4 DEF InPending
  <1>9. \A i, j \in 1..Len(pending') : pending'[i].id = pending'[j].id => i = j
    BY <1>1, <1>3, <1>8, Accounts
  <1>10. \A i \in 1..Len(pending') : pending'[i].attempt <= MaxAttempts
    BY <1>1, <1>3, Accounts, QueueAssumption
  <1>11. \A w \in Workers : HandInv(w)'
    BY <1>2, Accounts DEF HandInv
  <1>12. ASSUME NEW x \in ExecutionIDs
         PROVE  /\ \A v, w \in Workers : Holds(v, x)' /\ Holds(w, x)' => v = w
                /\ InPending(x)' => ~Held(x)' /\ inFlight'[x] = 0
                /\ Settled(x)' => ~InPending(x)' /\ ~Held(x)' /\ inFlight'[x] = 0
                /\ ~(x \in acked' /\ InDlq(x)')
                /\ Stranded(x)' => ctxDone' # {} /\ inFlight'[x] > 1
    BY <1>2, <1>3, <1>4, <1>6, <1>7, Accounts DEF Stranded
  <1>13. ASSUME NEW x \in ExecutionIDs
         PROVE  enq'[x] = "accepted" <=>
                  InPending(x)' \/ Held(x)' \/ inFlight'[x] # 0 \/ Settled(x)'
    <2>1. enq'[x] = "accepted" <=> x = id \/ enq[x] = "accepted"
      BY <1>2 DEF DispatchInv, TypeOK, QueueTypeOK
    <2>2. QED
      BY <1>2, <1>3, <1>6, <1>7, <2>1, Accounts
  <1>14. \A i, j \in 1..Len(dlq') : dlq'[i].id = dlq'[j].id => i = j
    BY <1>2, Accounts
  <1>15. QED
    BY <1>5, <1>9, <1>10, <1>11, <1>12, <1>13, <1>14, MoveInv

\* The hands of w after a step that gives it the step l and the spec s.
LEMMA HandWrite ==
    ASSUME DispatchInv, NEW w \in Workers, NEW l \in WorkerPC, NEW s \in Specs \cup {NoSpec},
           pc' = [pc EXCEPT ![w] = l], spec' = [spec EXCEPT ![w] = s],
           s \in Specs <=> l \in Holding
    PROVE  /\ pc' \in [Workers -> WorkerPC] /\ spec' \in [Workers -> Specs \cup {NoSpec}]
           /\ \A v \in Workers : spec'[v] \in Specs <=> pc'[v] \in Driving \cup Carrying
           /\ pc'[w] = l /\ spec'[w] = s /\ OthersKeep(w)
  <1>1. /\ pc \in [Workers -> WorkerPC] /\ spec \in [Workers -> Specs \cup {NoSpec}]
        /\ \A v \in Workers : spec[v] \in Specs <=> pc[v] \in Driving \cup Carrying
    BY DEF DispatchInv, TypeOK
  <1>2. /\ pc' \in [Workers -> WorkerPC] /\ spec' \in [Workers -> Specs \cup {NoSpec}]
        /\ pc'[w] = l /\ spec'[w] = s
        /\ \A v \in Workers \ {w} : pc'[v] = pc[v] /\ spec'[v] = spec[v]
    BY <1>1
  <1>3. QED
    BY <1>1, <1>2 DEF OthersKeep, Holding

\* Other workers keep what they know, when the entry of w's spec changes.
LEMMA OtherHands ==
    ASSUME DispatchInv, NEW w \in Workers, NEW id \in ExecutionIDs, OthersKeep(w),
           Holds(w, id) \/ ~Held(id),
           \A x \in ExecutionIDs \ {id} : inFlight'[x] = inFlight[x],
           closed' = closed, gen' = gen
    PROVE  \A v \in Workers \ {w} : HandInv(v)'
  <1> TAKE v \in Workers \ {w}
  <1>1. HandInv(v) /\ pc'[v] = pc[v] /\ spec'[v] = spec[v]
    BY Accounts DEF OthersKeep
  <1>2. pc[v] \in Driving \cup Carrying => spec[v].id # id /\ spec[v].id \in ExecutionIDs
    <2>1. SUFFICES ASSUME pc[v] \in Driving \cup Carrying
                   PROVE  spec[v].id # id /\ spec[v].id \in ExecutionIDs
      OBVIOUS
    <2>2. spec[v].id \in ExecutionIDs /\ Holds(v, spec[v].id) /\ Held(spec[v].id)
      BY <2>1, InHand DEF DispatchInv, Holding
    <2>3. QED
      BY <2>2, Accounts
  <1>3. QED
    BY <1>1, <1>2 DEF HandInv, Driving, Carrying

\* Dequeue: the head of the channel passes into the hands of w.
LEMMA DequeueStep ==
    ASSUME DispatchInv, NEW w \in Workers, Dequeue(w)
    PROVE  DispatchInv'
  <1>1. /\ pc[w] = "dequeue" /\ pending # <<>> /\ pending' = Tail(pending)
        /\ spec' = [spec EXCEPT ![w] = Head(pending)] /\ pc' = [pc EXCEPT ![w] = "register"]
        /\ UNCHANGED <<inFlight, dlq, dropped, closed, closeCh, enq>>
        /\ UNCHANGED <<running, gen, ctxDone, stopPc, stopGen, stats, acked, spawns>>
    BY DEF Dequeue, Receive, Goto, controlVars
  <1>2. PICK s \in Specs : s = Head(pending)
    BY <1>1, ChannelReceive, Accounts
  <1>a. s.id \in ExecutionIDs /\ s.attempt \in Nat \ {0}
    BY DEF Specs
  <1>3. /\ pending' \in Seq(Specs) /\ Len(pending') = Len(pending) - 1 /\ Len(pending) > 0
        /\ s = pending[1]
        /\ \A i \in 1..Len(pending') : i + 1 \in 1..Len(pending) /\ pending'[i] = pending[i + 1]
        /\ \A x \in ExecutionIDs : InPending(x)' <=> InPending(x) /\ x # s.id
        /\ \A i, j \in 1..Len(pending') : pending'[i].id = pending'[j].id => i = j
    BY <1>1, <1>2, ChannelReceive, Accounts
  <1>4. 1 \in 1..Len(pending)
    BY <1>3, Accounts
  <1>5. InPending(s.id) /\ ~Held(s.id) /\ inFlight[s.id] = 0 /\ s.attempt <= MaxAttempts
    BY <1>a, <1>3, <1>4, Accounts DEF InPending
  <1>6. /\ "register" \in WorkerPC /\ "register" \in Holding /\ "register" \in Carrying
        /\ "register" \notin Driving /\ pc[w] \notin Holding
    BY <1>1 DEF WorkerPC, Holding, Driving, Carrying
  <1>7. /\ pc' \in [Workers -> WorkerPC] /\ spec' \in [Workers -> Specs \cup {NoSpec}]
        /\ \A v \in Workers : spec'[v] \in Specs <=> pc'[v] \in Driving \cup Carrying
        /\ pc'[w] = "register" /\ spec'[w] = s /\ OthersKeep(w)
    BY <1>1, <1>2, <1>6, HandWrite
  <1>8. TypeOK'
    <2>1. Len(pending') <= BufferSize
      BY <1>3, QueueAssumption, Accounts DEF DispatchInv, TypeOK, QueueTypeOK
    <2>2. QueueTypeOK'
      BY <1>1, <1>3, <2>1 DEF DispatchInv, TypeOK, QueueTypeOK
    <2>3. QED
      BY <1>1, <1>7, <2>2 DEF DispatchInv, TypeOK
  <1>9. /\ \A v \in Workers, x \in ExecutionIDs :
              Holds(v, x)' <=> Holds(v, x) \/ (v = w /\ x = s.id)
        /\ \A x \in ExecutionIDs : Held(x)' <=> Held(x) \/ x = s.id
    BY <1>6, <1>7, HandsTake
  <1>10. ASSUME NEW x \in ExecutionIDs
         PROVE  (InDlq(x)' <=> InDlq(x)) /\ (Settled(x)' <=> Settled(x))
    <2>1. InDlq(x)' <=> InDlq(x)
      BY <1>1 DEF InDlq
    <2>2. QED
      BY <1>1, <2>1 DEF Settled
  <1>11. ASSUME NEW v \in Workers PROVE HandInv(v)'
    <2>1. CASE v = w
      <3>1. ~(Gen(w) > gen)
        BY <1>1, Accounts DEF HandInv
      <3>2. QED
        BY <1>1, <1>5, <1>6, <1>7, <2>1, <3>1 DEF HandInv
    <2>2. CASE v # w
      BY <1>a, <1>1, <1>5, <1>7, <2>2, OtherHands
    <2>3. QED
      BY <2>1, <2>2
  <1>12. \A i \in 1..Len(pending') : pending'[i].attempt <= MaxAttempts
    BY <1>3, Accounts
  <1>13. ASSUME NEW x \in ExecutionIDs
         PROVE  /\ \A v, u \in Workers : Holds(v, x)' /\ Holds(u, x)' => v = u
                /\ InPending(x)' => ~Held(x)' /\ inFlight'[x] = 0
                /\ Settled(x)' => ~InPending(x)' /\ ~Held(x)' /\ inFlight'[x] = 0
                /\ ~(x \in acked' /\ InDlq(x)')
                /\ enq'[x] = "accepted" <=>
                      InPending(x)' \/ Held(x)' \/ inFlight'[x] # 0 \/ Settled(x)'
                /\ Stranded(x)' => ctxDone' # {} /\ inFlight'[x] > 1
    <2>1. \A v, u \in Workers : Holds(v, x)' /\ Holds(u, x)' => v = u
      BY <1>5, <1>9, Accounts DEF Held
    <2>2. QED
      BY <2>1, <1>1, <1>3, <1>5, <1>9, <1>10, Accounts DEF Stranded
  <1>14. \A i, j \in 1..Len(dlq') : dlq'[i].id = dlq'[j].id => i = j
    BY <1>1, Accounts
  <1>15. QED
    BY <1>3, <1>8, <1>11, <1>12, <1>13, <1>14, MoveInv

\* Register and NackRemove: w keeps the spec, whose entry enters or leaves the map.
LEMMA RegisterRemoveStep ==
    ASSUME DispatchInv, NEW w \in Workers, Register(w) \/ NackRemove(w)
    PROVE  DispatchInv'
  <1>1. pc[w] \in Holding /\ pc[w] \in {"register", "remove"}
    BY DEF Register, NackRemove, Holding, Driving, Carrying
  <1>2. PICK s \in Specs : s = spec[w] /\ s.id \in ExecutionIDs /\ s.attempt \in Nat \ {0}
                           /\ Holds(w, s.id) /\ Held(s.id)
    BY <1>1, InHand DEF DispatchInv
  <1>3. s.attempt <= MaxAttempts /\ (pc[w] = "remove" => s.attempt < MaxAttempts) /\ ~(Gen(w) > gen)
    BY <1>1, <1>2, Accounts DEF HandInv, Holding
  <1>4. PICK l \in {"spawn", "requeue"}, r \in Specs, n \in Nat :
              /\ pc' = [pc EXCEPT ![w] = l] /\ spec' = [spec EXCEPT ![w] = r]
              /\ inFlight' = [inFlight EXCEPT ![s.id] = n]
              /\ r.id = s.id /\ r.attempt <= MaxAttempts /\ r.attempt \in Nat
              /\ l = "spawn" => n = r.attempt
              /\ l = "requeue" => n = 0 /\ r.attempt > 1
    <2>1. CASE Register(w)
      <3>1. spec' = [spec EXCEPT ![w] = s]
        BY <1>2, <2>1, Accounts DEF Register
      <3>2. QED
        BY <1>2, <1>3, <2>1, <3>1 DEF Register, StoreInFlight, Goto
    <2>2. CASE NackRemove(w)
      <3>1. Retry(s) \in Specs /\ Retry(s).id = s.id /\ Retry(s).attempt = s.attempt + 1
        BY <1>2 DEF Retry, Specs
      <3>2. spec' = [spec EXCEPT ![w] = Retry(s)] /\ pc[w] = "remove"
            /\ pc' = [pc EXCEPT ![w] = "requeue"] /\ inFlight' = [inFlight EXCEPT ![s.id] = 0]
        BY <1>2, <2>2, Accounts DEF NackRemove, RemoveInFlight, Goto
      <3>3. s.attempt + 1 <= MaxAttempts /\ s.attempt + 1 > 1 /\ s.attempt + 1 \in Nat
        BY <1>2, <1>3, <3>2, QueueAssumption
      <3>4. QED
        BY <3>1, <3>2, <3>3
    <2>3. QED
      BY <2>1, <2>2
  <1>5. /\ UNCHANGED <<pending, dlq, dropped, closed, closeCh, enq>>
        /\ UNCHANGED <<running, gen, ctxDone, stopPc, stopGen, stats, acked, spawns>>
    BY DEF Register, NackRemove, StoreInFlight, RemoveInFlight, controlVars
  <1>6. /\ l \in WorkerPC /\ l \in Holding /\ l \notin {"remove", "drop"}
        /\ l \in Driving <=> l = "spawn"
        /\ l \in Carrying <=> l = "requeue"
    BY <1>4 DEF WorkerPC, Holding, Driving, Carrying
  <1>7. /\ pc' \in [Workers -> WorkerPC] /\ spec' \in [Workers -> Specs \cup {NoSpec}]
        /\ \A v \in Workers : spec'[v] \in Specs <=> pc'[v] \in Driving \cup Carrying
        /\ pc'[w] = l /\ spec'[w] = r /\ OthersKeep(w)
    BY <1>4, <1>6, HandWrite
  <1>8. /\ inFlight' \in [ExecutionIDs -> Nat] /\ inFlight'[s.id] = n
        /\ \A x \in ExecutionIDs \ {s.id} : inFlight'[x] = inFlight[x]
    BY <1>2, <1>4, Accounts
  <1>9. TypeOK'
    BY <1>5, <1>7, <1>8, Accounts DEF DispatchInv, TypeOK, QueueTypeOK
  <1>10. /\ \A v \in Workers, x \in ExecutionIDs : Holds(v, x)' <=> Holds(v, x)
         /\ \A x \in ExecutionIDs : Held(x)' <=> Held(x)
    BY <1>1, <1>2, <1>4, <1>6, <1>7, HandsKeep
  <1>11. ASSUME NEW x \in ExecutionIDs
         PROVE  /\ InPending(x)' <=> InPending(x)
                /\ InDlq(x)' <=> InDlq(x)
                /\ Settled(x)' <=> Settled(x)
    <2>1. InDlq(x)' <=> InDlq(x)
      BY <1>5 DEF InDlq
    <2>2. InPending(x)' <=> InPending(x)
      BY <1>5 DEF InPending
    <2>3. QED
      BY <1>5, <2>1, <2>2 DEF Settled
  <1>12. ASSUME NEW v \in Workers PROVE HandInv(v)'
    <2>1. CASE v = w
      BY <1>3, <1>4, <1>5, <1>6, <1>7, <1>8, <2>1 DEF HandInv
    <2>2. CASE v # w
      BY <1>2, <1>5, <1>7, <1>8, <2>2, OtherHands
    <2>3. QED
      BY <2>1, <2>2
  <1>13. ASSUME NEW x \in ExecutionIDs
         PROVE  /\ \A v, u \in Workers : Holds(v, x)' /\ Holds(u, x)' => v = u
                /\ InPending(x)' => ~Held(x)' /\ inFlight'[x] = 0
                /\ Settled(x)' => ~InPending(x)' /\ ~Held(x)' /\ inFlight'[x] = 0
                /\ ~(x \in acked' /\ InDlq(x)')
                /\ enq'[x] = "accepted" <=>
                      InPending(x)' \/ Held(x)' \/ inFlight'[x] # 0 \/ Settled(x)'
                /\ Stranded(x)' => ctxDone' # {} /\ inFlight'[x] > 1
    <2>1. CASE x = s.id
      BY <1>2, <1>5, <1>8, <1>10, <1>11, <2>1, Accounts DEF Stranded
    <2>2. CASE x # s.id
      BY <1>5, <1>8, <1>10, <1>11, <2>2, Accounts DEF Stranded
    <2>3. QED
      BY <2>1, <2>2
  <1>14. /\ \A i, j \in 1..Len(dlq') : dlq'[i].id = dlq'[j].id => i = j
         /\ \A i, j \in 1..Len(pending') : pending'[i].id = pending'[j].id => i = j
         /\ \A i \in 1..Len(pending') : pending'[i].attempt <= MaxAttempts
    BY <1>5, Accounts
  <1>15. QED
    BY <1>9, <1>12, <1>13, <1>14, MoveInv

\* The steps in which w lets go of its spec: Ack, NackDrop, NackRequeue, NackCtx.
\* What they share.
LEMMA LetGo ==
    ASSUME DispatchInv, NEW w \in Workers, NEW l \in WorkerPC \ Holding, pc[w] \in Holding,
           l # "off", pc' = [pc EXCEPT ![w] = l], spec' = [spec EXCEPT ![w] = NoSpec],
           \A x \in ExecutionIDs \ {spec[w].id} : inFlight'[x] = inFlight[x],
           closed' = closed, gen' = gen
    PROVE  /\ pc' \in [Workers -> WorkerPC] /\ spec' \in [Workers -> Specs \cup {NoSpec}]
           /\ \A v \in Workers : spec'[v] \in Specs <=> pc'[v] \in Driving \cup Carrying
           /\ \A v \in Workers, x \in ExecutionIDs : Holds(v, x)' <=> Holds(v, x) /\ v # w
           /\ \A x \in ExecutionIDs : Held(x)' <=> Held(x) /\ x # spec[w].id
           /\ \A v \in Workers : HandInv(v)'
  <1>1. /\ spec[w].id \in ExecutionIDs /\ Holds(w, spec[w].id) /\ NoSpec \notin Specs
    BY InHand, Accounts DEF DispatchInv
  <1>2. /\ pc' \in [Workers -> WorkerPC] /\ spec' \in [Workers -> Specs \cup {NoSpec}]
        /\ \A v \in Workers : spec'[v] \in Specs <=> pc'[v] \in Driving \cup Carrying
        /\ pc'[w] = l /\ spec'[w] = NoSpec /\ OthersKeep(w)
    BY <1>1, HandWrite
  <1>3. /\ \A v \in Workers, x \in ExecutionIDs : Holds(v, x)' <=> Holds(v, x) /\ v # w
        /\ \A x \in ExecutionIDs : Held(x)' <=> Held(x) /\ x # spec[w].id
    BY <1>1, <1>2, HandsRelease DEF DispatchInv
  <1>4. ASSUME NEW v \in Workers PROVE HandInv(v)'
    <2>1. CASE v = w
      <3>1. ~(Gen(w) > gen)
        BY Accounts DEF HandInv, Holding, Driving, Carrying
      <3>2. l \notin Driving \cup Carrying /\ l \notin {"remove", "drop", "requeue"}
        BY DEF Holding, Driving, Carrying
      <3>3. QED
        BY <1>2, <2>1, <3>1, <3>2 DEF HandInv
    <2>2. CASE v # w
      BY <1>1, <1>2, <2>2, OtherHands
    <2>3. QED
      BY <2>1, <2>2
  <1>5. QED
    BY <1>2, <1>3, <1>4

\* Ack: the entry goes and the spec is acked.
LEMMA AckStep ==
    ASSUME DispatchInv, NEW w \in Workers, Ack(w)
    PROVE  DispatchInv'
  <1>1. pc[w] = "ack" /\ pc[w] \in Holding /\ pc[w] \in Driving
    BY DEF Ack, Holding, Driving
  <1>2. PICK id \in ExecutionIDs : /\ id = spec[w].id /\ Holds(w, id) /\ Held(id)
                                  /\ inFlight[id] # 0
    BY <1>1, InHand, Accounts DEF DispatchInv, HandInv
  <1>3. /\ pc' = [pc EXCEPT ![w] = "loop"] /\ spec' = [spec EXCEPT ![w] = NoSpec]
        /\ inFlight' = [inFlight EXCEPT ![id] = 0] /\ acked' = acked \cup {id}
        /\ UNCHANGED <<pending, dlq, dropped, closed, closeCh, enq>>
        /\ UNCHANGED <<running, gen, ctxDone, stopPc, stopGen, stats, spawns>>
    BY <1>2 DEF Ack, IsInFlight, RemoveInFlight, Release, Goto, controlVars
  <1>4. /\ inFlight' \in [ExecutionIDs -> Nat] /\ inFlight'[id] = 0
        /\ \A x \in ExecutionIDs \ {id} : inFlight'[x] = inFlight[x]
    BY <1>3, Accounts
  <1>5. "loop" \in WorkerPC \ Holding
    BY DEF WorkerPC, Holding, Driving, Carrying
  <1>6. /\ pc' \in [Workers -> WorkerPC] /\ spec' \in [Workers -> Specs \cup {NoSpec}]
        /\ \A v \in Workers : spec'[v] \in Specs <=> pc'[v] \in Driving \cup Carrying
        /\ \A v \in Workers, x \in ExecutionIDs : Holds(v, x)' <=> Holds(v, x) /\ v # w
        /\ \A x \in ExecutionIDs : Held(x)' <=> Held(x) /\ x # id
        /\ \A v \in Workers : HandInv(v)'
    BY <1>1, <1>2, <1>3, <1>4, <1>5, LetGo
  <1>7. TypeOK'
    BY <1>3, <1>4, <1>6 DEF DispatchInv, TypeOK, QueueTypeOK
  <1>8. ASSUME NEW x \in ExecutionIDs
        PROVE  /\ InPending(x)' <=> InPending(x)
               /\ InDlq(x)' <=> InDlq(x)
               /\ Settled(x)' <=> Settled(x) \/ x = id
    <2>1. InDlq(x)' <=> InDlq(x)
      BY <1>3 DEF InDlq
    <2>2. InPending(x)' <=> InPending(x)
      BY <1>3 DEF InPending
    <2>3. QED
      BY <1>3, <2>1, <2>2 DEF Settled
  <1>9. ~InDlq(id) /\ ~InPending(id) /\ enq[id] = "accepted"
    BY <1>2, Accounts DEF Settled
  <1>10. ASSUME NEW x \in ExecutionIDs
         PROVE  /\ \A v, u \in Workers : Holds(v, x)' /\ Holds(u, x)' => v = u
                /\ InPending(x)' => ~Held(x)' /\ inFlight'[x] = 0
                /\ Settled(x)' => ~InPending(x)' /\ ~Held(x)' /\ inFlight'[x] = 0
                /\ ~(x \in acked' /\ InDlq(x)')
                /\ enq'[x] = "accepted" <=>
                      InPending(x)' \/ Held(x)' \/ inFlight'[x] # 0 \/ Settled(x)'
                /\ Stranded(x)' => ctxDone' # {} /\ inFlight'[x] > 1
    <2>1. CASE x = id
      BY <1>3, <1>4, <1>6, <1>8, <1>9, <2>1, Accounts DEF Stranded
    <2>2. CASE x # id
      BY <1>3, <1>4, <1>6, <1>8, <2>2, Accounts DEF Stranded
    <2>3. QED
      BY <2>1, <2>2
  <1>11. /\ \A i, j \in 1..Len(dlq') : dlq'[i].id = dlq'[j].id => i = j
         /\ \A i, j \in 1..Len(pending') : pending'[i].id = pending'[j].id => i = j
         /\ \A i \in 1..Len(pending') : pending'[i].attempt <= MaxAttempts
    BY <1>3, Accounts
  <1>12. QED
    BY <1>6, <1>7, <1>10, <1>11, MoveInv

\* NackDrop: the entry goes and the spec is dead-lettered.
LEMMA NackDropStep ==
    ASSUME DispatchInv, NEW w \in Workers, NackDrop(w)
    PROVE  DispatchInv'
  <1>1. pc[w] = "drop" /\ pc[w] \in Holding /\ pc[w] \in Driving
    BY DEF NackDrop, Holding, Driving
  <1>2. PICK s \in Specs : /\ s = spec[w] /\ s.id \in ExecutionIDs
                           /\ Holds(w, s.id) /\ Held(s.id) /\ inFlight[s.id] # 0
    BY <1>1, InHand, Accounts DEF DispatchInv, HandInv
  <1>3. /\ pc' = [pc EXCEPT ![w] = "recordDropped"] /\ spec' = [spec EXCEPT ![w] = NoSpec]
        /\ inFlight' = [inFlight EXCEPT ![s.id] = 0] /\ dlq' = Append(dlq, s) /\ dropped' = dropped + 1
        /\ UNCHANGED <<pending, closed, closeCh, enq>>
        /\ UNCHANGED <<running, gen, ctxDone, stopPc, stopGen, stats, acked, spawns>>
    BY <1>2 DEF NackDrop, DeadLetter, Goto, controlVars
  <1>4. /\ inFlight' \in [ExecutionIDs -> Nat] /\ inFlight'[s.id] = 0
        /\ \A x \in ExecutionIDs \ {s.id} : inFlight'[x] = inFlight[x]
    BY <1>2, <1>3, Accounts
  <1>5. "recordDropped" \in WorkerPC \ Holding
    BY DEF WorkerPC, Recording, Holding, Driving, Carrying
  <1>6. /\ pc' \in [Workers -> WorkerPC] /\ spec' \in [Workers -> Specs \cup {NoSpec}]
        /\ \A v \in Workers : spec'[v] \in Specs <=> pc'[v] \in Driving \cup Carrying
        /\ \A v \in Workers, x \in ExecutionIDs : Holds(v, x)' <=> Holds(v, x) /\ v # w
        /\ \A x \in ExecutionIDs : Held(x)' <=> Held(x) /\ x # s.id
        /\ \A v \in Workers : HandInv(v)'
    BY <1>1, <1>2, <1>3, <1>4, <1>5, LetGo
  <1>7. /\ dlq' \in Seq(Specs) /\ Len(dlq') = Len(dlq) + 1 /\ Len(dlq) \in Nat
        /\ \A x \in ExecutionIDs : InDlq(x)' <=> InDlq(x) \/ x = s.id
        /\ \A i \in 1..Len(dlq) : dlq'[i] = dlq[i]
        /\ dlq'[Len(dlq) + 1] = s
        /\ \A i \in 1..Len(dlq') : i \in 1..Len(dlq) \/ i = Len(dlq) + 1
    BY <1>3, DlqAppend, Accounts
  <1>8. TypeOK'
    <2>1. QueueTypeOK'
      BY <1>3, <1>4, <1>7 DEF DispatchInv, TypeOK, QueueTypeOK
    <2>2. QED
      BY <1>3, <1>6, <2>1 DEF DispatchInv, TypeOK
  <1>9. ASSUME NEW x \in ExecutionIDs
        PROVE  /\ InPending(x)' <=> InPending(x)
               /\ Settled(x)' <=> Settled(x) \/ x = s.id
    <2>1. InPending(x)' <=> InPending(x)
      BY <1>3 DEF InPending
    <2>2. QED
      BY <1>3, <1>7, <2>1 DEF Settled
  <1>10. ~InDlq(s.id) /\ s.id \notin acked /\ ~InPending(s.id) /\ enq[s.id] = "accepted"
    BY <1>2, Accounts DEF Settled
  <1>11. ASSUME NEW x \in ExecutionIDs
         PROVE  /\ \A v, u \in Workers : Holds(v, x)' /\ Holds(u, x)' => v = u
                /\ InPending(x)' => ~Held(x)' /\ inFlight'[x] = 0
                /\ Settled(x)' => ~InPending(x)' /\ ~Held(x)' /\ inFlight'[x] = 0
                /\ ~(x \in acked' /\ InDlq(x)')
                /\ enq'[x] = "accepted" <=>
                      InPending(x)' \/ Held(x)' \/ inFlight'[x] # 0 \/ Settled(x)'
                /\ Stranded(x)' => ctxDone' # {} /\ inFlight'[x] > 1
    <2>1. CASE x = s.id
      BY <1>3, <1>4, <1>6, <1>9, <1>10, <2>1, Accounts DEF Stranded
    <2>2. CASE x # s.id
      BY <1>3, <1>4, <1>6, <1>7, <1>9, <2>2, Accounts DEF Stranded
    <2>3. QED
      BY <2>1, <2>2
  <1>12. \A i, j \in 1..Len(dlq') : dlq'[i].id = dlq'[j].id => i = j
    <2>1. \A i \in 1..Len(dlq) : dlq[i].id # s.id
      BY <1>10 DEF InDlq
    <2>2. QED
      BY <1>7, <2>1, Accounts
  <1>13. /\ \A i, j \in 1..Len(pending') : pending'[i].id = pending'[j].id => i = j
         /\ \A i \in 1..Len(pending') : pending'[i].attempt <= MaxAttempts
    BY <1>3, Accounts
  <1>14. QED
    BY <1>6, <1>8, <1>11, <1>12, <1>13, MoveInv

\* NackRequeue: the retry goes back into the channel.
LEMMA NackRequeueStep ==
    ASSUME DispatchInv, NEW w \in Workers, NackRequeue(w)
    PROVE  DispatchInv'
  <1>1. pc[w] = "requeue" /\ pc[w] \in Holding /\ pc[w] \in Carrying
    BY DEF NackRequeue, Holding, Carrying
  <1>2. PICK s \in Specs : /\ s = spec[w] /\ s.id \in ExecutionIDs /\ Holds(w, s.id) /\ Held(s.id)
                           /\ inFlight[s.id] = 0 /\ s.attempt <= MaxAttempts
    BY <1>1, InHand, Accounts DEF DispatchInv, HandInv
  <1>3. /\ pc' = [pc EXCEPT ![w] = "recordRetried"] /\ spec' = [spec EXCEPT ![w] = NoSpec]
        /\ pending' = Append(pending, s) /\ Len(pending) < BufferSize
        /\ UNCHANGED <<inFlight, dlq, dropped, closed, closeCh, enq>>
        /\ UNCHANGED <<running, gen, ctxDone, stopPc, stopGen, stats, acked, spawns>>
    BY <1>2 DEF NackRequeue, SendRetry, HasRoom, Goto, controlVars
  <1>4. "recordRetried" \in WorkerPC \ Holding
    BY DEF WorkerPC, Recording, Holding, Driving, Carrying
  <1>5. /\ pc' \in [Workers -> WorkerPC] /\ spec' \in [Workers -> Specs \cup {NoSpec}]
        /\ \A v \in Workers : spec'[v] \in Specs <=> pc'[v] \in Driving \cup Carrying
        /\ \A v \in Workers, x \in ExecutionIDs : Holds(v, x)' <=> Holds(v, x) /\ v # w
        /\ \A x \in ExecutionIDs : Held(x)' <=> Held(x) /\ x # s.id
        /\ \A v \in Workers : HandInv(v)'
    BY <1>1, <1>2, <1>3, <1>4, LetGo
  <1>6. /\ pending' \in Seq(Specs) /\ Len(pending') = Len(pending) + 1 /\ Len(pending) \in Nat
        /\ \A x \in ExecutionIDs : InPending(x)' <=> InPending(x) \/ x = s.id
        /\ \A i \in 1..Len(pending) : pending'[i] = pending[i]
        /\ pending'[Len(pending) + 1] = s
        /\ \A i \in 1..Len(pending') : i \in 1..Len(pending) \/ i = Len(pending) + 1
    BY <1>3, ChannelSend, Accounts
  <1>7. TypeOK'
    <2>1. QueueTypeOK'
      BY <1>3, <1>6, QueueAssumption DEF DispatchInv, TypeOK, QueueTypeOK
    <2>2. QED
      BY <1>3, <1>5, <2>1 DEF DispatchInv, TypeOK
  <1>8. ASSUME NEW x \in ExecutionIDs
        PROVE  (InDlq(x)' <=> InDlq(x)) /\ (Settled(x)' <=> Settled(x))
    <2>1. InDlq(x)' <=> InDlq(x)
      BY <1>3 DEF InDlq
    <2>2. QED
      BY <1>3, <2>1 DEF Settled
  <1>9. ~Settled(s.id) /\ ~InPending(s.id) /\ enq[s.id] = "accepted"
    BY <1>2, Accounts
  <1>10. ASSUME NEW x \in ExecutionIDs
         PROVE  /\ \A v, u \in Workers : Holds(v, x)' /\ Holds(u, x)' => v = u
                /\ InPending(x)' => ~Held(x)' /\ inFlight'[x] = 0
                /\ Settled(x)' => ~InPending(x)' /\ ~Held(x)' /\ inFlight'[x] = 0
                /\ ~(x \in acked' /\ InDlq(x)')
                /\ enq'[x] = "accepted" <=>
                      InPending(x)' \/ Held(x)' \/ inFlight'[x] # 0 \/ Settled(x)'
                /\ Stranded(x)' => ctxDone' # {} /\ inFlight'[x] > 1
    <2>1. CASE x = s.id
      BY <1>2, <1>3, <1>5, <1>6, <1>8, <1>9, <2>1, Accounts DEF Stranded
    <2>2. CASE x # s.id
      BY <1>3, <1>5, <1>6, <1>8, <2>2, Accounts DEF Stranded
    <2>3. QED
      BY <2>1, <2>2
  <1>11. \A i, j \in 1..Len(pending') : pending'[i].id = pending'[j].id => i = j
    <2>1. \A i \in 1..Len(pending) : pending[i].id # s.id
      BY <1>9 DEF InPending
    <2>2. QED
      BY <1>6, <2>1, Accounts
  <1>12. /\ \A i \in 1..Len(pending') : pending'[i].attempt <= MaxAttempts
         /\ \A i, j \in 1..Len(dlq') : dlq'[i].id = dlq'[j].id => i = j
    BY <1>2, <1>3, <1>6, Accounts
  <1>13. QED
    BY <1>5, <1>7, <1>10, <1>11, <1>12, MoveInv

\* NackCtx: the retry is stranded in the in-flight map.
LEMMA NackCtxStep ==
    ASSUME DispatchInv, NEW w \in Workers, NackCtx(w)
    PROVE  DispatchInv'
  <1>1. pc[w] = "requeue" /\ pc[w] \in Holding /\ pc[w] \in Carrying /\ ctxDone # {}
    BY DEF NackCtx, Holding, Carrying
  <1>2. PICK s \in Specs : /\ s = spec[w] /\ s.id \in ExecutionIDs /\ Holds(w, s.id) /\ Held(s.id)
                           /\ inFlight[s.id] = 0 /\ s.attempt > 1 /\ s.attempt \in Nat
    BY <1>1, InHand, Accounts DEF DispatchInv, HandInv
  <1>3. /\ pc' = [pc EXCEPT ![w] = "loop"] /\ spec' = [spec EXCEPT ![w] = NoSpec]
        /\ inFlight' = [inFlight EXCEPT ![s.id] = s.attempt]
        /\ UNCHANGED <<pending, dlq, dropped, closed, closeCh, enq>>
        /\ UNCHANGED <<running, gen, ctxDone, stopPc, stopGen, stats, acked, spawns>>
    BY <1>2 DEF NackCtx, StoreInFlight, Release, Goto, controlVars
  <1>4. /\ inFlight' \in [ExecutionIDs -> Nat] /\ inFlight'[s.id] = s.attempt
        /\ \A x \in ExecutionIDs \ {s.id} : inFlight'[x] = inFlight[x]
    BY <1>2, <1>3, Accounts
  <1>5. "loop" \in WorkerPC \ Holding
    BY DEF WorkerPC, Holding, Driving, Carrying
  <1>6. /\ pc' \in [Workers -> WorkerPC] /\ spec' \in [Workers -> Specs \cup {NoSpec}]
        /\ \A v \in Workers : spec'[v] \in Specs <=> pc'[v] \in Driving \cup Carrying
        /\ \A v \in Workers, x \in ExecutionIDs : Holds(v, x)' <=> Holds(v, x) /\ v # w
        /\ \A x \in ExecutionIDs : Held(x)' <=> Held(x) /\ x # s.id
        /\ \A v \in Workers : HandInv(v)'
    BY <1>1, <1>2, <1>3, <1>4, <1>5, LetGo
  <1>7. TypeOK'
    BY <1>3, <1>4, <1>6 DEF DispatchInv, TypeOK, QueueTypeOK
  <1>8. ASSUME NEW x \in ExecutionIDs
        PROVE  /\ InPending(x)' <=> InPending(x)
               /\ InDlq(x)' <=> InDlq(x)
               /\ Settled(x)' <=> Settled(x)
    <2>1. InDlq(x)' <=> InDlq(x)
      BY <1>3 DEF InDlq
    <2>2. InPending(x)' <=> InPending(x)
      BY <1>3 DEF InPending
    <2>3. QED
      BY <1>3, <2>1, <2>2 DEF Settled
  <1>9. ~Settled(s.id) /\ ~InPending(s.id) /\ enq[s.id] = "accepted"
    BY <1>2, Accounts
  <1>10. ASSUME NEW x \in ExecutionIDs
         PROVE  /\ \A v, u \in Workers : Holds(v, x)' /\ Holds(u, x)' => v = u
                /\ InPending(x)' => ~Held(x)' /\ inFlight'[x] = 0
                /\ Settled(x)' => ~InPending(x)' /\ ~Held(x)' /\ inFlight'[x] = 0
                /\ ~(x \in acked' /\ InDlq(x)')
                /\ enq'[x] = "accepted" <=>
                      InPending(x)' \/ Held(x)' \/ inFlight'[x] # 0 \/ Settled(x)'
                /\ Stranded(x)' => ctxDone' # {} /\ inFlight'[x] > 1
    <2>1. CASE x = s.id
      BY <1>1, <1>2, <1>3, <1>4, <1>6, <1>8, <1>9, <2>1, Accounts DEF Stranded
    <2>2. CASE x # s.id
      BY <1>3, <1>4, <1>6, <1>8, <2>2, Accounts DEF Stranded
    <2>3. QED
      BY <2>1, <2>2
  <1>11. /\ \A i, j \in 1..Len(dlq') : dlq'[i].id = dlq'[j].id => i = j
         /\ \A i, j \in 1..Len(pending') : pending'[i].id = pending'[j].id => i = j
         /\ \A i \in 1..Len(pending') : pending'[i].attempt <= MaxAttempts
    BY <1>3, Accounts
  <1>12. QED
    BY <1>6, <1>7, <1>10, <1>11, MoveInv

-----------------------------------------------------------------------------
\* Theorems.

\* Every step of callers, workers, Start, Stop and Close keeps the invariant.
LEMMA DispatchStepInv ==
    ASSUME DispatchInv, [Next]_vars
    PROVE  DispatchInv'
  <1>1. CASE UNCHANGED vars
    <2>1. TypeOK' /\ Quiet /\ \A w \in Workers : HandInv(w)'
      BY <1>1 DEF vars, queueVars, dispVars, DispatchInv, TypeOK, QueueTypeOK, Quiet, HandInv
    <2>2. QED
      BY <2>1, QuietInv
  <1>2. CASE QueueNext /\ UNCHANGED dispVars
    BY <1>2, QueueQuiet, EnqueueSendStep DEF QueueNext
  <1>3. ASSUME NEW w \in Workers, WorkerStep(w) PROVE DispatchInv'
    BY <1>3, IdleQuiet, DrivingQuiet, DequeueStep, RegisterRemoveStep, AckStep, NackDropStep,
       NackRequeueStep, NackCtxStep DEF WorkerStep
  <1>4. QED
    BY <1>1, <1>2, <1>3, ControlQuiet, IdleQuiet DEF Next

\* DispatchInv holds of every behaviour.
THEOREM DispatchInvariant == Spec => []DispatchInv
  BY DispatchInitially, DispatchStepInv, PTL DEF Spec

\* Queue and dispatcher are well typed, and the channel within its capacity.
THEOREM DispatchTypes == Spec => []TypeOK
  <1>1. DispatchInv => TypeOK
    BY DEF DispatchInv
  <1>2. QED
    BY <1>1, DispatchInvariant, PTL

\* No step of Dequeue, Ack and Nack loses an accepted spec, and what a worker
\* drives is in the in-flight map under its attempt number.
THEOREM NothingLost == Spec => []NoSpecLost
  <1>1. ASSUME DispatchInv PROVE NoSpecLost
    <2>1. ASSUME NEW id \in ExecutionIDs
          PROVE  /\ enq[id] = "accepted" <=>
                       InPending(id) \/ Held(id) \/ Stranded(id) \/ Settled(id)
                 /\ Stranded(id) => ctxDone # {} /\ inFlight[id] > 1
      BY <1>1, Accounts DEF Stranded
    <2>2. \A w \in Workers : pc[w] \in Driving => inFlight[spec[w].id] = spec[w].attempt
      BY <1>1, Accounts DEF HandInv
    <2>3. QED
      BY <2>1, <2>2 DEF NoSpecLost
  <1>2. QED
    BY <1>1, DispatchInvariant, PTL

\* There is never a second copy of a spec that could run.
THEOREM NothingDuplicated == Spec => []NoSpecDuplicated
  <1>1. DispatchInv => NoSpecDuplicated
    BY DEF DispatchInv
  <1>2. QED
    BY <1>1, DispatchInvariant, PTL

-----------------------------------------------------------------------------
\* The dispatcher implements the abstract work queue.

\* The attempt the work queue counts for the spec in a worker's hands: the next
\* one only shows once the retry is sent.
Shown(w) == IF pc[w] = "requeue" THEN spec[w].attempt - 1 ELSE spec[w].attempt

\* The refinement mapping, without its choices: where a spec is decides what
\* the work queue sees of it.
View(id) ==
    /\ enq[id] # "accepted" => JobOf(id) = "new" /\ AttemptOf(id) = 0
    /\ id \in acked => JobOf(id) = "done" /\ AttemptOf(id) = 0
    /\ \A i \in 1..Len(dlq) :
          dlq[i].id = id => JobOf(id) = "dead" /\ AttemptOf(id) = dlq[i].attempt
    /\ \A i \in 1..Len(pending) :
          pending[i].id = id => JobOf(id) = "queued" /\ AttemptOf(id) = pending[i].attempt
    /\ \A w \in Workers :
          Holds(w, id) => JobOf(id) = "leased" /\ AttemptOf(id) = Shown(w)
    /\ Stranded(id) => JobOf(id) = "stranded" /\ AttemptOf(id) = inFlight[id]

ViewInv == \A id \in ExecutionIDs : View(id)

\* NoSpecDuplicated makes the choices unique.
LEMMA Views == DispatchInv => ViewInv
  <1> SUFFICES ASSUME DispatchInv, NEW id \in ExecutionIDs PROVE View(id)
    BY DEF ViewInv
  <1>1. /\ InPending(id) => ~Held(id) /\ inFlight[id] = 0 /\ ~InDlq(id) /\ id \notin acked
        /\ Held(id) => ~InDlq(id) /\ id \notin acked
        /\ inFlight[id] # 0 => ~InDlq(id) /\ id \notin acked
        /\ InDlq(id) => inFlight[id] = 0 /\ id \notin acked
        /\ id \in acked => inFlight[id] = 0
    BY Accounts DEF Settled
  <1>2. ASSUME enq[id] # "accepted" PROVE JobOf(id) = "new" /\ AttemptOf(id) = 0
    <2>1. ~InPending(id) /\ ~Held(id) /\ inFlight[id] = 0 /\ ~InDlq(id) /\ id \notin acked
      BY <1>2, Accounts DEF Settled
    <2>2. QED
      BY <2>1 DEF JobOf, AttemptOf, Stranded
  <1>3. ASSUME id \in acked PROVE JobOf(id) = "done" /\ AttemptOf(id) = 0
    BY <1>1, <1>3 DEF JobOf, AttemptOf, Stranded
  <1>4. ASSUME NEW i \in 1..Len(dlq), dlq[i].id = id
        PROVE  JobOf(id) = "dead" /\ AttemptOf(id) = dlq[i].attempt
    <2>1. InDlq(id)
      BY <1>4 DEF InDlq
    <2>2. (CHOOSE j \in 1..Len(dlq) : dlq[j].id = id) = i
      BY <1>4, Accounts
    <2>3. QED
      BY <1>1, <2>1, <2>2 DEF JobOf, AttemptOf, Stranded
  <1>5. ASSUME NEW i \in 1..Len(pending), pending[i].id = id
        PROVE  JobOf(id) = "queued" /\ AttemptOf(id) = pending[i].attempt
    <2>1. InPending(id)
      BY <1>5 DEF InPending
    <2>2. (CHOOSE j \in 1..Len(pending) : pending[j].id = id) = i
      BY <1>5, Accounts
    <2>3. QED
      BY <1>1, <2>1, <2>2 DEF JobOf, AttemptOf, Stranded
  <1>6. ASSUME NEW w \in Workers, Holds(w, id)
        PROVE  JobOf(id) = "leased" /\ AttemptOf(id) = Shown(w)
    <2>1. Held(id)
      BY <1>6 DEF Held
    <2>2. (CHOOSE v \in Workers : Holds(v, id)) = w
      BY <1>6, Accounts
    <2>3. ~InPending(id) /\ ~InDlq(id) /\ id \notin acked
      BY <1>1, <2>1
    <2>4. JobOf(id) = "leased"
      BY <2>1, <2>3 DEF JobOf, Stranded
    <2>5. AttemptOf(id) = Shown(CHOOSE v \in Workers : Holds(v, id))
      BY <2>1, <2>3 DEF AttemptOf, Shown
    <2>6. QED
      BY <2>2, <2>4, <2>5
  <1>7. ASSUME Stranded(id) PROVE JobOf(id) = "stranded" /\ AttemptOf(id) = inFlight[id]
    <2>1. inFlight[id] # 0 /\ ~Held(id) /\ ~InPending(id) /\ ~InDlq(id) /\ id \notin acked
      BY <1>1, <1>7 DEF Stranded
    <2>2. QED
      BY <1>7, <2>1 DEF JobOf, AttemptOf
  <1>8. QED
    BY <1>2, <1>3, <1>4, <1>5, <1>6, <1>7 DEF View

\* A step that leaves the spec id where it is.
Kept(id) ==
    /\ enq'[id] = "accepted" <=> enq[id] = "accepted"
    /\ id \in acked => id \in acked'
    /\ \A i \in 1..Len(dlq) :
          dlq[i].id = id => \E j \in 1..Len(dlq') : dlq'[j] = dlq[i]
    /\ \A i \in 1..Len(pending) :
          pending[i].id = id => \E j \in 1..Len(pending') : pending'[j] = pending[i]
    /\ \A w \in Workers : Holds(w, id) => Holds(w, id)' /\ Shown(w)' = Shown(w)
    /\ Stranded(id) => Stranded(id)' /\ inFlight'[id] = inFlight[id]

\* The work queue sees no change of it.
LEMMA KeptView ==
    ASSUME DispatchInv, ViewInv, ViewInv', NEW id \in ExecutionIDs, Kept(id)
    PROVE  JobOf(id)' = JobOf(id) /\ AttemptOf(id)' = AttemptOf(id)
  <1>0. View(id) /\ View(id)'
    BY DEF ViewInv
  <1>1. CASE enq[id] # "accepted"
    BY <1>0, <1>1 DEF View, Kept
  <1>2. CASE id \in acked
    BY <1>0, <1>2 DEF View, Kept
  <1>3. CASE InDlq(id)
    <2>1. PICK i \in 1..Len(dlq) : dlq[i].id = id
      BY <1>3 DEF InDlq
    <2>2. PICK j \in 1..Len(dlq') : dlq'[j] = dlq[i]
      BY <2>1 DEF Kept
    <2>3. QED
      BY <1>0, <2>1, <2>2 DEF View
  <1>4. CASE InPending(id)
    <2>1. PICK i \in 1..Len(pending) : pending[i].id = id
      BY <1>4 DEF InPending
    <2>2. PICK j \in 1..Len(pending') : pending'[j] = pending[i]
      BY <2>1 DEF Kept
    <2>3. QED
      BY <1>0, <2>1, <2>2 DEF View
  <1>5. CASE Held(id)
    <2>1. PICK w \in Workers : Holds(w, id)
      BY <1>5 DEF Held
    <2>2. Holds(w, id)' /\ Shown(w)' = Shown(w)
      BY <2>1 DEF Kept
    <2>3. QED
      BY <1>0, <2>1, <2>2 DEF View
  <1>6. CASE Stranded(id)
    BY <1>0, <1>6 DEF View, Kept
  <1>7. QED
    BY <1>1, <1>2, <1>3, <1>4, <1>5, <1>6, Accounts DEF Stranded, Settled

\* What the work queue sees.
wqVars == <<[id \in ExecutionIDs |-> JobOf(id)], [id \in ExecutionIDs |-> AttemptOf(id)], ~closed>>

\* A step that moves one spec.
LEMMA MoveView ==
    ASSUME DispatchInv, ViewInv, ViewInv', closed' = closed,
           NEW id \in ExecutionIDs, NEW from, NEW to, NEW n,
           JobOf(id) = from, JobOf(id)' = to, AttemptOf(id)' = n,
           \A x \in ExecutionIDs \ {id} : Kept(x)
    PROVE  WQ!Move(id, from, to, n)
  <1>1. \A x \in ExecutionIDs \ {id} : JobOf(x)' = JobOf(x) /\ AttemptOf(x)' = AttemptOf(x)
    BY KeptView
  <1> DEFINE job == [x \in ExecutionIDs |-> JobOf(x)]
             tries == [x \in ExecutionIDs |-> AttemptOf(x)]
  <1>2. job[id] = from
    OBVIOUS
  <1>3. job' = [job EXCEPT ![id] = to]
    BY <1>1
  <1>4. tries' = [tries EXCEPT ![id] = n]
    BY <1>1
  <1>5. QED
    BY <1>2, <1>3, <1>4 DEF WQ!Move

\* A step that moves none.
LEMMA StillView ==
    ASSUME DispatchInv, ViewInv, ViewInv', \A x \in ExecutionIDs : Kept(x)
    PROVE  /\ [x \in ExecutionIDs |-> JobOf(x)]' = [x \in ExecutionIDs |-> JobOf(x)]
           /\ [x \in ExecutionIDs |-> AttemptOf(x)]' = [x \in ExecutionIDs |-> AttemptOf(x)]
  BY KeptView

\* Nothing is submitted at first.
LEMMA InitView == Init => WQ!Init
  <1> SUFFICES ASSUME Init PROVE WQ!Init
    OBVIOUS
  <1>1. \A id \in ExecutionIDs : JobOf(id) = "new" /\ AttemptOf(id) = 0
    BY DispatchInitially, Views DEF Init, QueueInit, ViewInv, View
  <1>2. ~closed
    BY DEF Init, QueueInit
  <1>3. QED
    BY <1>1, <1>2 DEF WQ!Init

\* A quiet step moves none.
LEMMA QuietKept ==
    ASSUME DispatchInv, Quiet
    PROVE  \A id \in ExecutionIDs : Kept(id)
  <1> SUFFICES ASSUME NEW id \in ExecutionIDs PROVE Kept(id)
    OBVIOUS
  <1>1. pending' = pending /\ dlq' = dlq /\ inFlight' = inFlight /\ acked' = acked /\ spec' = spec
    BY DEF Quiet
  <1>2. \A w \in Workers : (Holds(w, id)' <=> Holds(w, id)) /\ Shown(w)' = Shown(w)
    BY <1>1 DEF Quiet, Holds, Holding, Shown
  <1>3. Stranded(id)' <=> Stranded(id)
    BY <1>1, <1>2 DEF Stranded, Held
  <1>4. enq'[id] = "accepted" <=> enq[id] = "accepted"
    BY DEF Quiet
  <1>5. /\ \A i \in 1..Len(dlq) : dlq[i].id = id => \E j \in 1..Len(dlq') : dlq'[j] = dlq[i]
        /\ \A i \in 1..Len(pending) :
              pending[i].id = id => \E j \in 1..Len(pending') : pending'[j] = pending[i]
    BY <1>1
  <1>6. QED
    BY <1>1, <1>2, <1>3, <1>4, <1>5 DEF Kept

\* EnqueueSend submits.
LEMMA SubmitView ==
    ASSUME DispatchInv, ViewInv, ViewInv', UNCHANGED dispVars,
           NEW id \in ExecutionIDs, EnqueueSend(id)
    PROVE  WQ!Submit(id)
  <1>1. PICK s \in Specs : /\ s = [id |-> id, attempt |-> 1] /\ s.id = id /\ s.attempt = 1
                           /\ pending' = Append(pending, s)
    BY DEF EnqueueSend, Specs
  <1>2. /\ Len(pending') = Len(pending) + 1 /\ Len(pending) \in Nat
        /\ \A i \in 1..Len(pending) : pending'[i] = pending[i]
        /\ pending'[Len(pending) + 1] = s
    BY <1>1, ChannelSend, Accounts
  <1>3. /\ enq' = [enq EXCEPT ![id] = "accepted"] /\ enq[id] = "sending"
        /\ enq \in [ExecutionIDs -> EnqStates] /\ closed' = closed
        /\ UNCHANGED <<inFlight, dlq, pc, spec, acked>>
    BY DEF EnqueueSend, dispVars, DispatchInv, TypeOK, QueueTypeOK
  <1>4. JobOf(id) = "new"
    BY <1>3 DEF ViewInv, View
  <1>5. JobOf(id)' = "queued" /\ AttemptOf(id)' = 1
    <2>1. PICK n \in 1..Len(pending') : pending'[n] = s
      BY <1>2
    <2>2. QED
      BY <1>1, <2>1 DEF ViewInv, View
  <1>6. ASSUME NEW x \in ExecutionIDs \ {id} PROVE Kept(x)
    <2>1. enq'[x] = enq[x]
      BY <1>3
    <2>2. \A i \in 1..Len(pending) : \E j \in 1..Len(pending') : pending'[j] = pending[i]
      BY <1>2
    <2>3. \A i \in 1..Len(dlq) : \E j \in 1..Len(dlq') : dlq'[j] = dlq[i]
      BY <1>3
    <2>4. \A w \in Workers : (Holds(w, x)' <=> Holds(w, x)) /\ Shown(w)' = Shown(w)
      BY <1>3 DEF Holds, Shown
    <2>5. Stranded(x)' <=> Stranded(x)
      BY <1>3, <2>4 DEF Stranded, Held
    <2>6. QED
      BY <1>3, <2>1, <2>2, <2>3, <2>4, <2>5 DEF Kept
  <1>7. QED
    BY <1>3, <1>4, <1>5, <1>6, MoveView DEF WQ!Submit

\* A step of w leaves the specs other workers hold, and the stranded ones.
LEMMA OthersView ==
    ASSUME NEW w \in Workers, OthersKeep(w), NEW x \in ExecutionIDs, ~Holds(w, x),
           pc'[w] \in Holding => spec'[w].id # x, inFlight'[x] = inFlight[x]
    PROVE  /\ \A v \in Workers : Holds(v, x) => Holds(v, x)' /\ Shown(v)' = Shown(v)
           /\ Stranded(x) => Stranded(x)'
  <1>1. \A v \in Workers : (Holds(v, x)' <=> Holds(v, x)) /\ (Holds(v, x) => Shown(v)' = Shown(v))
    BY DEF OthersKeep, Holds, Holding, Shown
  <1>2. QED
    BY <1>1 DEF Stranded, Held

\* Dequeue leases.
LEMMA LeaseView ==
    ASSUME DispatchInv, ViewInv, ViewInv', NEW w \in Workers, Dequeue(w)
    PROVE  \E id \in ExecutionIDs : WQ!Lease(id)
  <1>1. /\ pending # <<>> /\ pending' = Tail(pending) /\ pc[w] = "dequeue"
        /\ pc' = [pc EXCEPT ![w] = "register"]
        /\ UNCHANGED <<inFlight, dlq, closed, enq, acked>>
    BY DEF Dequeue, Receive, Goto
  <1>2. PICK s \in Specs : s = Head(pending)
    BY <1>1, ChannelReceive, Accounts
  <1>3. /\ spec' = [spec EXCEPT ![w] = s] /\ s.id \in ExecutionIDs
    BY <1>2 DEF Dequeue, Specs
  <1>4. /\ Len(pending) \in Nat /\ Len(pending) > 0 /\ s = pending[1]
        /\ Len(pending') = Len(pending) - 1
        /\ \A i \in 1..Len(pending') : pending'[i] = pending[i + 1]
    BY <1>1, <1>2, ChannelReceive, Accounts
  <1>5. "register" \in WorkerPC /\ "register" \in Holding /\ pc[w] \notin Holding
    BY <1>1 DEF WorkerPC, Holding, Driving, Carrying
  <1>6. pc'[w] = "register" /\ spec'[w] = s /\ OthersKeep(w)
    BY <1>1, <1>3, <1>5, HandWrite
  <1>7. JobOf(s.id) = "queued" /\ AttemptOf(s.id) = s.attempt
    <2>1. PICK n \in 1..Len(pending) : pending[n] = s
      BY <1>4
    <2>2. QED
      BY <1>3, <2>1 DEF ViewInv, View
  <1>8. JobOf(s.id)' = "leased" /\ AttemptOf(s.id)' = s.attempt
    <2>1. Holds(w, s.id)' /\ Shown(w)' = s.attempt
      BY <1>5, <1>6 DEF Holds, Holding, Shown
    <2>2. QED
      BY <1>3, <2>1 DEF ViewInv, View
  <1>9. ASSUME NEW x \in ExecutionIDs \ {s.id} PROVE Kept(x)
    <2>1. \A i \in 1..Len(pending) :
             pending[i].id = x => \E j \in 1..Len(pending') : pending'[j] = pending[i]
      <3>1. SUFFICES ASSUME NEW i \in 1..Len(pending), pending[i].id = x
                     PROVE  \E j \in 1..Len(pending') : pending'[j] = pending[i]
        OBVIOUS
      <3>2. i # 1
        BY <1>4, <3>1
      <3>3. i - 1 \in 1..Len(pending') /\ pending'[i - 1] = pending[i]
        BY <1>4, <3>2
      <3>4. QED
        BY <3>3
    <2>2. \A i \in 1..Len(dlq) : \E j \in 1..Len(dlq') : dlq'[j] = dlq[i]
      BY <1>1
    <2>3. /\ \A v \in Workers : Holds(v, x) => Holds(v, x)' /\ Shown(v)' = Shown(v)
          /\ Stranded(x) => Stranded(x)'
      <3>1. ~Holds(w, x)
        BY <1>5 DEF Holds, Holding
      <3>2. QED
        BY <1>1, <1>6, <3>1, OthersView
    <2>4. QED
      BY <1>1, <2>1, <2>2, <2>3 DEF Kept
  <1>10. WQ!Move(s.id, "queued", "leased", s.attempt)
    BY <1>1, <1>3, <1>7, <1>8, <1>9, MoveView
  <1>11. QED
    BY <1>3, <1>7, <1>10 DEF WQ!Lease

\* The steps that let go of a spec leave the others where they are.
LEMMA LetGoView ==
    ASSUME DispatchInv, NEW w \in Workers, NEW l \in WorkerPC \ Holding, pc[w] \in Holding,
           pc' = [pc EXCEPT ![w] = l], spec' = [spec EXCEPT ![w] = NoSpec],
           NEW x \in ExecutionIDs, x # spec[w].id, inFlight'[x] = inFlight[x],
           enq' = enq, acked \subseteq acked',
           \A i \in 1..Len(dlq) : \E j \in 1..Len(dlq') : dlq'[j] = dlq[i],
           \A i \in 1..Len(pending) : \E j \in 1..Len(pending') : pending'[j] = pending[i]
    PROVE  Kept(x)
  <1>1. NoSpec \notin Specs /\ l \notin Holding
    BY Accounts
  <1>2. pc'[w] = l /\ OthersKeep(w)
    BY <1>1, HandWrite
  <1>3. ~Holds(w, x)
    BY DEF Holds
  <1>4. /\ \A v \in Workers : Holds(v, x) => Holds(v, x)' /\ Shown(v)' = Shown(v)
        /\ Stranded(x) => Stranded(x)'
    BY <1>1, <1>2, <1>3, OthersView
  <1>5. QED
    BY <1>4 DEF Kept

\* What the work queue sees of the spec in the hands of w.
LEMMA HandView ==
    ASSUME DispatchInv, ViewInv, NEW w \in Workers, pc[w] \in Holding
    PROVE  /\ spec[w] \in Specs /\ spec[w].id \in ExecutionIDs /\ spec[w].attempt \in Nat \ {0}
           /\ JobOf(spec[w].id) = "leased" /\ AttemptOf(spec[w].id) = Shown(w)
           /\ spec[w].attempt <= MaxAttempts
  BY InHand, Accounts DEF DispatchInv, ViewInv, View, HandInv, Holding

\* Ack completes.
LEMMA CompleteView ==
    ASSUME DispatchInv, ViewInv, ViewInv', NEW w \in Workers, Ack(w)
    PROVE  \E id \in ExecutionIDs : WQ!Complete(id)
  <1>1. pc[w] = "ack" /\ pc[w] \in Holding /\ pc[w] \in Driving
    BY DEF Ack, Holding, Driving
  <1>2. PICK id \in ExecutionIDs : id = spec[w].id /\ JobOf(id) = "leased" /\ inFlight[id] # 0
    BY <1>1, HandView, Accounts DEF HandInv
  <1>3. /\ pc' = [pc EXCEPT ![w] = "loop"] /\ spec' = [spec EXCEPT ![w] = NoSpec]
        /\ inFlight' = [inFlight EXCEPT ![id] = 0] /\ acked' = acked \cup {id}
        /\ UNCHANGED <<pending, dlq, closed, enq>>
    BY <1>2 DEF Ack, IsInFlight, RemoveInFlight, Release, Goto
  <1>4. "loop" \in WorkerPC \ Holding
    BY DEF WorkerPC, Holding, Driving, Carrying
  <1>5. JobOf(id)' = "done" /\ AttemptOf(id)' = 0
    BY <1>3 DEF ViewInv, View
  <1>6. ASSUME NEW x \in ExecutionIDs \ {id} PROVE Kept(x)
    <2>1. inFlight'[x] = inFlight[x]
      BY <1>3, Accounts
    <2>2. QED
      BY <1>1, <1>2, <1>3, <1>4, <2>1, LetGoView
  <1>7. QED
    BY <1>2, <1>3, <1>5, <1>6, MoveView DEF WQ!Complete

\* NackDrop buries.
LEMMA BuryView ==
    ASSUME DispatchInv, ViewInv, ViewInv', NEW w \in Workers, NackDrop(w)
    PROVE  \E id \in ExecutionIDs : WQ!Bury(id)
  <1>1. pc[w] = "drop" /\ pc[w] \in Holding
    BY DEF NackDrop, Holding, Driving
  <1>2. PICK s \in Specs : /\ s = spec[w] /\ s.id \in ExecutionIDs
                           /\ JobOf(s.id) = "leased" /\ AttemptOf(s.id) = s.attempt
                           /\ closed \/ s.attempt = MaxAttempts
    BY <1>1, HandView, Accounts DEF HandInv, Shown
  <1>3. /\ pc' = [pc EXCEPT ![w] = "recordDropped"] /\ spec' = [spec EXCEPT ![w] = NoSpec]
        /\ inFlight' = [inFlight EXCEPT ![s.id] = 0] /\ dlq' = Append(dlq, s)
        /\ UNCHANGED <<pending, closed, enq, acked>>
    BY <1>2 DEF NackDrop, DeadLetter, Goto
  <1>4. "recordDropped" \in WorkerPC \ Holding
    BY DEF WorkerPC, Recording, Holding, Driving, Carrying
  <1>5. /\ Len(dlq') = Len(dlq) + 1 /\ Len(dlq) \in Nat
        /\ \A i \in 1..Len(dlq) : dlq'[i] = dlq[i]
        /\ dlq'[Len(dlq) + 1] = s
    BY <1>3, DlqAppend, Accounts
  <1>6. JobOf(s.id)' = "dead" /\ AttemptOf(s.id)' = s.attempt
    <2>1. PICK n \in 1..Len(dlq') : dlq'[n] = s
      BY <1>5
    <2>2. QED
      BY <1>2, <2>1 DEF ViewInv, View
  <1>7. ASSUME NEW x \in ExecutionIDs \ {s.id} PROVE Kept(x)
    <2>1. inFlight'[x] = inFlight[x]
      BY <1>3, Accounts
    <2>2. \A i \in 1..Len(dlq) : \E j \in 1..Len(dlq') : dlq'[j] = dlq[i]
      BY <1>5
    <2>3. QED
      BY <1>1, <1>2, <1>3, <1>4, <2>1, <2>2, LetGoView
  <1>8. WQ!Move(s.id, "leased", "dead", s.attempt)
    BY <1>2, <1>3, <1>6, <1>7, MoveView
  <1>9. QED
    BY <1>2, <1>8 DEF WQ!Bury

\* NackRequeue retries.
LEMMA RetryView ==
    ASSUME DispatchInv, ViewInv, ViewInv', NEW w \in Workers, NackRequeue(w)
    PROVE  \E id \in ExecutionIDs : WQ!Retry(id)
  <1>1. pc[w] = "requeue" /\ pc[w] \in Holding
    BY DEF NackRequeue, Holding, Carrying
  <1>2. PICK s \in Specs : /\ s = spec[w] /\ s.id \in ExecutionIDs /\ s.attempt \in Nat
                           /\ JobOf(s.id) = "leased" /\ AttemptOf(s.id) = s.attempt - 1
                           /\ s.attempt <= MaxAttempts /\ s.attempt > 1
    BY <1>1, HandView, Accounts DEF HandInv, Shown
  <1>3. /\ pc' = [pc EXCEPT ![w] = "recordRetried"] /\ spec' = [spec EXCEPT ![w] = NoSpec]
        /\ pending' = Append(pending, s)
        /\ UNCHANGED <<inFlight, dlq, closed, enq, acked>>
    BY <1>2 DEF NackRequeue, SendRetry, Goto
  <1>4. "recordRetried" \in WorkerPC \ Holding
    BY DEF WorkerPC, Recording, Holding, Driving, Carrying
  <1>5. /\ Len(pending') = Len(pending) + 1 /\ Len(pending) \in Nat
        /\ \A i \in 1..Len(pending) : pending'[i] = pending[i]
        /\ pending'[Len(pending) + 1] = s
    BY <1>3, ChannelSend, Accounts
  <1>6. JobOf(s.id)' = "queued" /\ AttemptOf(s.id)' = s.attempt
    <2>1. PICK n \in 1..Len(pending') : pending'[n] = s
      BY <1>5
    <2>2. QED
      BY <1>2, <2>1 DEF ViewInv, View
  <1>7. ASSUME NEW x \in ExecutionIDs \ {s.id} PROVE Kept(x)
    <2>1. \A i \in 1..Len(pending) : \E j \in 1..Len(pending') : pending'[j] = pending[i]
      BY <1>5
    <2>2. QED
      BY <1>1, <1>2, <1>3, <1>4, <2>1, LetGoView
  <1>8. WQ!Move(s.id, "leased", "queued", s.attempt)
    BY <1>2, <1>3, <1>6, <1>7, MoveView
  <1>9. /\ [x \in ExecutionIDs |-> AttemptOf(x)][s.id] < MaxAttempts
        /\ [x \in ExecutionIDs |-> AttemptOf(x)][s.id] + 1 = s.attempt
    BY <1>2, QueueAssumption
  <1>10. QED
    BY <1>2, <1>8, <1>9 DEF WQ!Retry

\* NackCtx strands.
LEMMA StrandView ==
    ASSUME DispatchInv, ViewInv, ViewInv', NEW w \in Workers, NackCtx(w)
    PROVE  \E id \in ExecutionIDs : WQ!Strand(id)
  <1>1. pc[w] = "requeue" /\ pc[w] \in Holding
    BY DEF NackCtx, Holding, Carrying
  <1>2. PICK s \in Specs : /\ s = spec[w] /\ s.id \in ExecutionIDs /\ s.attempt \in Nat
                           /\ JobOf(s.id) = "leased" /\ AttemptOf(s.id) = s.attempt - 1
                           /\ s.attempt <= MaxAttempts /\ s.attempt > 1 /\ Holds(w, s.id)
    BY <1>1, HandView, InHand, Accounts DEF DispatchInv, HandInv, Shown
  <1>3. /\ pc' = [pc EXCEPT ![w] = "loop"] /\ spec' = [spec EXCEPT ![w] = NoSpec]
        /\ inFlight' = [inFlight EXCEPT ![s.id] = s.attempt]
        /\ UNCHANGED <<pending, dlq, closed, enq, acked>>
    BY <1>2 DEF NackCtx, StoreInFlight, Release, Goto
  <1>4. "loop" \in WorkerPC \ Holding
    BY DEF WorkerPC, Holding, Driving, Carrying
  <1>5. JobOf(s.id)' = "stranded" /\ AttemptOf(s.id)' = s.attempt
    <2>1. pc'[w] = "loop" /\ OthersKeep(w)
      BY <1>3, <1>4, Accounts, HandWrite
    <2>2. inFlight'[s.id] = s.attempt /\ s.attempt # 0
      BY <1>2, <1>3, Accounts
    <2>3. \A v \in Workers : ~Holds(v, s.id)'
      <3>1. \A v \in Workers \ {w} : ~Holds(v, s.id)
        BY <1>2, Accounts
      <3>2. QED
        BY <1>4, <2>1, <3>1 DEF Holds, Holding, OthersKeep
    <2>4. Stranded(s.id)'
      BY <2>2, <2>3 DEF Stranded, Held
    <2>5. QED
      BY <1>2, <2>2, <2>4 DEF ViewInv, View
  <1>6. ASSUME NEW x \in ExecutionIDs \ {s.id} PROVE Kept(x)
    <2>1. inFlight'[x] = inFlight[x]
      BY <1>3, Accounts
    <2>2. QED
      BY <1>1, <1>2, <1>3, <1>4, <2>1, LetGoView
  <1>7. WQ!Move(s.id, "leased", "stranded", s.attempt)
    BY <1>2, <1>3, <1>5, <1>6, MoveView
  <1>8. /\ [x \in ExecutionIDs |-> AttemptOf(x)][s.id] < MaxAttempts
        /\ [x \in ExecutionIDs |-> AttemptOf(x)][s.id] + 1 = s.attempt
    BY <1>2, QueueAssumption
  <1>9. QED
    BY <1>2, <1>7, <1>8 DEF WQ!Strand

\* Register and NackRemove stay inside the lease: the attempt shown is the same.
LEMMA LeasedView ==
    ASSUME DispatchInv, NEW w \in Workers, Register(w) \/ NackRemove(w)
    PROVE  \A x \in ExecutionIDs : Kept(x)
  <1>1. pc[w] \in {"register", "remove"} /\ pc[w] \in Holding
    BY DEF Register, NackRemove, Holding, Driving, Carrying
  <1>2. PICK s \in Specs : s = spec[w] /\ s.id \in ExecutionIDs /\ s.attempt \in Nat /\ Holds(w, s.id)
    BY <1>1, InHand DEF DispatchInv
  <1>3. PICK l \in {"spawn", "requeue"}, t \in Specs, n \in Nat :
           /\ pc' = [pc EXCEPT ![w] = l] /\ spec' = [spec EXCEPT ![w] = t]
           /\ inFlight' = [inFlight EXCEPT ![s.id] = n]
           /\ t.id = s.id
           /\ t.attempt = IF l = "requeue" THEN s.attempt + 1 ELSE s.attempt
           /\ UNCHANGED <<pending, dlq, closed, enq, acked>>
    <2>1. CASE Register(w)
      <3>1. spec' = [spec EXCEPT ![w] = s]
        BY <1>2, <2>1, Accounts DEF Register
      <3>2. QED
        BY <1>2, <2>1, <3>1 DEF Register, StoreInFlight, Goto
    <2>2. CASE NackRemove(w)
      <3>1. PICK t \in Specs : t = Retry(s) /\ t.id = s.id /\ t.attempt = s.attempt + 1
        <4>1. s = [id |-> s.id, attempt |-> s.attempt]
          BY DEF Specs
        <4>2. Retry(s) = [id |-> s.id, attempt |-> s.attempt + 1]
          BY <4>1 DEF Retry
        <4>3. Retry(s) \in Specs
          BY <1>2, <4>2 DEF Specs
        <4>4. QED
          BY <4>2, <4>3
      <3>2. spec' = [spec EXCEPT ![w] = t]
        BY <1>2, <2>2, <3>1 DEF NackRemove
      <3>3. QED
        BY <1>2, <2>2, <3>1, <3>2 DEF NackRemove, RemoveInFlight, Goto
    <2>3. QED
      BY <2>1, <2>2
  <1>4. l \in WorkerPC /\ l \in Holding
    BY DEF WorkerPC, Holding, Driving, Carrying
  <1>5. pc'[w] = l /\ spec'[w] = t /\ OthersKeep(w)
    BY <1>3, <1>4, HandWrite
  <1>6. Holds(w, s.id)' /\ Shown(w)' = Shown(w)
    BY <1>1, <1>2, <1>3, <1>4, <1>5 DEF Holds, Holding, Shown
  <1>7. \A i \in 1..Len(dlq) : \E j \in 1..Len(dlq') : dlq'[j] = dlq[i]
    BY <1>3
  <1>8. \A i \in 1..Len(pending) : \E j \in 1..Len(pending') : pending'[j] = pending[i]
    BY <1>3
  <1>9. ASSUME NEW x \in ExecutionIDs PROVE Kept(x)
    <2>1. CASE x = s.id
      <3>1. Held(s.id)
        BY <1>2 DEF Held
      <3>2. \A v \in Workers : Holds(v, x) => v = w
        BY <1>2, <2>1, Accounts
      <3>3. QED
        BY <1>3, <1>6, <1>7, <1>8, <2>1, <3>1, <3>2 DEF Kept, Stranded
    <2>2. CASE x # s.id
      <3>1. inFlight'[x] = inFlight[x]
        BY <1>3, <2>2, Accounts
      <3>2. ~Holds(w, x)
        BY <1>2, <2>2 DEF Holds
      <3>3. /\ \A v \in Workers : Holds(v, x) => Holds(v, x)' /\ Shown(v)' = Shown(v)
            /\ Stranded(x) => Stranded(x)'
        BY <1>3, <1>5, <2>2, <3>1, <3>2, OthersView
      <3>4. QED
        BY <1>3, <1>7, <1>8, <3>1, <3>3 DEF Kept
    <2>3. QED
      BY <2>1, <2>2
  <1>10. QED
    BY <1>9

\* Every step of the dispatcher is a step of the work queue, or invisible in it.
LEMMA StepView ==
    ASSUME DispatchInv, DispatchInv', ViewInv, ViewInv', [Next]_vars
    PROVE  [WQ!Next]_wqVars
  <1>1. ASSUME \A x \in ExecutionIDs : Kept(x), closed' = closed PROVE UNCHANGED wqVars
    BY <1>1, StillView DEF wqVars
  <1>2. CASE UNCHANGED vars
    <2>1. Quiet /\ closed' = closed
      BY <1>2 DEF vars, queueVars, dispVars, Quiet
    <2>2. QED
      BY <1>1, <2>1, QuietKept
  <1>3. CASE QueueNext /\ UNCHANGED dispVars
    <2>1. ASSUME NEW id \in ExecutionIDs, EnqueueSend(id) PROVE WQ!Next
      BY <1>3, <2>1, SubmitView DEF WQ!Next
    <2>2. CASE CloseMark
      <3>1. \A x \in ExecutionIDs : Kept(x)
        BY <1>3, <2>2, QueueQuiet, QuietKept
      <3>2. closed = FALSE /\ closed' = TRUE
        BY <2>2 DEF CloseMark, DispatchInv, TypeOK, QueueTypeOK
      <3>3. WQ!Shut
        BY <3>1, <3>2, StillView DEF WQ!Shut
      <3>4. QED
        BY <3>3 DEF WQ!Next
    <2>3. ASSUME \/ \E id \in ExecutionIDs : EnqueueCheck(id) \/ EnqueueGiveUp(id)
                 \/ CloseSignal
          PROVE  UNCHANGED wqVars
      <3>1. Quiet
        BY <1>3, <2>3, QueueQuiet
      <3>2. closed' = closed
        BY <2>3 DEF EnqueueCheck, EnqueueGiveUp, CloseSignal
      <3>3. QED
        BY <1>1, <3>1, <3>2, QuietKept
    <2>4. QED
      BY <1>3, <2>1, <2>2, <2>3 DEF QueueNext
  <1>4. ASSUME \/ Start
               \/ \E g \in Generations : CancelContext(g)
               \/ \E c \in Stoppers : StopMark(c) \/ StopCancel(c) \/ StopDone(c) \/ StopTimeout(c)
        PROVE  UNCHANGED wqVars
    <2>1. Quiet
      BY <1>4, ControlQuiet
    <2>2. closed' = closed
      BY <1>4 DEF Start, CancelContext, StopMark, StopCancel, StopDone, StopTimeout, queueVars
    <2>3. QED
      BY <1>1, <2>1, <2>2, QuietKept
  <1>5. ASSUME NEW w \in Workers,
               \/ Launch(w) \/ LoopTop(w) \/ DequeueCtx(w) \/ DequeueClosed(w) \/ recordNackResult(w)
               \/ Spawn(w) \/ WaitResult(w) \/ WaitError(w) \/ NackRead(w)
        PROVE  UNCHANGED wqVars
    <2>1. Quiet
      BY <1>5, IdleQuiet, DrivingQuiet
    <2>2. closed' = closed
      BY <1>5 DEF Launch, LoopTop, DequeueCtx, DequeueClosed, recordNackResult, Spawn, WaitResult,
                  WaitError, NackRead, queueVars
    <2>3. QED
      BY <1>1, <2>1, <2>2, QuietKept
  <1>6. ASSUME NEW w \in Workers, Register(w) \/ NackRemove(w) PROVE UNCHANGED wqVars
    <2>1. closed' = closed
      BY <1>6 DEF Register, StoreInFlight, NackRemove, RemoveInFlight
    <2>2. QED
      BY <1>1, <1>6, <2>1, LeasedView
  <1>7. ASSUME NEW w \in Workers,
               Dequeue(w) \/ Ack(w) \/ NackDrop(w) \/ NackRequeue(w) \/ NackCtx(w)
        PROVE  WQ!Next
    BY <1>7, LeaseView, CompleteView, BuryView, RetryView, StrandView DEF WQ!Next
  <1>8. QED
    BY <1>2, <1>3, <1>4, <1>5, <1>6, <1>7 DEF Next, WorkerStep

\* The channel, the in-flight map, the workers and their restarts implement
\* the work queue: what happens to each spec is what WorkQueue allows, and
\* every step of Enqueue, Dequeue, Ack and Nack that changes it is one of its
\* steps.
THEOREM WorkQueueImplemented == Spec => ImplementsWorkQueue
  <1>1. Init => WQ!Init
    BY InitView
  <1>2. DispatchInv /\ DispatchInv' /\ ViewInv /\ ViewInv' /\ [Next]_vars => [WQ!Next]_wqVars
    BY StepView
  <1>3. QED
    BY <1>1, <1>2, DispatchInvariant, Views, PTL DEF Spec, ImplementsWorkQueue, WQ!Spec, wqVars

-----------------------------------------------------------------------------
\* The counters.

CounterNames == {"Spawned", "Completed", "Failed", "Cancelled", "Retries", "Dropped"}

\* Start creates finitely many workers.
LEMMA WorkersFinite == IsFiniteSet(Workers)
  <1>1. IsFiniteSet(1..MaxStarts) /\ IsFiniteSet(1..NumWorkers)
    BY FS_Interval, DispatcherAssumption
  <1>2. QED
    BY <1>1, FS_Product DEF Workers, Generations

\* How many workers are at a step after one of them has moved.
LEMMA WorkersMove ==
    ASSUME TypeOK, NEW w \in Workers, NEW l \in WorkerPC, pc' = [pc EXCEPT ![w] = l],
           NEW k \in WorkerPC
    PROVE  /\ WorkersAt(k) \in Nat
           /\ WorkersAt(k)' = (WorkersAt(k) - IF pc[w] = k THEN 1 ELSE 0) + IF l = k THEN 1 ELSE 0
  <1> DEFINE S == {v \in Workers : pc[v] = k}
             T == {v \in Workers : pc'[v] = k}
             R == S \ {w}
  <1>0. pc \in [Workers -> WorkerPC]
    BY DEF TypeOK
  <1>1. IsFiniteSet(S) /\ Cardinality(S) \in Nat
    BY WorkersFinite, FS_Subset, FS_CardinalityType
  <1>2. IsFiniteSet(R) /\ Cardinality(R) = Cardinality(S) - IF pc[w] = k THEN 1 ELSE 0
    <2>1. w \in S <=> pc[w] = k
      OBVIOUS
    <2> HIDE DEF S
    <2>2. IsFiniteSet(R) /\ Cardinality(R) = IF w \in S THEN Cardinality(S) - 1 ELSE Cardinality(S)
      BY <1>1, FS_RemoveElement
    <2> HIDE DEF R
    <2>3. QED
      BY <1>1, <2>1, <2>2
  <1>3. T = IF l = k THEN R \cup {w} ELSE R
    BY <1>0
  <1>4. w \notin R
    OBVIOUS
  <1>5. WorkersAt(k) = Cardinality(S) /\ WorkersAt(k)' = Cardinality(T)
    BY DEF WorkersAt
  <1> HIDE DEF S, T, R
  <1>6. Cardinality(R \cup {w}) = Cardinality(R) + 1
    BY <1>2, <1>4, FS_AddElement
  <1>7. Cardinality(T) = Cardinality(R) + IF l = k THEN 1 ELSE 0
    BY <1>1, <1>2, <1>3, <1>6
  <1>8. QED
    BY <1>1, <1>2, <1>5, <1>7

\* What is known of the counters before a step.
LEMMA Balance ==
    ASSUME DispatchInv, StatsBalance
    PROVE  /\ \A k \in CounterNames : stats[k] \in Nat
           /\ \A k \in WorkerPC : WorkersAt(k) \in Nat
           /\ stats.Spawned = stats.Completed + stats.Failed + stats.Cancelled + WorkersAt("wait")
           /\ stats.Completed = Cardinality(acked) + WorkersAt("ack")
           /\ dropped = stats.Dropped + WorkersAt("recordDropped")
           /\ dropped = Len(dlq) /\ dropped \in Nat
           /\ stats.Spawned = Cardinality(spawns)
           /\ IsFiniteSet(acked) /\ Cardinality(acked) \in Nat
           /\ IsFiniteSet(spawns) /\ Cardinality(spawns) \in Nat
  <1>1. \A k \in WorkerPC : WorkersAt(k) \in Nat
    <2> TAKE k \in WorkerPC
    <2>1. IsFiniteSet({w \in Workers : pc[w] = k})
      BY WorkersFinite, FS_Subset
    <2>2. QED
      BY <2>1, FS_CardinalityType DEF WorkersAt
  <1>2. IsFiniteSet(acked) /\ Cardinality(acked) \in Nat
    BY QueueAssumption, FS_Subset, FS_CardinalityType DEF DispatchInv, TypeOK
  <1>3. IsFiniteSet(spawns) /\ Cardinality(spawns) \in Nat
    <2>1. IsFiniteSet(1..MaxAttempts)
      BY QueueAssumption, FS_Interval
    <2>2. IsFiniteSet(ExecutionIDs \X (1..MaxAttempts))
      BY <2>1, QueueAssumption, FS_Product
    <2>3. QED
      BY <2>2, FS_Subset, FS_CardinalityType DEF DispatchInv, TypeOK
  <1>4. QED
    BY <1>1, <1>2, <1>3 DEF StatsBalance, DispatchInv, TypeOK, QueueTypeOK, CounterNames

\* The bound on the spawns follows from the history's type.
LEMMA SpawnBound ==
    ASSUME NEW S \in SUBSET (ExecutionIDs \X (1..MaxAttempts))
    PROVE  Cardinality(S) <= Cardinality(ExecutionIDs) * MaxAttempts
  <1>1. IsFiniteSet(1..MaxAttempts) /\ Cardinality(1..MaxAttempts) = MaxAttempts
    BY QueueAssumption, FS_Interval
  <1>2. /\ IsFiniteSet(ExecutionIDs \X (1..MaxAttempts))
        /\ Cardinality(ExecutionIDs \X (1..MaxAttempts)) = Cardinality(ExecutionIDs) * MaxAttempts
    BY <1>1, QueueAssumption, FS_Product
  <1>3. QED
    BY <1>2, FS_Subset

\* Steps that count nothing.
LEMMA StillBalance ==
    ASSUME StatsBalance, UNCHANGED <<stats, acked, spawns, dropped, dlq>>,
           \A k \in {"wait", "ack", "recordDropped"} : WorkersAt(k)' = WorkersAt(k)
    PROVE  StatsBalance'
  BY DEF StatsBalance

\* Where the counted workers are after w has gone to l.
LEMMA CountedMove ==
    ASSUME DispatchInv, NEW w \in Workers, NEW l \in WorkerPC, pc' = [pc EXCEPT ![w] = l]
    PROVE  \A k \in {"wait", "ack", "recordDropped"} :
              /\ WorkersAt(k) \in Nat
              /\ pc[w] # k /\ l # k => WorkersAt(k)' = WorkersAt(k)
              /\ pc[w] # k /\ l = k => WorkersAt(k)' = WorkersAt(k) + 1
              /\ pc[w] = k /\ l # k => WorkersAt(k)' = WorkersAt(k) - 1
  <1> TAKE k \in {"wait", "ack", "recordDropped"}
  <1>1. k \in WorkerPC
    BY DEF WorkerPC, Driving, Recording
  <1>2. TypeOK
    BY DEF DispatchInv
  <1>3. /\ WorkersAt(k) \in Nat
        /\ WorkersAt(k)' = (WorkersAt(k) - IF pc[w] = k THEN 1 ELSE 0) + IF l = k THEN 1 ELSE 0
    BY <1>1, <1>2, WorkersMove
  <1>4. QED
    BY <1>3

\* A worker at l that moves between steps that nobody counts.
LEMMA UncountedBalance ==
    ASSUME DispatchInv, StatsBalance, UNCHANGED <<stats, acked, spawns, dropped, dlq>>,
           NEW w \in Workers, NEW l \in WorkerPC, pc' = [pc EXCEPT ![w] = l],
           l \notin {"wait", "ack", "recordDropped"}, pc[w] \notin {"wait", "ack", "recordDropped"}
    PROVE  StatsBalance'
  <1>1. /\ WorkersAt("wait")' = WorkersAt("wait") /\ WorkersAt("ack")' = WorkersAt("ack")
        /\ WorkersAt("recordDropped")' = WorkersAt("recordDropped")
    BY CountedMove
  <1>2. QED
    BY <1>1, StillBalance

\* Spawn: a new attempt, driven on or failed at once.
LEMMA SpawnBalance ==
    ASSUME DispatchInv, DispatchInv', StatsBalance, SpawnInv, NEW w \in Workers, Spawn(w)
    PROVE  StatsBalance'
  <1>1. pc[w] = "spawn" /\ pc[w] \in Holding
    BY DEF Spawn, Holding, Driving
  <1>2. PICK p \in ExecutionIDs \X Nat :
           p = <<spec[w].id, spec[w].attempt>> /\ p[1] = spec[w].id /\ p[2] = spec[w].attempt
    <2>1. spec[w].id \in ExecutionIDs /\ spec[w].attempt \in Nat
      BY <1>1, InHand DEF DispatchInv
    <2>2. <<spec[w].id, spec[w].attempt>> \in ExecutionIDs \X Nat
      BY <2>1
    <2>3. QED
      BY <2>2
  <1>3. p \notin spawns
    <2>1. Holds(w, p[1]) /\ NextSpawn(w) = spec[w].attempt /\ spec[w].attempt \in Nat
      BY <1>1, <1>2, InHand DEF DispatchInv, NextSpawn
    <2>2. QED
      BY <1>2, <2>1 DEF SpawnInv
  <1>4. spawns' = spawns \cup {p} /\ UNCHANGED <<acked, dropped, dlq>>
    BY <1>2 DEF Spawn, queueVars
  <1>5. Cardinality(spawns') = Cardinality(spawns) + 1
    BY <1>3, <1>4, Balance, FS_AddElement
  <1>6. PICK l \in {"wait", "nack"} :
           /\ pc' = [pc EXCEPT ![w] = l]
           /\ stats'.Spawned = stats.Spawned + 1 /\ stats'.Completed = stats.Completed
           /\ l = "wait" => stats'.Failed = stats.Failed
           /\ l = "nack" => stats'.Failed = stats.Failed + 1
           /\ stats'.Cancelled = stats.Cancelled /\ stats'.Dropped = stats.Dropped
    <2>1. DOMAIN stats = CounterNames /\ \A k \in CounterNames : stats[k] \in Nat
      BY DEF DispatchInv, TypeOK, CounterNames
    <2>2. QED
      BY <2>1 DEF Spawn, Count, Goto, CounterNames
  <1>7. l \in WorkerPC
    BY DEF WorkerPC, Driving
  <1>8. /\ l = "wait" => WorkersAt("wait")' = WorkersAt("wait") + 1
        /\ l = "nack" => WorkersAt("wait")' = WorkersAt("wait")
        /\ WorkersAt("ack")' = WorkersAt("ack")
        /\ WorkersAt("recordDropped")' = WorkersAt("recordDropped")
        /\ WorkersAt("wait") \in Nat
    BY <1>1, <1>6, <1>7, CountedMove
  <1>9. stats'.Spawned <= Cardinality(ExecutionIDs) * MaxAttempts /\ stats'.Spawned = Cardinality(spawns')
    <2>1. Cardinality(spawns') <= Cardinality(ExecutionIDs) * MaxAttempts
      BY SpawnBound DEF DispatchInv, TypeOK
    <2>2. QED
      BY <1>5, <1>6, <2>1, Balance
  <1>10. stats'.Spawned = stats'.Completed + stats'.Failed + stats'.Cancelled + WorkersAt("wait")'
    <2>0. /\ stats.Completed \in Nat /\ stats.Failed \in Nat /\ stats.Cancelled \in Nat
          /\ stats.Spawned = stats.Completed + stats.Failed + stats.Cancelled + WorkersAt("wait")
      BY Balance DEF CounterNames
    <2>1. CASE l = "wait"
      BY <1>6, <1>8, <2>0, <2>1
    <2>2. CASE l = "nack"
      BY <1>6, <1>8, <2>0, <2>2
    <2>3. QED
      BY <2>1, <2>2
  <1>11. QED
    BY <1>4, <1>6, <1>8, <1>9, <1>10, Balance DEF StatsBalance

\* Wait: the attempt has an outcome.
LEMMA WaitBalance ==
    ASSUME DispatchInv, StatsBalance, NEW w \in Workers, WaitResult(w) \/ WaitError(w)
    PROVE  StatsBalance'
  <1>1. pc[w] = "wait" /\ UNCHANGED <<spawns, acked, dropped, dlq>>
    BY DEF WaitResult, WaitError, queueVars
  <1>2. PICK c \in {"Completed", "Failed", "Cancelled"} :
           /\ Count({c})
           /\ pc' = [pc EXCEPT ![w] = IF c = "Completed" THEN "ack" ELSE "nack"]
    BY DEF WaitResult, WaitError, Goto
  <1>3. PICK l \in {"ack", "nack"} : /\ pc' = [pc EXCEPT ![w] = l]
                                     /\ l = "ack" <=> c = "Completed"
    BY <1>2
  <1>4. /\ stats'.Spawned = stats.Spawned /\ stats'.Dropped = stats.Dropped
        /\ \A k \in {"Completed", "Failed", "Cancelled"} :
              stats'[k] = IF k = c THEN stats[k] + 1 ELSE stats[k]
    <2>1. DOMAIN stats = CounterNames /\ \A k \in CounterNames : stats[k] \in Nat
      BY DEF DispatchInv, TypeOK, CounterNames
    <2>2. QED
      BY <1>2, <2>1 DEF Count, CounterNames
  <1>5. l \in WorkerPC
    BY DEF WorkerPC, Driving
  <1>6. /\ WorkersAt("wait")' = WorkersAt("wait") - 1
        /\ c = "Completed" => WorkersAt("ack")' = WorkersAt("ack") + 1
        /\ c # "Completed" => WorkersAt("ack")' = WorkersAt("ack")
        /\ WorkersAt("recordDropped")' = WorkersAt("recordDropped")
    BY <1>1, <1>3, <1>5, CountedMove
  <1>7. stats'.Spawned = stats'.Completed + stats'.Failed + stats'.Cancelled + WorkersAt("wait")'
    <2>0. /\ stats.Completed \in Nat /\ stats.Failed \in Nat /\ stats.Cancelled \in Nat
          /\ WorkersAt("wait") \in Nat
          /\ stats.Spawned = stats.Completed + stats.Failed + stats.Cancelled + WorkersAt("wait")
      BY Balance DEF CounterNames, WorkerPC, Driving
    <2>1. CASE c = "Completed"
      BY <1>4, <1>6, <2>0, <2>1
    <2>2. CASE c = "Failed"
      BY <1>4, <1>6, <2>0, <2>2
    <2>3. CASE c = "Cancelled"
      BY <1>4, <1>6, <2>0, <2>3
    <2>4. QED
      BY <2>1, <2>2, <2>3
  <1>8. stats'.Completed = Cardinality(acked) + WorkersAt("ack")'
    BY <1>4, <1>6, Balance DEF CounterNames, WorkerPC, Driving
  <1>9. QED
    BY <1>1, <1>4, <1>6, <1>7, <1>8 DEF StatsBalance

\* Ack: the completion is acked.
LEMMA AckBalance ==
    ASSUME DispatchInv, StatsBalance, NEW w \in Workers, Ack(w)
    PROVE  StatsBalance'
  <1>1. pc[w] = "ack" /\ pc[w] \in Holding /\ pc[w] \in Driving
    BY DEF Ack, Holding, Driving
  <1>2. PICK id \in ExecutionIDs : id = spec[w].id /\ Held(id) /\ inFlight[id] # 0
    BY <1>1, InHand, Accounts DEF DispatchInv, HandInv
  <1>3. /\ pc' = [pc EXCEPT ![w] = "loop"] /\ acked' = acked \cup {id}
        /\ UNCHANGED <<stats, spawns, dropped, dlq>>
    BY <1>2 DEF Ack, IsInFlight, RemoveInFlight, Release, Goto
  <1>4. id \notin acked
    BY <1>2, Accounts DEF Settled
  <1>5. Cardinality(acked') = Cardinality(acked) + 1
    BY <1>3, <1>4, Balance, FS_AddElement
  <1>6. "loop" \in WorkerPC
    BY DEF WorkerPC
  <1>7. /\ WorkersAt("wait")' = WorkersAt("wait")
        /\ WorkersAt("ack")' = WorkersAt("ack") - 1 /\ WorkersAt("ack") \in Nat
        /\ WorkersAt("recordDropped")' = WorkersAt("recordDropped")
    BY <1>1, <1>3, <1>6, CountedMove
  <1>8. stats.Completed = Cardinality(acked') + WorkersAt("ack")'
    BY <1>5, <1>7, Balance
  <1>9. QED
    BY <1>3, <1>7, <1>8 DEF StatsBalance

\* NackDrop: the queue has counted what the dispatcher has not.
LEMMA DropBalance ==
    ASSUME DispatchInv, StatsBalance, NEW w \in Workers, NackDrop(w)
    PROVE  StatsBalance'
  <1>1. pc[w] = "drop" /\ UNCHANGED <<stats, acked, spawns>> /\ dropped' = dropped + 1
        /\ pc' = [pc EXCEPT ![w] = "recordDropped"] /\ dlq' = Append(dlq, spec[w])
    BY DEF NackDrop, DeadLetter, Goto
  <1>2. spec[w] \in Specs
    BY <1>1, InHand DEF DispatchInv, Holding, Driving
  <1>3. Len(dlq') = Len(dlq) + 1
    BY <1>1, <1>2, DlqAppend, Accounts
  <1>4. "recordDropped" \in WorkerPC
    BY DEF WorkerPC, Recording
  <1>5. /\ WorkersAt("wait")' = WorkersAt("wait") /\ WorkersAt("ack")' = WorkersAt("ack")
        /\ WorkersAt("recordDropped")' = WorkersAt("recordDropped") + 1
        /\ WorkersAt("recordDropped") \in Nat
    BY <1>1, <1>4, CountedMove
  <1>6. dropped' = stats.Dropped + WorkersAt("recordDropped")' /\ dropped' = Len(dlq')
    BY <1>1, <1>3, <1>5, Balance DEF CounterNames
  <1>7. QED
    BY <1>1, <1>5, <1>6 DEF StatsBalance

\* recordNackResult: the dispatcher counts it too.
LEMMA RecordBalance ==
    ASSUME DispatchInv, StatsBalance, NEW w \in Workers, recordNackResult(w)
    PROVE  StatsBalance'
  <1>1. /\ pc[w] \in {"recordDropped", "recordRetried"} /\ UNCHANGED <<acked, spawns, dropped, dlq>>
        /\ pc' = [pc EXCEPT ![w] = "loop"]
    BY DEF recordNackResult, Recording, Goto, queueVars
  <1>2. /\ stats'.Spawned = stats.Spawned /\ stats'.Completed = stats.Completed
        /\ stats'.Failed = stats.Failed /\ stats'.Cancelled = stats.Cancelled
        /\ pc[w] = "recordDropped" => stats'.Dropped = stats.Dropped + 1
        /\ pc[w] # "recordDropped" => stats'.Dropped = stats.Dropped
    <2>1. DOMAIN stats = CounterNames /\ \A k \in CounterNames : stats[k] \in Nat
      BY DEF DispatchInv, TypeOK, CounterNames
    <2>2. QED
      BY <2>1 DEF recordNackResult, Count, CounterNames
  <1>3. "loop" \in WorkerPC
    BY DEF WorkerPC
  <1>4. /\ WorkersAt("wait")' = WorkersAt("wait") /\ WorkersAt("ack")' = WorkersAt("ack")
        /\ pc[w] = "recordDropped" => WorkersAt("recordDropped")' = WorkersAt("recordDropped") - 1
        /\ pc[w] # "recordDropped" => WorkersAt("recordDropped")' = WorkersAt("recordDropped")
        /\ WorkersAt("recordDropped") \in Nat
    BY <1>1, <1>3, CountedMove
  <1>5. dropped' = stats'.Dropped + WorkersAt("recordDropped")'
    BY <1>1, <1>2, <1>4, Balance DEF CounterNames
  <1>6. QED
    BY <1>1, <1>2, <1>4, <1>5 DEF StatsBalance

\* Start, Stop, their contexts and the queue's callers count nothing.
LEMMA ControlBalance ==
    ASSUME DispatchInv, StatsBalance,
           \/ UNCHANGED vars
           \/ QueueNext /\ UNCHANGED dispVars
           \/ Start
           \/ \E g \in Generations : CancelContext(g)
           \/ \E c \in Stoppers : StopMark(c) \/ StopCancel(c) \/ StopDone(c) \/ StopTimeout(c)
    PROVE  StatsBalance'
  <1>1. UNCHANGED <<stats, acked, spawns, dropped, dlq>>
    BY DEF vars, queueVars, dispVars, QueueNext, EnqueueCheck, EnqueueSend, EnqueueGiveUp, CloseMark,
           CloseSignal, Start, CancelContext, StopMark, StopCancel, StopDone, StopTimeout
  <1>2. \A w \in Workers : pc'[w] = pc[w] \/ (pc[w] = "off" /\ pc'[w] = "starting")
    <2>1. CASE Start
      <3>1. \A w \in Workers : Gen(w) = gen + 1 => pc[w] = "off"
        BY Accounts, DispatcherAssumption DEF HandInv, DispatchInv, TypeOK, Workers, Generations, Gen
      <3>2. QED
        BY <2>1, <3>1 DEF Start
    <2>2. CASE ~Start
      BY <2>2 DEF vars, dispVars, CancelContext, StopMark, StopCancel, StopDone, StopTimeout
    <2>3. QED
      BY <2>1, <2>2
  <1>3. ASSUME NEW k \in {"wait", "ack", "recordDropped"} PROVE WorkersAt(k)' = WorkersAt(k)
    <2>1. {w \in Workers : pc'[w] = k} = {w \in Workers : pc[w] = k}
      BY <1>2
    <2>2. QED
      BY <2>1 DEF WorkersAt
  <1>4. QED
    BY <1>1, <1>3, StillBalance

\* The steps of a worker that count nothing.
LEMMA WorkerBalance ==
    ASSUME DispatchInv, StatsBalance, NEW w \in Workers,
           \/ Launch(w) \/ LoopTop(w) \/ Dequeue(w) \/ DequeueCtx(w) \/ DequeueClosed(w)
           \/ Register(w) \/ NackRead(w) \/ NackRemove(w) \/ NackRequeue(w) \/ NackCtx(w)
    PROVE  StatsBalance'
  <1>1. UNCHANGED <<stats, acked, spawns, dropped, dlq>>
    BY DEF Launch, LoopTop, Dequeue, DequeueCtx, DequeueClosed, Register, NackRead, NackRemove,
           NackRequeue, NackCtx, queueVars, Receive, StoreInFlight, RemoveInFlight, SendRetry
  <1>2. PICK l \in {"loop", "exitCtx", "dequeue", "register", "exitClosed", "spawn", "remove", "drop",
                    "requeue", "recordRetried"} : pc' = [pc EXCEPT ![w] = l]
    BY DEF Launch, LoopTop, Dequeue, DequeueCtx, DequeueClosed, Register, NackRead, NackRemove,
           NackRequeue, NackCtx, Goto, Release
  <1>3. pc[w] \in {"starting", "loop", "dequeue", "register", "nack", "remove", "requeue"}
    BY DEF Launch, LoopTop, Dequeue, DequeueCtx, DequeueClosed, Register, NackRead, NackRemove,
           NackRequeue, NackCtx
  <1>4. l \in WorkerPC
    BY DEF WorkerPC, Driving, Carrying, Recording
  <1>5. QED
    BY <1>1, <1>2, <1>3, <1>4, UncountedBalance

\* Every step keeps the counters balanced.
LEMMA BalanceStep ==
    ASSUME DispatchInv, DispatchInv', StatsBalance, SpawnInv, [Next]_vars
    PROVE  StatsBalance'
  BY ControlBalance, WorkerBalance, SpawnBalance, WaitBalance, AckBalance, DropBalance, RecordBalance
  DEF Next, WorkerStep

-----------------------------------------------------------------------------
\* The spawned attempts.

\* What is known of a spawned attempt.
LEMMA Spawned ==
    ASSUME DispatchInv, SpawnInv, NEW p \in spawns
    PROVE  /\ p[1] \in ExecutionIDs /\ p[2] \in Nat /\ enq[p[1]] = "accepted"
           /\ \A i \in 1..Len(pending) : pending[i].id = p[1] => p[2] < pending[i].attempt
           /\ \A w \in Workers : Holds(w, p[1]) => p[2] < NextSpawn(w)
  <1>1. p[1] \in ExecutionIDs /\ p[2] \in Nat
    BY QueueAssumption DEF DispatchInv, TypeOK
  <1>2. QED
    BY <1>1 DEF SpawnInv

\* A step that leaves channel and hands alone.
LEMMA QuietSpawns ==
    ASSUME DispatchInv, SpawnInv, spawns' = spawns, Quiet,
           \A id \in ExecutionIDs : enq[id] = "accepted" => enq'[id] = "accepted",
           \A w \in Workers : pc[w] \in Holding => (pc'[w] = pc[w] \/ (pc[w] # "register" /\ pc'[w] \notin {"register", "spawn", "requeue"}))
    PROVE  SpawnInv'
  <1>1. pending' = pending /\ spec' = spec
    BY DEF Quiet
  <1>2. \A p \in spawns : p[1] \in ExecutionIDs /\ p[2] \in Nat
    BY QueueAssumption DEF DispatchInv, TypeOK
  <1>3. \A p \in spawns : enq'[p[1]] = "accepted"
    BY <1>2 DEF SpawnInv
  <1>4. \A p \in spawns : \A i \in 1..Len(pending') :
              pending'[i].id = p[1] => p[2] < pending'[i].attempt
    BY <1>1 DEF SpawnInv
  <1>5. ASSUME NEW p \in spawns, NEW w \in Workers, Holds(w, p[1])' PROVE p[2] < NextSpawn(w)'
    <2>1. pc[w] \in Holding /\ Holds(w, p[1]) /\ spec'[w] = spec[w]
      BY <1>1, <1>5 DEF Holds, Quiet, Holding
    <2>2. p[2] < NextSpawn(w) /\ spec[w].attempt \in Nat /\ p[2] \in Nat
      BY <1>2, <2>1, InHand DEF SpawnInv, DispatchInv
    <2>3. QED
      BY <1>1, <2>1, <2>2 DEF NextSpawn
  <1>6. QED
    BY <1>3, <1>4, <1>5 DEF SpawnInv

\* EnqueueSend: nothing of a spec that was not accepted was spawned.
LEMMA SubmitSpawns ==
    ASSUME DispatchInv, SpawnInv, UNCHANGED dispVars, NEW id \in ExecutionIDs, EnqueueSend(id)
    PROVE  SpawnInv'
  <1>1. PICK s \in Specs : s.id = id /\ pending' = Append(pending, s)
    BY DEF EnqueueSend, Specs
  <1>2. /\ Len(pending) \in Nat
        /\ \A i \in 1..Len(pending) : pending'[i] = pending[i]
        /\ pending'[Len(pending) + 1] = s
        /\ \A i \in 1..Len(pending') : i \in 1..Len(pending) \/ i = Len(pending) + 1
    BY <1>1, ChannelSend, Accounts
  <1>3. /\ enq' = [enq EXCEPT ![id] = "accepted"] /\ enq[id] = "sending"
        /\ enq \in [ExecutionIDs -> EnqStates] /\ UNCHANGED <<pc, spec, spawns>>
    BY DEF EnqueueSend, dispVars, DispatchInv, TypeOK, QueueTypeOK
  <1>4. ASSUME NEW p \in spawns
        PROVE  /\ enq'[p[1]] = "accepted"
               /\ \A i \in 1..Len(pending') : pending'[i].id = p[1] => p[2] < pending'[i].attempt
               /\ \A w \in Workers : Holds(w, p[1])' => p[2] < NextSpawn(w)'
    <2>1. p[1] # id
      BY <1>3, Spawned
    <2>2. \A w \in Workers : (Holds(w, p[1])' <=> Holds(w, p[1])) /\ NextSpawn(w)' = NextSpawn(w)
      BY <1>3 DEF Holds, NextSpawn
    <2>3. \A i \in 1..Len(pending') : pending'[i].id = p[1] => p[2] < pending'[i].attempt
      BY <1>1, <1>2, <2>1, Spawned
    <2>4. QED
      BY <1>3, <2>1, <2>2, <2>3, Spawned
  <1>5. QED
    BY <1>3, <1>4 DEF SpawnInv

\* The workers other than w know what they knew.
LEMMA OtherSpawns ==
    ASSUME DispatchInv, SpawnInv, NEW w \in Workers, OthersKeep(w), NEW p \in spawns,
           NEW v \in Workers, v # w, Holds(v, p[1])'
    PROVE  p[2] < NextSpawn(v)'
  <1>1. Holds(v, p[1]) /\ NextSpawn(v)' = NextSpawn(v)
    BY DEF OthersKeep, Holds, NextSpawn
  <1>2. QED
    BY <1>1, Spawned

\* Dequeue: the attempt that was next in the channel is next in the hands.
LEMMA LeaseSpawns ==
    ASSUME DispatchInv, SpawnInv, NEW w \in Workers, Dequeue(w)
    PROVE  SpawnInv'
  <1>1. /\ pending # <<>> /\ pending' = Tail(pending) /\ pc[w] = "dequeue"
        /\ pc' = [pc EXCEPT ![w] = "register"] /\ UNCHANGED <<enq, spawns>>
    BY DEF Dequeue, Receive, Goto
  <1>2. PICK s \in Specs : s = Head(pending) /\ s.attempt \in Nat
    BY <1>1, ChannelReceive, Accounts DEF Specs
  <1>3. spec' = [spec EXCEPT ![w] = s]
    BY <1>2 DEF Dequeue
  <1>4. /\ 1 \in 1..Len(pending) /\ s = pending[1]
        /\ \A i \in 1..Len(pending') : i + 1 \in 1..Len(pending) /\ pending'[i] = pending[i + 1]
    BY <1>1, <1>2, ChannelReceive, Accounts
  <1>5. "register" \in WorkerPC /\ "register" \in Holding
    BY DEF WorkerPC, Holding, Carrying
  <1>6. pc'[w] = "register" /\ spec'[w] = s /\ OthersKeep(w)
    BY <1>1, <1>3, <1>5, HandWrite
  <1>7. ASSUME NEW p \in spawns
        PROVE  /\ enq'[p[1]] = "accepted"
               /\ \A i \in 1..Len(pending') : pending'[i].id = p[1] => p[2] < pending'[i].attempt
               /\ \A v \in Workers : Holds(v, p[1])' => p[2] < NextSpawn(v)'
    <2>1. \A i \in 1..Len(pending') : pending'[i].id = p[1] => p[2] < pending'[i].attempt
      BY <1>4, Spawned
    <2>2. Holds(w, p[1])' => p[2] < NextSpawn(w)'
      <3>1. NextSpawn(w)' = s.attempt
        BY <1>2, <1>6 DEF NextSpawn
      <3>2. Holds(w, p[1])' => s.id = p[1]
        BY <1>6 DEF Holds
      <3>3. QED
        BY <1>4, <3>1, <3>2, Spawned
    <2>3. QED
      BY <1>1, <1>6, <2>1, <2>2, OtherSpawns, Spawned
  <1>8. QED
    BY <1>1, <1>7 DEF SpawnInv

\* Register and NackRemove: the next attempt stays the next.
LEMMA LeasedSpawns ==
    ASSUME DispatchInv, SpawnInv, NEW w \in Workers, Register(w) \/ NackRemove(w)
    PROVE  SpawnInv'
  <1>1. pc[w] \in {"register", "remove"} /\ pc[w] \in Holding
    BY DEF Register, NackRemove, Holding, Driving, Carrying
  <1>2. PICK s \in Specs : s = spec[w] /\ s.id \in ExecutionIDs /\ s.attempt \in Nat
    BY <1>1, InHand DEF DispatchInv
  <1>3. PICK l \in {"spawn", "requeue"}, t \in Specs :
           /\ pc' = [pc EXCEPT ![w] = l] /\ spec' = [spec EXCEPT ![w] = t] /\ t.id = s.id
           /\ l = "requeue" => t.attempt = s.attempt + 1 /\ pc[w] = "remove"
           /\ l = "spawn" => t.attempt = s.attempt /\ pc[w] = "register"
           /\ UNCHANGED <<pending, enq, spawns>>
    <2>1. CASE Register(w)
      <3>1. spec' = [spec EXCEPT ![w] = s]
        BY <1>2, <2>1, Accounts DEF Register
      <3>2. QED
        BY <1>2, <2>1, <3>1 DEF Register, StoreInFlight, Goto
    <2>2. CASE NackRemove(w)
      <3>1. Retry(s) \in Specs /\ Retry(s).id = s.id /\ Retry(s).attempt = s.attempt + 1
        BY <1>2 DEF Retry, Specs
      <3>2. spec' = [spec EXCEPT ![w] = Retry(s)]
        BY <1>2, <2>2, Accounts DEF NackRemove
      <3>3. QED
        BY <1>2, <2>2, <3>1, <3>2 DEF NackRemove, RemoveInFlight, Goto
    <2>3. QED
      BY <2>1, <2>2
  <1>4. l \in WorkerPC /\ l \in Holding
    BY DEF WorkerPC, Holding, Driving, Carrying
  <1>5. pc'[w] = l /\ spec'[w] = t /\ OthersKeep(w)
    BY <1>3, <1>4, HandWrite
  <1>6. NextSpawn(w)' = NextSpawn(w)
    BY <1>1, <1>2, <1>3, <1>5 DEF NextSpawn
  <1>7. ASSUME NEW p \in spawns
        PROVE  /\ enq'[p[1]] = "accepted"
               /\ \A i \in 1..Len(pending') : pending'[i].id = p[1] => p[2] < pending'[i].attempt
               /\ \A v \in Workers : Holds(v, p[1])' => p[2] < NextSpawn(v)'
    <2>1. Holds(w, p[1])' => Holds(w, p[1])
      BY <1>1, <1>2, <1>3, <1>5 DEF Holds, Holding
    <2>2. \A i \in 1..Len(pending') : pending'[i].id = p[1] => p[2] < pending'[i].attempt
      BY <1>3, Spawned
    <2>3. QED
      BY <1>3, <1>5, <1>6, <2>1, <2>2, OtherSpawns, Spawned
  <1>8. QED
    BY <1>3, <1>7 DEF SpawnInv

\* Spawn: the attempt is spawned, the one after it is next.
LEMMA SpawnSpawns ==
    ASSUME DispatchInv, SpawnInv, NEW w \in Workers, Spawn(w)
    PROVE  SpawnInv'
  <1>1. pc[w] = "spawn" /\ pc[w] \in Holding
    BY DEF Spawn, Holding, Driving
  <1>2. PICK s \in Specs : /\ s = spec[w] /\ s.id \in ExecutionIDs /\ s.attempt \in Nat
                           /\ Holds(w, s.id) /\ Held(s.id)
    BY <1>1, InHand DEF DispatchInv
  <1>3. PICK l \in {"wait", "nack"} : pc' = [pc EXCEPT ![w] = l]
    BY DEF Spawn, Goto
  <1>4. UNCHANGED <<pending, enq, spec>> /\ spawns' = spawns \cup {<<s.id, s.attempt>>}
    BY <1>2 DEF Spawn, queueVars
  <1>5. pc'[w] = l /\ \A v \in Workers \ {w} : pc'[v] = pc[v]
    BY <1>3, Accounts
  <1>6. NextSpawn(w)' = s.attempt + 1 /\ NextSpawn(w) = s.attempt
    BY <1>1, <1>2, <1>3, <1>4, <1>5 DEF NextSpawn
  <1>7. \A v \in Workers \ {w} : \A x \in ExecutionIDs :
           (Holds(v, x)' <=> Holds(v, x)) /\ NextSpawn(v)' = NextSpawn(v)
    BY <1>4, <1>5 DEF Holds, NextSpawn
  <1>8. \A x \in ExecutionIDs : Holds(w, x)' => x = s.id
    BY <1>2, <1>4 DEF Holds
  <1>9. ASSUME NEW p \in spawns'
        PROVE  /\ enq'[p[1]] = "accepted"
               /\ \A i \in 1..Len(pending') : pending'[i].id = p[1] => p[2] < pending'[i].attempt
               /\ \A v \in Workers : Holds(v, p[1])' => p[2] < NextSpawn(v)'
    <2>1. CASE p \in spawns
      <3>1. p[1] \in ExecutionIDs /\ p[2] \in Nat
        BY <2>1, Spawned
      <3>2. ASSUME NEW v \in Workers, Holds(v, p[1])' PROVE p[2] < NextSpawn(v)'
        <4>1. CASE v = w
          BY <1>2, <1>6, <1>8, <2>1, <3>1, <3>2, <4>1, Spawned
        <4>2. CASE v # w
          BY <1>7, <2>1, <3>1, <3>2, <4>2, Spawned
        <4>3. QED
          BY <4>1, <4>2
      <3>3. QED
        BY <1>4, <2>1, <3>2, Spawned
    <2>2. CASE p = <<s.id, s.attempt>>
      <3>1. p[1] = s.id /\ p[2] = s.attempt
        BY <2>2
      <3>2. enq[s.id] = "accepted" /\ ~InPending(s.id) /\ \A v \in Workers : Holds(v, s.id) => v = w
        BY <1>2, Accounts
      <3>3. \A i \in 1..Len(pending') : pending'[i].id # s.id
        BY <1>4, <3>2 DEF InPending
      <3>4. \A v \in Workers : Holds(v, s.id)' => v = w
        BY <1>2, <1>7, <3>2
      <3>5. QED
        BY <1>2, <1>4, <1>6, <3>1, <3>2, <3>3, <3>4
    <2>3. QED
      BY <1>4, <2>1, <2>2
  <1>10. QED
    BY <1>9 DEF SpawnInv

\* The steps that let go of a spec.
LEMMA LetGoSpawns ==
    ASSUME DispatchInv, SpawnInv, NEW w \in Workers,
           Ack(w) \/ NackDrop(w) \/ NackRequeue(w) \/ NackCtx(w)
    PROVE  SpawnInv'
  <1>1. pc[w] \in {"ack", "drop", "requeue"} /\ pc[w] \in Holding
    BY DEF Ack, NackDrop, NackRequeue, NackCtx, Holding, Driving, Carrying
  <1>2. PICK s \in Specs : s = spec[w] /\ s.attempt \in Nat /\ Holds(w, s.id)
    BY <1>1, InHand DEF DispatchInv
  <1>3. PICK l \in {"loop", "recordDropped", "recordRetried"} : pc' = [pc EXCEPT ![w] = l]
    BY DEF Ack, NackDrop, NackRequeue, NackCtx, Goto, Release
  <1>4. spec' = [spec EXCEPT ![w] = NoSpec] /\ UNCHANGED <<enq, spawns>>
    BY DEF Ack, NackDrop, NackRequeue, NackCtx, Release, queueVars, RemoveInFlight, DeadLetter,
           SendRetry, StoreInFlight
  <1>5. l \in WorkerPC /\ l \notin Holding
    BY DEF WorkerPC, Holding, Driving, Carrying, Recording
  <1>6. pc'[w] = l /\ OthersKeep(w)
    BY <1>3, <1>4, <1>5, HandWrite, Accounts
  <1>7. pending' = pending \/ (pc[w] = "requeue" /\ pending' = Append(pending, s))
    BY <1>2 DEF Ack, NackDrop, NackRequeue, NackCtx, queueVars, RemoveInFlight, DeadLetter,
                SendRetry, StoreInFlight
  <1>8. ASSUME NEW p \in spawns
        PROVE  /\ enq'[p[1]] = "accepted"
               /\ \A i \in 1..Len(pending') : pending'[i].id = p[1] => p[2] < pending'[i].attempt
               /\ \A v \in Workers : Holds(v, p[1])' => p[2] < NextSpawn(v)'
    <2>1. ~Holds(w, p[1])'
      BY <1>5, <1>6 DEF Holds, Holding
    <2>2. CASE pending' = pending
      BY <1>4, <1>6, <2>1, <2>2, OtherSpawns, Spawned
    <2>3. CASE pc[w] = "requeue" /\ pending' = Append(pending, s)
      <3>1. /\ \A i \in 1..Len(pending) : pending'[i] = pending[i]
            /\ pending'[Len(pending) + 1] = s
            /\ \A i \in 1..Len(pending') : i \in 1..Len(pending) \/ i = Len(pending) + 1
        BY <2>3, ChannelSend, Accounts
      <3>2. NextSpawn(w) = s.attempt
        BY <1>2, <2>3 DEF NextSpawn
      <3>3. p[1] = s.id => p[2] < s.attempt
        BY <1>2, <3>2, Spawned
      <3>4. \A i \in 1..Len(pending') : pending'[i].id = p[1] => p[2] < pending'[i].attempt
        BY <3>1, <3>3, Spawned
      <3>5. QED
        BY <1>4, <1>6, <2>1, <3>4, OtherSpawns, Spawned
    <2>4. QED
      BY <1>7, <2>2, <2>3
  <1>9. QED
    BY <1>4, <1>8 DEF SpawnInv

\* Every step keeps the attempts in order.
LEMMA SpawnStep ==
    ASSUME DispatchInv, SpawnInv, [Next]_vars
    PROVE  SpawnInv'
  <1>1. CASE UNCHANGED vars
    <2>1. UNCHANGED <<enq, pending, pc, spec, spawns>>
      BY <1>1 DEF vars, queueVars, dispVars
    <2>2. \A w \in Workers : NextSpawn(w)' = NextSpawn(w) /\ \A p \in spawns : Holds(w, p[1])' <=> Holds(w, p[1])
      BY <2>1 DEF NextSpawn, Holds
    <2>3. QED
      BY <2>1, <2>2 DEF SpawnInv
  <1>2. CASE QueueNext /\ UNCHANGED dispVars
    <2>1. CASE \E id \in ExecutionIDs : EnqueueSend(id)
      BY <1>2, <2>1, SubmitSpawns
    <2>2. CASE ~\E id \in ExecutionIDs : EnqueueSend(id)
      <3>1. Quiet
        BY <1>2, <2>2, QueueQuiet DEF QueueNext
      <3>2. spawns' = spawns /\ pc' = pc
        BY <1>2 DEF dispVars
      <3>3. QED
        BY <3>1, <3>2, QuietSpawns DEF Quiet
    <2>3. QED
      BY <2>1, <2>2
  <1>3. ASSUME \/ Start
               \/ \E g \in Generations : CancelContext(g)
               \/ \E c \in Stoppers : StopMark(c) \/ StopCancel(c) \/ StopDone(c) \/ StopTimeout(c)
        PROVE  SpawnInv'
    <2>1. Quiet
      BY <1>3, ControlQuiet
    <2>2. spawns' = spawns /\ \A w \in Workers : pc'[w] = pc[w] \/ pc'[w] = "starting"
      BY <1>3 DEF Start, CancelContext, StopMark, StopCancel, StopDone, StopTimeout
    <2>3. "starting" \notin Holding
      BY DEF Holding, Driving, Carrying
    <2>4. QED
      BY <2>1, <2>2, <2>3, QuietSpawns DEF Quiet
  <1>4. ASSUME NEW w \in Workers,
               \/ Launch(w) \/ LoopTop(w) \/ DequeueCtx(w) \/ DequeueClosed(w) \/ recordNackResult(w)
               \/ WaitResult(w) \/ WaitError(w) \/ NackRead(w)
        PROVE  SpawnInv'
    <2>1. Quiet
      BY <1>4, IdleQuiet, DrivingQuiet
    <2>2. spawns' = spawns /\ pc[w] # "register"
      BY <1>4 DEF Launch, LoopTop, DequeueCtx, DequeueClosed, recordNackResult, WaitResult,
                  WaitError, NackRead, Recording
    <2>3. PICK l \in {"loop", "exitCtx", "exitClosed", "dequeue", "ack", "nack", "remove", "drop"} :
             pc' = [pc EXCEPT ![w] = l]
      BY <1>4 DEF Launch, LoopTop, DequeueCtx, DequeueClosed, recordNackResult, WaitResult,
                  WaitError, NackRead, Goto, Release
    <2>4. \A v \in Workers : pc'[v] = pc[v] \/ (pc[v] # "register" /\ pc'[v] \notin {"register", "spawn", "requeue"})
      BY <2>2, <2>3, Accounts
    <2>5. QED
      BY <2>1, <2>2, <2>4, QuietSpawns DEF Quiet
  <1>5. QED
    BY <1>1, <1>2, <1>3, <1>4, LeaseSpawns, LeasedSpawns, SpawnSpawns, LetGoSpawns DEF Next, WorkerStep

\* The dispatcher's counters agree with the queue's, and no attempt of a spec
\* is ever spawned twice, through requeues, cancelled workers and restarts.
THEOREM CountersBalance == Spec => []StatsBalance
  <1>1. Init => StatsBalance /\ SpawnInv
    <2> SUFFICES ASSUME Init PROVE StatsBalance /\ SpawnInv
      OBVIOUS
    <2>1. Cardinality(acked) = 0 /\ Cardinality(spawns) = 0 /\ Len(dlq) = 0 /\ dropped = 0
      BY FS_EmptySet DEF Init, QueueInit
    <2>2. \A k \in {"wait", "ack", "recordDropped"} : WorkersAt(k) = 0
      <3>1. \A k \in {"wait", "ack", "recordDropped"} : {w \in Workers : pc[w] = k} = {}
        BY DEF Init
      <3>2. QED
        BY <3>1, FS_EmptySet DEF WorkersAt
    <2>3. Cardinality(spawns) <= Cardinality(ExecutionIDs) * MaxAttempts
      BY DispatchInitially, SpawnBound DEF DispatchInv, TypeOK
    <2>4. StatsBalance
      BY <2>1, <2>2, <2>3 DEF StatsBalance, Init
    <2>5. SpawnInv
      BY DEF SpawnInv, Init
    <2>6. QED
      BY <2>4, <2>5
  <1>2. DispatchInv /\ DispatchInv' /\ StatsBalance /\ SpawnInv /\ [Next]_vars => StatsBalance' /\ SpawnInv'
    BY BalanceStep, SpawnStep
  <1>3. QED
    BY <1>1, <1>2, DispatchInvariant, PTL DEF Spec

-----------------------------------------------------------------------------
\* What EverySpecSettlesOrJams rests on beside scheduling.

\* A worker whose select has no case to take does not step.
LEMMA BlockedWorkersWait ==
    ASSUME NEW w \in Workers, Blocked(w)
    PROVE  ~WorkerStep(w)
  <1>1. ASSUME WorkerStep(w) PROVE FALSE
    <2>1. Gen(w) \notin ctxDone /\ pc[w] \in {"dequeue", "requeue"}
      BY DEF Blocked
    <2>2. CASE pc[w] = "dequeue"
      <3>1. Dequeue(w) \/ DequeueClosed(w)
        BY <1>1, <2>1, <2>2 DEF WorkerStep, LoopTop, DequeueCtx, Register, Spawn, WaitResult, WaitError,
                                Ack, NackRead, NackDrop, NackRemove, NackRequeue, NackCtx,
                                recordNackResult, Recording
      <3>2. QED
        BY <2>2, <3>1 DEF Dequeue, Receive, DequeueClosed, Drained, Blocked
    <2>3. CASE pc[w] = "requeue"
      <3>1. NackRequeue(w)
        BY <1>1, <2>1, <2>3 DEF WorkerStep, LoopTop, Dequeue, DequeueCtx, DequeueClosed, Register, Spawn,
                                WaitResult, WaitError, Ack, NackRead, NackDrop, NackRemove, NackCtx,
                                recordNackResult, Recording
      <3>2. QED
        BY <2>3, <3>1 DEF NackRequeue, SendRetry, Blocked
    <2>4. QED
      BY <2>1, <2>2, <2>3
  <1>2. QED
    BY <1>1

LEMMA PoolInitially == Init => PoolInv
  BY DispatcherAssumption DEF Init, QueueInit, PoolInv, Workers, Generations, Gen, Exited

\* A worker's step to another program counter, while the pool stays as it is.
LEMMA PoolMove ==
    ASSUME TypeOK, PoolInv, NEW w \in Workers, NEW l \in WorkerPC, pc' = [pc EXCEPT ![w] = l],
           closed' = closed, closeCh' = closeCh, gen' = gen, ctxDone' = ctxDone,
           l # "off", l \in {"exitClosed", "exitCtx"} => ctxDone # {} \/ closeCh
    PROVE  PoolInv'
  <1>1. pc \in [Workers -> WorkerPC]
    BY DEF TypeOK
  <1>2. pc'[w] = l /\ \A v \in Workers \ {w} : pc'[v] = pc[v]
    BY <1>1
  <1>3. QED
    BY <1>2 DEF PoolInv, Exited

LEMMA PoolStep ==
    ASSUME DispatchInv, PoolInv, [Next]_vars
    PROVE  PoolInv'
  <1>1. TypeOK /\ pc \in [Workers -> WorkerPC] /\ \A w \in Workers : Gen(w) > gen => pc[w] = "off"
    BY DEF DispatchInv, TypeOK, HandInv
  <1>2. CASE UNCHANGED vars
    BY <1>2 DEF vars, queueVars, dispVars, PoolInv, Exited
  <1>3. CASE QueueNext /\ UNCHANGED dispVars
    <2>1. UNCHANGED <<pc, gen, ctxDone>>
      BY <1>3 DEF dispVars
    <2>2. (closeCh' => closed') /\ (closeCh => closeCh')
      <3>1. closeCh => closed
        BY DEF PoolInv
      <3>2. CASE UNCHANGED <<closed, closeCh>>
        BY <3>1, <3>2
      <3>3. CASE CloseMark
        BY <3>1, <3>3 DEF CloseMark
      <3>4. CASE CloseSignal
        <4>1. closed /\ closed' = closed /\ closeCh' = TRUE
          BY <3>4 DEF CloseSignal
        <4>2. QED
          BY <4>1
      <3>5. UNCHANGED <<closed, closeCh>> \/ CloseMark \/ CloseSignal
        BY <1>3 DEF QueueNext, EnqueueCheck, EnqueueSend, EnqueueGiveUp
      <3>6. QED
        BY <3>2, <3>3, <3>4, <3>5
    <2>3. QED
      BY <2>1, <2>2 DEF PoolInv, Exited
  <1>4. CASE Start
    <2>1. /\ gen' = gen + 1 /\ gen \in Nat /\ UNCHANGED <<closed, closeCh, ctxDone>>
          /\ \A w \in Workers : pc'[w] = IF Gen(w) = gen + 1 THEN "starting" ELSE pc[w]
      BY <1>1, <1>4, DispatcherAssumption DEF Start, queueVars, TypeOK
    <2>2. ASSUME NEW w \in Workers, Gen(w) <= gen' PROVE pc'[w] # "off"
      <3>1. Gen(w) \in Nat
        BY DispatcherAssumption DEF Workers, Generations, Gen
      <3>2. Gen(w) <= gen \/ Gen(w) = gen + 1
        BY <2>1, <2>2, <3>1
      <3>3. QED
        BY <2>1, <3>2 DEF PoolInv
    <2>3. QED
      BY <2>1, <2>2 DEF PoolInv, Exited
  <1>5. ASSUME NEW g \in Generations, CancelContext(g) PROVE PoolInv'
    BY <1>5 DEF CancelContext, queueVars, PoolInv, Exited
  <1>6. ASSUME NEW c \in Stoppers, StopMark(c) \/ StopCancel(c) \/ StopDone(c) \/ StopTimeout(c)
        PROVE  PoolInv'
    <2>1. UNCHANGED <<queueVars, pc, gen>> /\ ctxDone \subseteq ctxDone'
      BY <1>6 DEF StopMark, StopCancel, StopDone, StopTimeout
    <2>2. QED
      BY <2>1 DEF queueVars, PoolInv, Exited
  <1>7. ASSUME NEW w \in Workers, Launch(w) \/ WorkerStep(w) PROVE PoolInv'
    <2>1. closed' = closed /\ closeCh' = closeCh /\ gen' = gen /\ ctxDone' = ctxDone
      BY <1>7 DEF Launch, WorkerStep, LoopTop, Dequeue, Receive, DequeueCtx, DequeueClosed, Register,
                  StoreInFlight, Spawn, WaitResult, WaitError, Ack, RemoveInFlight, NackRead, NackDrop,
                  DeadLetter, NackRemove, NackRequeue, SendRetry, NackCtx, recordNackResult,
                  queueVars, controlVars
    <2>2. PICK l \in WorkerPC : /\ pc' = [pc EXCEPT ![w] = l] /\ l # "off"
                                /\ l \in {"exitClosed", "exitCtx"} => Gen(w) \in ctxDone \/ closeCh
      <3>1. CASE Launch(w) \/ LoopTop(w) \/ Dequeue(w) \/ DequeueCtx(w) \/ Register(w)
        BY <3>1 DEF Launch, LoopTop, Dequeue, DequeueCtx, Register, Goto, WorkerPC, Driving, Carrying
      <3>2. CASE DequeueClosed(w)
        BY <3>2 DEF DequeueClosed, Drained, Goto, WorkerPC
      <3>3. CASE Spawn(w) \/ WaitResult(w) \/ WaitError(w) \/ recordNackResult(w)
        BY <3>3 DEF Spawn, WaitResult, WaitError, recordNackResult, Goto, WorkerPC, Driving
      <3>4. CASE Ack(w) \/ NackRead(w) \/ NackCtx(w)
        BY <3>4 DEF Ack, NackRead, NackCtx, Release, Goto, WorkerPC, Driving
      <3>5. CASE NackDrop(w) \/ NackRemove(w) \/ NackRequeue(w)
        BY <3>5 DEF NackDrop, NackRemove, NackRequeue, Goto, WorkerPC, Carrying, Recording
      <3>6. QED
        BY <1>7, <3>1, <3>2, <3>3, <3>4, <3>5 DEF WorkerStep
    <2>3. QED
      BY <1>1, <2>1, <2>2, PoolMove
  <1>8. QED
    BY <1>2, <1>3, <1>4, <1>5, <1>6, <1>7 DEF Next

\* For any pool, capacity and cap: as long as an accepted spec is not settled,
\* and nobody cancels or closes, some worker has a step to take; the one
\* exception is that every worker waits in Nack for room in a full channel.
THEOREM OnlyJamsStop == Spec => []OnlyAJamStopsThePool
  <1>1. ASSUME DispatchInv, PoolInv PROVE OnlyAJamStopsThePool
    <2> SUFFICES ASSUME NEW id \in ExecutionIDs, enq[id] = "accepted", gen > 0, ~Settled(id),
                        ctxDone = {}, ~closed,
                        \A w \in Workers : pc[w] # "starting" /\ (Live(w) => Blocked(w))
                 PROVE  Jammed
      BY DEF OnlyAJamStopsThePool
    <2>1. TypeOK /\ pc \in [Workers -> WorkerPC] /\ ~closeCh
      BY <1>1 DEF DispatchInv, TypeOK, PoolInv
    <2>2. ASSUME NEW w \in Workers PROVE pc[w] = "off" \/ (Live(w) /\ Blocked(w))
      BY <1>1, <2>1 DEF PoolInv, Exited, Live
    <2>3. PICK w \in Workers : Live(w)
      <3>1. <<1, 1>> \in Workers /\ Gen(<<1, 1>>) = 1
        BY DispatcherAssumption DEF Workers, Generations, Gen
      <3>2. 1 <= gen
        BY <2>1, DispatcherAssumption DEF TypeOK
      <3>3. QED
        BY <1>1, <2>2, <3>1, <3>2 DEF PoolInv
    <2>4. InPending(id) \/ Held(id)
      BY <1>1, Accounts DEF AccountInv, Stranded
    <2>5. ~HasRoom => Len(pending) # 0
      BY <2>1, QueueAssumption DEF HasRoom, TypeOK, QueueTypeOK
    <2>6. Len(pending) # 0
      <3>1. CASE InPending(id)
        BY <2>1, <3>1 DEF InPending, TypeOK, QueueTypeOK
      <3>2. CASE Held(id)
        <4>1. PICK v \in Workers : pc[v] \in Driving \cup Carrying
          BY <3>2 DEF Held, Holds
        <4>2. Blocked(v)
          BY <2>2, <4>1 DEF Driving, Carrying
        <4>3. ~HasRoom
          BY <4>1, <4>2 DEF Blocked, Driving, Carrying
        <4>4. QED
          BY <2>5, <4>3
      <3>3. QED
        BY <2>4, <3>1, <3>2
    <2>7. pending # <<>>
      BY <2>6
    <2>8. \A v \in Workers : Live(v) => pc[v] = "requeue" /\ ~HasRoom
      BY <2>7 DEF Blocked
    <2>9. QED
      BY <2>3, <2>8 DEF Jammed
  <1>2. DispatchInv /\ PoolInv /\ [Next]_vars => PoolInv'
    BY PoolStep
  <1>3. QED
    BY <1>1, <1>2, PoolInitially, DispatchInvariant, PTL DEF Spec
=============================================================================
