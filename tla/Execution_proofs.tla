-------------------------- MODULE Execution_proofs --------------------------
(***************************************************************************)
(* Proofs about the execution engine, for every number of executions and   *)
(* of concurrent requests, every runtime and both kinds of store.          *)
(*                                                                         *)
(* The inductive invariant is IInv of module Execution.  The lemmas        *)
(* DriverEffect and RequestEffect say once what a step of a driver and of  *)
(* a patch, review or cancel request does to its own record and to the     *)
(* rows; the Step lemmas then prove one conjunct of IInv each.             *)
(***************************************************************************)
EXTENDS Execution, TLAPS

(***************************************************************************)
(* Effects.                                                                *)
(***************************************************************************)

\* What UpdateStatus leaves in a row.
LEMMA UpdatedRow ==
    ASSUME NEW old \in RowType, NEW status \in Status, NEW msg \in BOOLEAN
    PROVE  /\ Updated(old, status, msg) \in RowType
           /\ Updated(old, status, msg).status = status
           /\ status \in Terminal => Updated(old, status, msg).completedAt
  BY DEF Updated, RowType

\* A store write: the row gets the status, other rows stay, review is noted.
LEMMA StoreWrite ==
    ASSUME TypeOK, NEW e \in Executions, NEW status \in Status, NEW msg \in BOOLEAN,
           UpdateStatus(e, status, msg)
    PROVE  /\ row' \in [Executions -> RowType]
           /\ row'[e].status = status
           /\ status \in Terminal => row'[e].completedAt
           /\ \A x \in Executions : x # e => row'[x] = row[x]
           /\ reviewed \subseteq reviewed' /\ reviewed' \subseteq Executions
           /\ status = "review" => e \in reviewed'
  BY UpdatedRow DEF TypeOK, UpdateStatus

\* An idle request is well typed.
LEMMA IdleReqType ==
    IdleReq \in ReqType /\ IdleReq.pc = "idle" /\ IdleReq.op = "none"
  BY DEF IdleReq, ReqType, ReqPC

\* A driver that ends keeps nothing but gaveUp.
LEMMA DoneDrv ==
    ASSUME NEW b \in BOOLEAN
    PROVE  /\ [NoDrv EXCEPT !.pc = "done", !.gaveUp = b] \in DrvType
           /\ [NoDrv EXCEPT !.pc = "done", !.gaveUp = b].pc = "done"
           /\ [NoDrv EXCEPT !.pc = "done", !.gaveUp = b].gaveUp = b
  BY DEF NoDrv, DrvType, DrvPC

\* What the driver of e holds after a step, in terms of what it held before.
DriverHolds(e, d) ==
    /\ d \in DrvType
    /\ drv' = [drv EXCEPT ![e] = d]
    /\ d.pc \notin {"none", "sleep", "start"}
    /\ d.pc \in {"worker", "read", "write"} => d.to # "none"
    /\ d.pc = "write" /\ runtime # "none" => isValidExecutionTransition(d.seen, d.to)
    /\ d.gaveUp \/ d.pc = "wait" \/ proc[e] # "alive"

\* What a driver holds when it ends.
LEMMA DriverEnds ==
    ASSUME TypeOK, Handover, NEW e \in Executions,
           drv[e].pc \in {"sleep", "read", "write"}, DriverDone(e)
    PROVE  \E d : DriverHolds(e, d)
<1> DEFINE d == [NoDrv EXCEPT !.pc = "done", !.gaveUp = drv[e].gaveUp]
<1>1. drv[e].gaveUp \in BOOLEAN
  BY DEF TypeOK, DrvType
<1>2. d \in DrvType /\ d.pc = "done" /\ d.gaveUp = drv[e].gaveUp
  BY <1>1, DoneDrv
<1>3. drv[e].gaveUp \/ proc[e] # "alive"
  BY DEF Handover
<1>4. drv' = [drv EXCEPT ![e] = d]
  BY DEF DriverDone
<1> HIDE DEF d
<1>5. DriverHolds(e, d)
  BY <1>2, <1>3, <1>4 DEF DriverHolds
<1> QED
  BY <1>5

\* A step of a driver changes its own record, its worker row and, if it was
\* about to write, its execution row.
LEMMA DriverEffect ==
    ASSUME TypeOK, Attached, Handover, NEW e \in Executions, DriverStep(e)
    PROVE  /\ drv[e].pc \notin {"none", "done"}
           /\ \E d : DriverHolds(e, d)
           /\ UNCHANGED <<proc, ctxDone, req, lifeVars>>
           /\ worker' \in [Executions -> {"absent", "pending", "running", "completed", "failed"}]
           /\ \/ UNCHANGED <<row, reviewed>>
              \/ /\ drv[e].pc = "write"
                 /\ drv[e].to \in {"review", "failed"} /\ drv[e].msg \in BOOLEAN
                 /\ UpdateStatus(e, drv[e].to, drv[e].msg)
<1>a. drv[e] \in DrvType /\ row[e] \in RowType
  BY DEF TypeOK
<1>1. CASE DriverStart(e)
  <2>1. drv' = [drv EXCEPT ![e] = [drv[e] EXCEPT !.pc = "wait"]]
    BY <1>1 DEF DriverStart, Drive, TypeOK
  <2>2. DriverHolds(e, [drv[e] EXCEPT !.pc = "wait"])
    BY <1>a, <2>1 DEF DriverHolds, DrvType, DrvPC
  <2> QED
    BY <1>1, <2>2 DEF DriverStart, TypeOK
<1>2. CASE DriverResult(e)
  <2>a. PICK t \in {"review", "failed"}, m \in BOOLEAN :
          drv' = [drv EXCEPT ![e].pc = "worker", ![e].msg = m, ![e].to = t]
    BY <1>2 DEF DriverResult
  <2>1. drv' = [drv EXCEPT ![e] = [drv[e] EXCEPT !.pc = "worker", !.msg = m, !.to = t]]
    BY <2>a DEF TypeOK
  <2>2. DriverHolds(e, [drv[e] EXCEPT !.pc = "worker", !.msg = m, !.to = t])
    BY <1>2, <1>a, <2>1 DEF DriverHolds, DriverResult, DrvType, DrvPC
  <2> QED
    BY <1>2, <2>2 DEF DriverResult, TypeOK
<1>3. CASE DriverWaitError(e)
  <2> DEFINE d == [drv[e] EXCEPT !.pc = "worker", !.msg = TRUE, !.to = "failed",
                                 !.gaveUp = TRUE]
  <2>1. drv' = [drv EXCEPT ![e] = d]
    BY <1>3 DEF DriverWaitError, TypeOK
  <2>2. DriverHolds(e, d)
    BY <1>a, <2>1 DEF DriverHolds, DrvType, DrvPC
  <2> QED
    BY <1>3, <2>2 DEF DriverWaitError, TypeOK
<1>4. CASE DriverWorkerRow(e)
  <2>1. drv' = [drv EXCEPT ![e] = [drv[e] EXCEPT !.pc = "read"]]
    BY <1>4 DEF DriverWorkerRow, Drive, TypeOK
  <2>2. drv[e].gaveUp \/ proc[e] # "alive"
    BY <1>4 DEF DriverWorkerRow, Handover
  <2>3. drv[e].to # "none"
    BY <1>4 DEF DriverWorkerRow, Attached
  <2>4. DriverHolds(e, [drv[e] EXCEPT !.pc = "read"])
    BY <1>a, <2>1, <2>2, <2>3 DEF DriverHolds, DrvType, DrvPC
  <2> QED
    BY <1>4, <2>4 DEF DriverWorkerRow, TypeOK, workerStatusFromExecutionStatus
<1>5. CASE DriverRead(e)
  <2>1. \E d : DriverHolds(e, d)
    <3>1. CASE isValidExecutionTransition(row[e].status, drv[e].to)
      <4> DEFINE s == row[e].status
                 d == [drv[e] EXCEPT !.pc = "write", !.seen = s]
      <4>1. s \in Status
        BY <1>5, <1>a DEF DriverRead, Attached, RowType
      <4>2. (drv[e].gaveUp \/ proc[e] # "alive") /\ drv[e].to # "none"
        BY <1>5 DEF DriverRead, Handover, Attached
      <4>3. drv' = [drv EXCEPT ![e] = d]
        BY <1>5, <3>1 DEF DriverRead, TypeOK
      <4> HIDE DEF s
      <4>4. d \in DrvType /\ d.pc = "write" /\ d.seen = s /\ d.to = drv[e].to
            /\ d.gaveUp = drv[e].gaveUp
        BY <1>a, <4>1 DEF DrvType, DrvPC
      <4> HIDE DEF d
      <4> QED
        BY <3>1, <4>2, <4>3, <4>4 DEF DriverHolds, s
    <3> QED
      BY <1>5, <3>1, DriverEnds DEF DriverRead
  <2> QED
    BY <1>5, <2>1 DEF DriverRead, TypeOK
<1>6. CASE DriverWrite(e)
  <2>1. drv[e].to \in {"review", "failed"} /\ drv[e].msg \in BOOLEAN
    BY <1>6, <1>a DEF DriverWrite, Attached, DrvType
  <2> QED
    BY <1>6, <2>1, DriverEnds DEF DriverWrite, TypeOK
<1>7. CASE DriverWriteFails(e)
  BY <1>7, DriverEnds DEF DriverWriteFails, TypeOK
<1>8. CASE MockWakes(e)
  <2>a. PICK t \in {"review", "failed"}, m \in BOOLEAN :
          drv' = [drv EXCEPT ![e].pc = "write", ![e].to = t, ![e].msg = m]
    BY <1>8 DEF MockWakes
  <2>1. drv' = [drv EXCEPT ![e] = [drv[e] EXCEPT !.pc = "write", !.to = t, !.msg = m]]
    BY <2>a DEF TypeOK
  <2>2. runtime = "none" /\ proc[e] # "alive"
    BY <1>8 DEF MockWakes, Handover
  <2>3. DriverHolds(e, [drv[e] EXCEPT !.pc = "write", !.to = t, !.msg = m])
    BY <1>a, <2>1, <2>2 DEF DriverHolds, DrvType, DrvPC
  <2> QED
    BY <1>8, <2>3 DEF MockWakes, TypeOK
<1>9. CASE MockStops(e)
  BY <1>9, DriverEnds DEF MockStops, TypeOK
<1> QED
  BY <1>1, <1>2, <1>3, <1>4, <1>5, <1>6, <1>7, <1>8, <1>9 DEF DriverStep

\* What a patch, review or cancel request holds after a step.
RequestHolds(r, q) ==
    /\ q \in ReqType
    /\ req' = [req EXCEPT ![r] = q]
    /\ q.op # "create" /\ q.pc \in {"idle", "check", "write"}
    /\ q.pc # "idle" =>
          q.e \in Executions /\ row[q.e].status # "absent" /\ q.to \in Status
    /\ q.pc = "write" =>
          q.seen = row[q.e].status /\ isValidExecutionTransition(q.seen, q.to)

\* The steps of the requests on an existing execution.
Other(r) ==
    \/ \E e \in Executions :
          \/ \E to \in Status, msg \in PatchMessages : Patch(r, e, to, msg)
          \/ \E accepted \in BOOLEAN : Review(r, e, accepted)
          \/ Cancel(r, e)
    \/ UpdateCheck(r) \/ RequestWrite(r) \/ RequestWriteFails(r)

\* What a request holds when it begins.
LEMMA BeginHolds ==
    ASSUME TypeOK, NEW r \in Requests, NEW e \in Executions,
           NEW op \in {"patch", "review", "cancel"}, NEW pc \in {"check", "write"},
           NEW to \in Status, NEW msg \in BOOLEAN, Begin(r, e, op, pc, to, msg),
           pc = "write" => isValidExecutionTransition(row[e].status, to)
    PROVE  \E q : RequestHolds(r, q)
<1> DEFINE s == IF pc = "write" THEN row[e].status ELSE "none"
           q == [pc |-> pc, op |-> op, e |-> e, to |-> to, msg |-> msg, seen |-> s]
<1>1. s \in Status \cup {"none"}
  BY DEF Begin, TypeOK, RowType
<1>2. req' = [req EXCEPT ![r] = q]
  BY DEF Begin
<1>3. pc = "write" => s = row[e].status
  OBVIOUS
<1> HIDE DEF s
<1>4. q \in ReqType
  BY <1>1 DEF ReqType, ReqPC
<1>5. RequestHolds(r, q)
  BY <1>2, <1>3, <1>4 DEF RequestHolds, Begin
<1> QED
  BY <1>5

\* What a request holds when it has responded.
LEMMA RequestIdles ==
    ASSUME NEW r \in Requests, req' = [req EXCEPT ![r] = IdleReq]
    PROVE  \E q : RequestHolds(r, q)
  BY IdleReqType DEF RequestHolds

\* A step of such a request changes its own record and, if it was about to
\* write, the row it names.
LEMMA RequestEffect ==
    ASSUME TypeOK, Attached, NEW r \in Requests, Other(r)
    PROVE  /\ req[r].pc \in {"idle", "check", "write"}
           /\ \E q : RequestHolds(r, q)
           /\ UNCHANGED <<worker, proc, ctxDone, drv, lifeVars>>
           /\ \/ UNCHANGED <<row, reviewed>>
              \/ /\ req[r].pc = "write"
                 /\ req[r].e \in Executions /\ req[r].to \in Status
                 /\ req[r].msg \in BOOLEAN
                 /\ UpdateStatus(req[r].e, req[r].to, req[r].msg)
<1>a. req[r] \in ReqType
  BY DEF TypeOK
<1>1. ASSUME NEW e \in Executions, NEW to \in Status, NEW msg \in PatchMessages,
             Patch(r, e, to, msg)
      PROVE  \E q : RequestHolds(r, q)
  <2>1. msg \in BOOLEAN
    BY ExecutionAssumption
  <2> QED
    BY <1>1, <2>1, BeginHolds DEF Patch
<1>2. ASSUME NEW e \in Executions, NEW accepted \in BOOLEAN, Review(r, e, accepted)
      PROVE  \E q : RequestHolds(r, q)
  <2>1. PICK to \in Status : Begin(r, e, "review", "check", to, ~accepted)
    BY <1>2 DEF Review, Status
  <2>2. (~accepted) \in BOOLEAN
    OBVIOUS
  <2> QED
    BY <2>1, <2>2, BeginHolds
<1>3. ASSUME NEW e \in Executions, Cancel(r, e) PROVE \E q : RequestHolds(r, q)
  <2>1. Begin(r, e, "cancel", "check", "failed", TRUE) /\ "failed" \in Status
    BY <1>3 DEF Cancel, Status
  <2> QED
    BY <2>1, BeginHolds
<1>4. ASSUME NEW e \in Executions,
             \/ \E to \in Status, msg \in PatchMessages : Patch(r, e, to, msg)
             \/ \E accepted \in BOOLEAN : Review(r, e, accepted)
             \/ Cancel(r, e)
      PROVE  /\ req[r].pc = "idle"
             /\ UNCHANGED <<row, worker, proc, ctxDone, drv, lifeVars, reviewed>>
  BY <1>4 DEF Patch, Review, Cancel, Begin
<1>5. CASE UpdateCheck(r)
  <2>1. CASE isValidExecutionTransition(row[req[r].e].status, req[r].to)
    <3> DEFINE s == row[req[r].e].status
               q == [req[r] EXCEPT !.pc = "write", !.seen = s]
    <3>1. req[r].e \in Executions /\ row[req[r].e].status # "absent"
          /\ req[r].to \in Status /\ req[r].op # "create"
      BY <1>5, <1>a DEF UpdateCheck, Attached, ReqType
    <3>2. s \in Status
      BY <3>1 DEF TypeOK, RowType
    <3>3. req' = [req EXCEPT ![r] = q]
      BY <1>5, <2>1 DEF UpdateCheck, TypeOK
    <3>4. s = row[req[r].e].status
      OBVIOUS
    <3> HIDE DEF s
    <3>5. q \in ReqType /\ q.pc = "write" /\ q.seen = s /\ q.to = req[r].to
          /\ q.e = req[r].e /\ q.op = req[r].op
      BY <1>a, <3>2 DEF ReqType, ReqPC
    <3> HIDE DEF q
    <3>6. RequestHolds(r, q)
      BY <2>1, <3>1, <3>3, <3>4, <3>5 DEF RequestHolds
    <3> QED
      BY <1>5, <3>6 DEF UpdateCheck
  <2> QED
    BY <1>5, <2>1, RequestIdles DEF UpdateCheck
<1>6. CASE RequestWrite(r)
  <2>1. req[r].e \in Executions /\ req[r].to \in Status /\ req[r].msg \in BOOLEAN
    BY <1>6, <1>a DEF RequestWrite, Attached, ReqType
  <2> QED
    BY <1>6, <2>1, RequestIdles DEF RequestWrite
<1>7. CASE RequestWriteFails(r)
  BY <1>7, RequestIdles DEF RequestWriteFails
<1> QED
  BY <1>1, <1>2, <1>3, <1>4, <1>5, <1>6, <1>7 DEF Other

\* Steps of clients that go away, of workers and of the shutdown sequence
\* leave rows, requests and drivers alone, and start no worker.
Quiet ==
    \/ \E r \in Requests : ClientGone(r)
    \/ \E e \in Executions : WorkerEnds(e) \/ ContextKill(e)
    \/ Signal
    \/ ShutdownStep

\* What such a step leaves alone.
LEMMA QuietEffect ==
    ASSUME TypeOK, Attached, Quiet
    PROVE  /\ UNCHANGED <<runtime, liveRows, row, worker, drv, req, reviewed>>
           /\ ctxDone' \subseteq Executions
           /\ proc' \in [Executions ->
                {"none", "alive", "completed", "failed", "cancelled", "killed"}]
           /\ \A e \in Executions : proc[e] # "alive" => proc'[e] = proc[e]
           /\ server' \in {"up", "draining", "drained", "overrun"}
           /\ stop' \in BOOLEAN /\ rtClosed' \in BOOLEAN
           /\ shutdown' \in {"no", "nil", "ctx"}
<1>1. ASSUME NEW r \in Requests, ClientGone(r) PROVE req[r].e \in Executions
  BY <1>1 DEF ClientGone, Attached
<1>2. /\ UNCHANGED <<runtime, liveRows, row, worker, drv, req, reviewed>>
      /\ ctxDone' \subseteq Executions
  BY <1>1 DEF Quiet, ClientGone, WorkerEnds, ContextKill, Signal, ShutdownStep,
              HttpShutdown, ShutdownStop, RuntimeClose, ShutdownReturn, businessVars,
              lifeVars, deployment, TypeOK
<1>3. /\ proc' \in [Executions ->
                {"none", "alive", "completed", "failed", "cancelled", "killed"}]
      /\ \A e \in Executions : proc[e] # "alive" => proc'[e] = proc[e]
  BY DEF Quiet, ClientGone, WorkerEnds, ContextKill, Signal, ShutdownStep, HttpShutdown,
         ShutdownStop, RuntimeClose, ShutdownReturn, Kill, TypeOK
<1>4. /\ server' \in {"up", "draining", "drained", "overrun"}
      /\ stop' \in BOOLEAN /\ rtClosed' \in BOOLEAN /\ shutdown' \in {"no", "nil", "ctx"}
  BY DEF Quiet, ClientGone, WorkerEnds, ContextKill, Signal, ShutdownStep, HttpShutdown,
         ShutdownStop, RuntimeClose, ShutdownReturn, lifeVars, TypeOK
<1> QED
  BY <1>2, <1>3, <1>4

\* The steps of CreateExecution, the other ones by their effect.
LEMMA Cases ==
    ASSUME Next
    PROVE  \/ \E r \in Requests, e \in Executions :
                \/ CreateRow(r, e) \/ SpawnCheck(r, e) \/ Spawn(r, e)
                \/ SpawnFails(r, e) \/ Writeback(r, e)
                \/ CreateWorkerRow(r, e) \/ CreateFails(r, e) \/ Launch(r, e)
           \/ \E r \in Requests : Other(r)
           \/ \E e \in Executions : DriverStep(e)
           \/ Quiet
  BY DEF Next, NewRequest, RequestStep, Other, Quiet

\* The request that inserts the row of e.
LEMMA CreateRowEffect ==
    ASSUME TypeOK, NEW r \in Requests, NEW e \in Executions, CreateRow(r, e)
    PROVE  /\ \E q \in ReqType :
                 /\ req' = [req EXCEPT ![r] = q]
                 /\ q.op = "create" /\ q.e = e
                 /\ q.pc = IF runtime = "none" THEN "launch" ELSE "spawn"
           /\ row' \in [Executions -> RowType]
           /\ row'[e].status = "assigned"
           /\ \A x \in Executions : x # e => row'[x] = row[x]
<1> DEFINE p == IF runtime = "none" THEN "launch" ELSE "spawn"
           q == [IdleReq EXCEPT !.op = "create", !.e = e, !.pc = p]
<1>1. p \in {"launch", "spawn"}
  OBVIOUS
<1>2. req' = [req EXCEPT ![r] = q]
  BY DEF CreateRow
<1> HIDE DEF p
<1>3. q \in ReqType /\ q.op = "create" /\ q.e = e /\ q.pc = p
  BY <1>1, IdleReqType DEF ReqType, ReqPC
<1>4. /\ row' \in [Executions -> RowType]
      /\ row'[e].status = "assigned"
      /\ \A x \in Executions : x # e => row'[x] = row[x]
  BY DEF CreateRow, TypeOK, RowType, Status
<1> HIDE DEF q
<1>5. q.pc = IF runtime = "none" THEN "launch" ELSE "spawn"
  BY <1>3 DEF p
<1> QED
  BY <1>2, <1>3, <1>4, <1>5

\* Spawn holds the status it will write back.
LEMMA SpawnEffect ==
    ASSUME TypeOK, Attached, NEW r \in Requests, NEW e \in Executions, Spawn(r, e)
    PROVE  /\ \E s \in Status, q \in ReqType :
                 /\ req' = [req EXCEPT ![r] = q]
                 /\ q.op = "create" /\ q.e = e /\ q.pc = "writeback"
                 /\ q.seen = s /\ q.to = s
                 /\ s = row[e].status \/ s = "assigned"
           /\ row' \in [Executions -> RowType]
           /\ \A x \in Executions : /\ row'[x].status = row[x].status
                                    /\ row'[x].completedAt = row[x].completedAt
<1>1. row[e].status \in Status /\ row[e].errMsg \in BOOLEAN
  BY DEF Spawn, Creating, TypeOK, Attached, RowType
<1>2. PICK s \in Status, m \in BOOLEAN :
        /\ req' = [req EXCEPT ![r].pc = "writeback", ![r].seen = s, ![r].to = s, ![r].msg = m]
        /\ s = row[e].status \/ s = "assigned"
  BY <1>1 DEF Spawn, TypeOK, Status
<1> DEFINE q == [req[r] EXCEPT !.pc = "writeback", !.seen = s, !.to = s, !.msg = m]
<1>3. req[r] \in ReqType /\ req[r].op = "create" /\ req[r].e = e
  BY DEF TypeOK, Spawn, Creating
<1>4. req' = [req EXCEPT ![r] = q]
  BY <1>2, <1>3 DEF TypeOK
<1>5. q \in ReqType /\ q.op = "create" /\ q.e = e /\ q.pc = "writeback"
      /\ q.seen = s /\ q.to = s
  BY <1>3 DEF ReqType, ReqPC
<1>6. row' \in [Executions -> RowType]
      /\ \A x \in Executions : /\ row'[x].status = row[x].status
                               /\ row'[x].completedAt = row[x].completedAt
  BY DEF Spawn, TypeOK, RowType
<1> HIDE DEF q
<1> QED
  BY <1>2, <1>4, <1>5, <1>6

\* The write-back of CreateExecution writes a status to the row of e.
LEMMA WritebackEffect ==
    ASSUME TypeOK, Attached, NEW r \in Requests, NEW e \in Executions, Writeback(r, e)
    PROVE  /\ \E q \in ReqType :
                 /\ req' = [req EXCEPT ![r] = q]
                 /\ q.op = "create" /\ q.e = e /\ q.pc = "worker"
           /\ req[r].to \in Status /\ req[r].msg \in BOOLEAN
           /\ UpdateStatus(e, req[r].to, req[r].msg)
<1> DEFINE q == [req[r] EXCEPT !.pc = "worker"]
<1>1. req[r] \in ReqType /\ req[r].op = "create" /\ req[r].e = e
  BY DEF TypeOK, Writeback, Creating
<1>2. req' = [req EXCEPT ![r] = q]
  BY DEF Writeback, Advance, TypeOK
<1>3. q \in ReqType /\ q.op = "create" /\ q.e = e /\ q.pc = "worker"
  BY <1>1 DEF ReqType, ReqPC
<1>4. req[r].to \in Status /\ req[r].msg \in BOOLEAN
  BY <1>1 DEF Writeback, Creating, Attached, ReqType
<1> HIDE DEF q
<1> QED
  BY <1>2, <1>3, <1>4 DEF Writeback

(***************************************************************************)
(* One lemma per conjunct of IInv.                                         *)
(***************************************************************************)

\* Every step preserves the types.
LEMMA TypeStep ==
    ASSUME TypeOK, Attached, Handover, Next
    PROVE  TypeOK'
<1>1. ASSUME NEW r \in Requests, NEW e \in Executions, CreateRow(r, e)
      PROVE  TypeOK'
  <2>1. req' \in [Requests -> ReqType] /\ row' \in [Executions -> RowType]
    BY <1>1, CreateRowEffect DEF TypeOK
  <2> QED
    BY <1>1, <2>1 DEF CreateRow, TypeOK, lifeVars, deployment
<1>2. ASSUME NEW r \in Requests, NEW e \in Executions, SpawnCheck(r, e)
      PROVE  TypeOK'
  <2>1. req' \in [Requests -> ReqType]
    BY <1>2 DEF SpawnCheck, Advance, TypeOK, ReqType, ReqPC
  <2> QED
    BY <1>2, <2>1 DEF SpawnCheck, TypeOK, lifeVars, deployment
<1>3. ASSUME NEW r \in Requests, NEW e \in Executions, Spawn(r, e)
      PROVE  TypeOK'
  <2>1. req' \in [Requests -> ReqType] /\ row' \in [Executions -> RowType]
    BY <1>3, SpawnEffect DEF TypeOK
  <2> QED
    BY <1>3, <2>1 DEF Spawn, TypeOK, lifeVars, deployment
<1>4. ASSUME NEW r \in Requests, NEW e \in Executions, SpawnFails(r, e)
      PROVE  TypeOK'
  BY <1>4, IdleReqType DEF SpawnFails, Creating, Respond, TypeOK, lifeVars, deployment
<1>5. ASSUME NEW r \in Requests, NEW e \in Executions, Writeback(r, e)
      PROVE  TypeOK'
  <2>1. row' \in [Executions -> RowType] /\ reviewed' \subseteq Executions
    BY <1>5, WritebackEffect, StoreWrite
  <2> QED
    BY <1>5, <2>1, WritebackEffect DEF Writeback, TypeOK, lifeVars, deployment
<1>6. ASSUME NEW r \in Requests, NEW e \in Executions, CreateWorkerRow(r, e)
      PROVE  TypeOK'
  <2>1. req' \in [Requests -> ReqType]
    BY <1>6 DEF CreateWorkerRow, Advance, TypeOK, ReqType, ReqPC
  <2> QED
    BY <1>6, <2>1 DEF CreateWorkerRow, TypeOK, lifeVars, deployment
<1>7. ASSUME NEW r \in Requests, NEW e \in Executions, CreateFails(r, e)
      PROVE  TypeOK'
  <2>1. proc' \in [Executions ->
                {"none", "alive", "completed", "failed", "cancelled", "killed"}]
    BY <1>7 DEF CreateFails, Kill, TypeOK
  <2>2. req' \in [Requests -> ReqType] /\ ctxDone' \subseteq Executions
    BY <1>7, IdleReqType DEF CreateFails, Creating, Respond, TypeOK
  <2> QED
    BY <1>7, <2>1, <2>2 DEF CreateFails, TypeOK, lifeVars, deployment
<1>8. ASSUME NEW r \in Requests, NEW e \in Executions, Launch(r, e)
      PROVE  TypeOK'
  <2>1. drv' \in [Executions -> DrvType]
    BY <1>8 DEF Launch, TypeOK, DrvType, DrvPC
  <2>2. req' \in [Requests -> ReqType] /\ ctxDone' \subseteq Executions
    BY <1>8, IdleReqType DEF Launch, Creating, Respond, TypeOK
  <2> QED
    BY <1>8, <2>1, <2>2 DEF Launch, TypeOK, lifeVars, deployment
<1>9. ASSUME NEW r \in Requests, Other(r) PROVE TypeOK'
  <2>1. PICK q : RequestHolds(r, q)
    BY <1>9, RequestEffect
  <2>2. row' \in [Executions -> RowType] /\ reviewed' \subseteq Executions
    BY <1>9, RequestEffect, StoreWrite DEF TypeOK
  <2> QED
    BY <1>9, <2>1, <2>2, RequestEffect DEF RequestHolds, TypeOK, lifeVars, deployment
<1>10. ASSUME NEW e \in Executions, DriverStep(e) PROVE TypeOK'
  <2>1. PICK d : DriverHolds(e, d)
    BY <1>10, DriverEffect
  <2>2. {"review", "failed"} \subseteq Status
    BY DEF Status
  <2>3. row' \in [Executions -> RowType] /\ reviewed' \subseteq Executions
    BY <1>10, <2>2, DriverEffect, StoreWrite DEF TypeOK
  <2> QED
    BY <1>10, <2>1, <2>3, DriverEffect DEF DriverHolds, TypeOK, lifeVars, deployment
<1>11. CASE Quiet
  BY <1>11, QuietEffect DEF TypeOK
<1> QED
  BY <1>1, <1>2, <1>3, <1>4, <1>5, <1>6, <1>7, <1>8, <1>9, <1>10, <1>11, Cases

\* Every step keeps requests and drivers attached to existing rows.
LEMMA AttachedStep ==
    ASSUME TypeOK, Attached, Handover, Next
    PROVE  Attached'
<1>1. ASSUME NEW r \in Requests, NEW e \in Executions, CreateRow(r, e)
      PROVE  Attached'
  <2>1. PICK q \in ReqType :
          /\ req' = [req EXCEPT ![r] = q] /\ q.op = "create" /\ q.e = e
          /\ q.pc = IF runtime = "none" THEN "launch" ELSE "spawn"
    BY <1>1, CreateRowEffect
  <2>2. /\ row[e].status = "absent" /\ row'[e].status = "assigned"
        /\ \A x \in Executions : x # e => row'[x] = row[x]
    BY <1>1, CreateRowEffect DEF CreateRow
  <2>3. UNCHANGED <<runtime, proc, drv, reviewed>>
    BY <1>1 DEF CreateRow, lifeVars, deployment
  <2> QED
    BY <2>1, <2>2, <2>3 DEF Attached, TypeOK
<1>2. ASSUME NEW r \in Requests, NEW e \in Executions, SpawnCheck(r, e)
      PROVE  Attached'
  BY <1>2 DEF SpawnCheck, Creating, Advance, Attached, TypeOK, lifeVars, deployment,
     lifeVars, deployment
<1>3. ASSUME NEW r \in Requests, NEW e \in Executions, Spawn(r, e)
      PROVE  Attached'
  <2>1. PICK s \in Status, q \in ReqType :
          /\ req' = [req EXCEPT ![r] = q]
          /\ q.op = "create" /\ q.e = e /\ q.pc = "writeback"
          /\ q.seen = s /\ q.to = s /\ (s = row[e].status \/ s = "assigned")
    BY <1>3, SpawnEffect
  <2>2. \A x \in Executions : row'[x].status = row[x].status
    BY <1>3, SpawnEffect
  <2>3. /\ req[r].pc = "spawning" /\ req[r].op = "create" /\ req[r].e = e
        /\ proc' = [proc EXCEPT ![e] = "alive"]
        /\ UNCHANGED <<runtime, drv, reviewed>>
    BY <1>3 DEF Spawn, Creating, lifeVars, deployment
  <2> QED
    BY <2>1, <2>2, <2>3 DEF Attached, TypeOK, Status
<1>4. ASSUME NEW r \in Requests, NEW e \in Executions, SpawnFails(r, e)
      PROVE  Attached'
  BY <1>4, IdleReqType DEF SpawnFails, Creating, Respond, Attached, TypeOK, lifeVars,
     deployment, lifeVars, deployment
<1>5. ASSUME NEW r \in Requests, NEW e \in Executions, Writeback(r, e)
      PROVE  Attached'
  <2>1. PICK q \in ReqType : /\ req' = [req EXCEPT ![r] = q]
                             /\ q.op = "create" /\ q.e = e /\ q.pc = "worker"
    BY <1>5, WritebackEffect
  <2>2. \A x \in Executions : row[x].status # "absent" => row'[x].status # "absent"
    BY <1>5, WritebackEffect, StoreWrite DEF Status
  <2> QED
    BY <1>5, <2>1, <2>2 DEF Writeback, Creating, Attached, TypeOK
<1>6. ASSUME NEW r \in Requests, NEW e \in Executions, CreateWorkerRow(r, e)
      PROVE  Attached'
  BY <1>6 DEF CreateWorkerRow, Creating, Advance, Attached, TypeOK, lifeVars,
     deployment, lifeVars, deployment
<1>7. ASSUME NEW r \in Requests, NEW e \in Executions, CreateFails(r, e)
      PROVE  Attached'
  BY <1>7, IdleReqType DEF CreateFails, Creating, Kill, Respond, Attached, TypeOK,
     lifeVars, deployment, lifeVars, deployment
<1>8. ASSUME NEW r \in Requests, NEW e \in Executions, Launch(r, e)
      PROVE  Attached'
  BY <1>8, IdleReqType DEF Launch, Creating, Respond, Attached, TypeOK, lifeVars,
     deployment, lifeVars, deployment
<1>9. ASSUME NEW r \in Requests, Other(r) PROVE Attached'
  <2>1. PICK q : RequestHolds(r, q)
    BY <1>9, RequestEffect
  <2>2. \A x \in Executions : row[x].status # "absent" => row'[x].status # "absent"
    BY <1>9, RequestEffect, StoreWrite DEF Status
  <2> QED
    BY <1>9, <2>1, <2>2, RequestEffect DEF RequestHolds, Attached, TypeOK, Status
<1>10. ASSUME NEW e \in Executions, DriverStep(e) PROVE Attached'
  <2>1. PICK d : DriverHolds(e, d)
    BY <1>10, DriverEffect
  <2>2. \A x \in Executions : row[x].status # "absent" => row'[x].status # "absent"
    BY <1>10, DriverEffect, StoreWrite DEF Status
  <2>3. drv[e].pc # "none"
    BY <1>10, DriverEffect
  <2> QED
    BY <1>10, <2>1, <2>2, <2>3, DriverEffect DEF DriverHolds, Attached, TypeOK
<1>11. CASE Quiet
  BY <1>11, QuietEffect DEF Attached, TypeOK, lifeVars, deployment
<1> QED
  BY <1>1, <1>2, <1>3, <1>4, <1>5, <1>6, <1>7, <1>8, <1>9, <1>10, <1>11, Cases

\* Every step keeps pending writes justified by the status they were based on.
LEMMA ChecksStep ==
    ASSUME TypeOK, Attached, Handover, WritesWereChecked, Next
    PROVE  WritesWereChecked'
<1>1. ASSUME NEW r \in Requests, NEW e \in Executions, CreateRow(r, e)
      PROVE  WritesWereChecked'
  <2>1. PICK q \in ReqType :
          /\ req' = [req EXCEPT ![r] = q] /\ q.op = "create" /\ q.e = e
          /\ q.pc = IF runtime = "none" THEN "launch" ELSE "spawn"
    BY <1>1, CreateRowEffect
  <2>2. /\ row[e].status = "absent" /\ row'[e].status = "assigned"
        /\ \A x \in Executions : x # e => row'[x] = row[x]
    BY <1>1, CreateRowEffect DEF CreateRow
  <2>3. UNCHANGED <<runtime, proc, drv, reviewed>>
    BY <1>1 DEF CreateRow, lifeVars, deployment
  <2> QED
    BY <2>1, <2>2, <2>3 DEF WritesWereChecked, TypeOK
<1>2. ASSUME NEW r \in Requests, NEW e \in Executions, SpawnCheck(r, e)
      PROVE  WritesWereChecked'
  BY <1>2 DEF SpawnCheck, Creating, Advance, WritesWereChecked, TypeOK, lifeVars,
     deployment, lifeVars, deployment
<1>3. ASSUME NEW r \in Requests, NEW e \in Executions, Spawn(r, e)
      PROVE  WritesWereChecked'
  <2>1. PICK s \in Status, q \in ReqType :
          /\ req' = [req EXCEPT ![r] = q]
          /\ q.op = "create" /\ q.e = e /\ q.pc = "writeback"
          /\ q.seen = s /\ q.to = s /\ (s = row[e].status \/ s = "assigned")
    BY <1>3, SpawnEffect
  <2>2. \A x \in Executions : row'[x].status = row[x].status
    BY <1>3, SpawnEffect
  <2>3. /\ req[r].pc = "spawning" /\ req[r].op = "create" /\ req[r].e = e
        /\ proc' = [proc EXCEPT ![e] = "alive"]
        /\ UNCHANGED <<runtime, drv, reviewed>>
    BY <1>3 DEF Spawn, Creating, lifeVars, deployment
  <2> QED
    BY <2>1, <2>2, <2>3 DEF WritesWereChecked, TypeOK
<1>4. ASSUME NEW r \in Requests, NEW e \in Executions, SpawnFails(r, e)
      PROVE  WritesWereChecked'
  BY <1>4, IdleReqType DEF SpawnFails, Creating, Respond, WritesWereChecked, TypeOK,
     lifeVars, deployment, lifeVars, deployment
<1>5. ASSUME NEW r \in Requests, NEW e \in Executions, Writeback(r, e)
      PROVE  WritesWereChecked'
  BY <1>5, WritebackEffect DEF Writeback, Creating, Advance, WritesWereChecked, TypeOK,
     lifeVars, deployment, lifeVars, deployment
<1>6. ASSUME NEW r \in Requests, NEW e \in Executions, CreateWorkerRow(r, e)
      PROVE  WritesWereChecked'
  BY <1>6 DEF CreateWorkerRow, Creating, Advance, WritesWereChecked, TypeOK, lifeVars,
     deployment, lifeVars, deployment
<1>7. ASSUME NEW r \in Requests, NEW e \in Executions, CreateFails(r, e)
      PROVE  WritesWereChecked'
  BY <1>7, IdleReqType DEF CreateFails, Creating, Kill, Respond, WritesWereChecked,
     TypeOK, lifeVars, deployment, lifeVars, deployment
<1>8. ASSUME NEW r \in Requests, NEW e \in Executions, Launch(r, e)
      PROVE  WritesWereChecked'
  BY <1>8, IdleReqType DEF Launch, Creating, Respond, WritesWereChecked, TypeOK,
     lifeVars, deployment, lifeVars, deployment
<1>9. ASSUME NEW r \in Requests, Other(r) PROVE WritesWereChecked'
  <2>1. PICK q : RequestHolds(r, q)
    BY <1>9, RequestEffect
  <2> QED
    BY <1>9, <2>1, RequestEffect DEF RequestHolds, WritesWereChecked, TypeOK, lifeVars, deployment
<1>10. ASSUME NEW e \in Executions, DriverStep(e) PROVE WritesWereChecked'
  <2>1. PICK d : DriverHolds(e, d)
    BY <1>10, DriverEffect
  <2> QED
    BY <1>10, <2>1, DriverEffect DEF DriverHolds, WritesWereChecked, TypeOK, lifeVars, deployment
<1>11. CASE Quiet
  BY <1>11, QuietEffect DEF WritesWereChecked, TypeOK, lifeVars, deployment
<1> QED
  BY <1>1, <1>2, <1>3, <1>4, <1>5, <1>6, <1>7, <1>8, <1>9, <1>10, <1>11, Cases

\* Only review leads to completed.
LEMMA OnlyReviewCompletes ==
    ASSUME NEW from \in Status, isValidExecutionTransition(from, "completed")
    PROVE  from = "review"
  BY DEF isValidExecutionTransition, validExecutionTransitions, Status

\* Every step keeps completed rows, and decisions to complete one, behind a review.
LEMMA ReviewStep ==
    ASSUME TypeOK, Attached, Handover, WritesWereChecked,
           CompletionRestsOnReview, CompletedWasInReview, Next
    PROVE  CompletionRestsOnReview' /\ CompletedWasInReview'
<1>1. ASSUME NEW r \in Requests, NEW e \in Executions, CreateRow(r, e)
      PROVE  CompletionRestsOnReview' /\ CompletedWasInReview'
  <2>1. PICK q \in ReqType :
          /\ req' = [req EXCEPT ![r] = q] /\ q.op = "create" /\ q.e = e
          /\ q.pc = IF runtime = "none" THEN "launch" ELSE "spawn"
    BY <1>1, CreateRowEffect
  <2>2. /\ row[e].status = "absent" /\ row'[e].status = "assigned"
        /\ \A x \in Executions : x # e => row'[x] = row[x]
    BY <1>1, CreateRowEffect DEF CreateRow
  <2>3. UNCHANGED <<runtime, proc, drv, reviewed>>
    BY <1>1 DEF CreateRow, lifeVars, deployment
  <2> QED
    BY <2>1, <2>2, <2>3 DEF CompletionRestsOnReview, CompletedWasInReview, TypeOK
<1>2. ASSUME NEW r \in Requests, NEW e \in Executions, SpawnCheck(r, e)
      PROVE  CompletionRestsOnReview' /\ CompletedWasInReview'
  BY <1>2 DEF SpawnCheck, Creating, Advance, CompletionRestsOnReview,
     CompletedWasInReview, TypeOK, lifeVars, deployment
<1>3. ASSUME NEW r \in Requests, NEW e \in Executions, Spawn(r, e)
      PROVE  CompletionRestsOnReview' /\ CompletedWasInReview'
  <2>1. PICK s \in Status, q \in ReqType :
          /\ req' = [req EXCEPT ![r] = q]
          /\ q.op = "create" /\ q.e = e /\ q.pc = "writeback"
          /\ q.seen = s /\ q.to = s /\ (s = row[e].status \/ s = "assigned")
    BY <1>3, SpawnEffect
  <2>2. \A x \in Executions : row'[x].status = row[x].status
    BY <1>3, SpawnEffect
  <2>3. /\ req[r].pc = "spawning" /\ req[r].op = "create" /\ req[r].e = e
        /\ proc' = [proc EXCEPT ![e] = "alive"]
        /\ UNCHANGED <<runtime, drv, reviewed>>
    BY <1>3 DEF Spawn, Creating, lifeVars, deployment
  <2> QED
    BY <2>1, <2>2, <2>3 DEF CompletionRestsOnReview, CompletedWasInReview, TypeOK
<1>4. ASSUME NEW r \in Requests, NEW e \in Executions, SpawnFails(r, e)
      PROVE  CompletionRestsOnReview' /\ CompletedWasInReview'
  BY <1>4, IdleReqType DEF SpawnFails, Creating, Respond, CompletionRestsOnReview,
     CompletedWasInReview, TypeOK, lifeVars, deployment
<1>5. ASSUME NEW r \in Requests, NEW e \in Executions, Writeback(r, e)
      PROVE  CompletionRestsOnReview' /\ CompletedWasInReview'
  <2>1. PICK q \in ReqType : req' = [req EXCEPT ![r] = q] /\ q.pc = "worker"
    BY <1>5, WritebackEffect
  <2>2. req[r].to = "completed" => e \in reviewed
    BY <1>5 DEF Writeback, Creating, CompletionRestsOnReview
  <2> QED
    BY <1>5, <2>1, <2>2, WritebackEffect, StoreWrite
    DEF CompletionRestsOnReview, CompletedWasInReview, TypeOK
<1>6. ASSUME NEW r \in Requests, NEW e \in Executions, CreateWorkerRow(r, e)
      PROVE  CompletionRestsOnReview' /\ CompletedWasInReview'
  BY <1>6 DEF CreateWorkerRow, Creating, Advance, CompletionRestsOnReview,
     CompletedWasInReview, TypeOK, lifeVars, deployment
<1>7. ASSUME NEW r \in Requests, NEW e \in Executions, CreateFails(r, e)
      PROVE  CompletionRestsOnReview' /\ CompletedWasInReview'
  BY <1>7, IdleReqType DEF CreateFails, Creating, Kill, Respond,
     CompletionRestsOnReview, CompletedWasInReview, TypeOK, lifeVars, deployment
<1>8. ASSUME NEW r \in Requests, NEW e \in Executions, Launch(r, e)
      PROVE  CompletionRestsOnReview' /\ CompletedWasInReview'
  BY <1>8, IdleReqType DEF Launch, Creating, Respond, CompletionRestsOnReview,
     CompletedWasInReview, TypeOK, lifeVars, deployment
<1>9. ASSUME NEW r \in Requests, Other(r) PROVE CompletionRestsOnReview' /\ CompletedWasInReview'
  <2>1. PICK q : RequestHolds(r, q)
    BY <1>9, RequestEffect
  <2>2. /\ reviewed \subseteq reviewed'
        /\ \A x \in Executions :
             \/ row'[x].status = row[x].status
             \/ /\ req[r].pc = "write" /\ req[r].e = x /\ row'[x].status = req[r].to
                /\ req[r].to = "review" => x \in reviewed'
    BY <1>9, RequestEffect, StoreWrite
  <2>3. ASSUME q.pc = "write", q.to = "completed" PROVE q.e \in reviewed
    <3>1. row[q.e].status = "review"
      BY <2>1, <2>3, OnlyReviewCompletes DEF RequestHolds, TypeOK, RowType
    <3> QED
      BY <2>1, <2>3, <3>1 DEF RequestHolds, CompletionRestsOnReview
  <2> QED
    BY <1>9, <2>1, <2>2, <2>3
    DEF RequestHolds, CompletionRestsOnReview, CompletedWasInReview, TypeOK
<1>10. ASSUME NEW e \in Executions, DriverStep(e) PROVE CompletionRestsOnReview' /\ CompletedWasInReview'
  <2>1. {"review", "failed"} \subseteq Status
    BY DEF Status
  <2>2. /\ reviewed \subseteq reviewed'
        /\ \A x \in Executions :
             \/ row'[x].status = row[x].status
             \/ row'[x].status = "review" /\ x \in reviewed'
             \/ row'[x].status = "failed"
    BY <1>10, <2>1, DriverEffect, StoreWrite
  <2> QED
    BY <1>10, <2>2, DriverEffect DEF CompletionRestsOnReview, CompletedWasInReview
<1>11. CASE Quiet
  BY <1>11, QuietEffect DEF CompletionRestsOnReview, CompletedWasInReview, TypeOK
<1> QED
  BY <1>1, <1>2, <1>3, <1>4, <1>5, <1>6, <1>7, <1>8, <1>9, <1>10, <1>11, Cases

\* Every step leaves a completion time in the terminal rows.
LEMMA TerminalStep ==
    ASSUME TypeOK, Attached, Handover, TerminalHasCompletedAt, Next
    PROVE  TerminalHasCompletedAt'
<1>1. ASSUME NEW r \in Requests, NEW e \in Executions, CreateRow(r, e)
      PROVE  TerminalHasCompletedAt'
  BY <1>1, CreateRowEffect DEF TerminalHasCompletedAt, Terminal
<1>2. ASSUME NEW r \in Requests, NEW e \in Executions, SpawnCheck(r, e)
      PROVE  TerminalHasCompletedAt'
  BY <1>2 DEF SpawnCheck, Creating, Advance, TerminalHasCompletedAt, TypeOK, Terminal,
     lifeVars, deployment
<1>3. ASSUME NEW r \in Requests, NEW e \in Executions, Spawn(r, e)
      PROVE  TerminalHasCompletedAt'
  BY <1>3, SpawnEffect DEF TerminalHasCompletedAt
<1>4. ASSUME NEW r \in Requests, NEW e \in Executions, SpawnFails(r, e)
      PROVE  TerminalHasCompletedAt'
  BY <1>4, IdleReqType DEF SpawnFails, Creating, Respond, TerminalHasCompletedAt,
     TypeOK, Terminal, lifeVars, deployment
<1>5. ASSUME NEW r \in Requests, NEW e \in Executions, Writeback(r, e)
      PROVE  TerminalHasCompletedAt'
  BY <1>5, WritebackEffect, StoreWrite DEF TerminalHasCompletedAt
<1>6. ASSUME NEW r \in Requests, NEW e \in Executions, CreateWorkerRow(r, e)
      PROVE  TerminalHasCompletedAt'
  BY <1>6 DEF CreateWorkerRow, Creating, Advance, TerminalHasCompletedAt, TypeOK,
     Terminal, lifeVars, deployment
<1>7. ASSUME NEW r \in Requests, NEW e \in Executions, CreateFails(r, e)
      PROVE  TerminalHasCompletedAt'
  BY <1>7, IdleReqType DEF CreateFails, Creating, Kill, Respond, TerminalHasCompletedAt,
     TypeOK, Terminal, lifeVars, deployment
<1>8. ASSUME NEW r \in Requests, NEW e \in Executions, Launch(r, e)
      PROVE  TerminalHasCompletedAt'
  BY <1>8, IdleReqType DEF Launch, Creating, Respond, TerminalHasCompletedAt, TypeOK,
     Terminal, lifeVars, deployment
<1>9. ASSUME NEW r \in Requests, Other(r) PROVE TerminalHasCompletedAt'
  BY <1>9, RequestEffect, StoreWrite DEF TerminalHasCompletedAt
<1>10. ASSUME NEW e \in Executions, DriverStep(e) PROVE TerminalHasCompletedAt'
  <2>1. {"review", "failed"} \subseteq Status
    BY DEF Status
  <2> QED
    BY <1>10, <2>1, DriverEffect, StoreWrite DEF TerminalHasCompletedAt
<1>11. CASE Quiet
  BY <1>11, QuietEffect DEF TerminalHasCompletedAt, TypeOK, Terminal
<1> QED
  BY <1>1, <1>2, <1>3, <1>4, <1>5, <1>6, <1>7, <1>8, <1>9, <1>10, <1>11, Cases

\* Every step keeps one creator per execution, and no driver before it is done.
LEMMA HandoverStep ==
    ASSUME TypeOK, Attached, Handover, Next
    PROVE  Handover'
<1>1. ASSUME NEW r \in Requests, NEW e \in Executions, CreateRow(r, e)
      PROVE  Handover'
  <2>1. PICK q \in ReqType :
          /\ req' = [req EXCEPT ![r] = q] /\ q.op = "create" /\ q.e = e
          /\ q.pc = IF runtime = "none" THEN "launch" ELSE "spawn"
    BY <1>1, CreateRowEffect
  <2>2. /\ row[e].status = "absent" /\ row'[e].status = "assigned"
        /\ \A x \in Executions : x # e => row'[x] = row[x]
    BY <1>1, CreateRowEffect DEF CreateRow
  <2>3. UNCHANGED <<runtime, proc, drv, reviewed>>
    BY <1>1 DEF CreateRow, lifeVars, deployment
  <2> QED
    BY <2>1, <2>2, <2>3 DEF Handover, Attached, TypeOK
<1>2. ASSUME NEW r \in Requests, NEW e \in Executions, SpawnCheck(r, e)
      PROVE  Handover'
  BY <1>2 DEF SpawnCheck, Creating, Advance, Handover, Attached, TypeOK, lifeVars,
     deployment
<1>3. ASSUME NEW r \in Requests, NEW e \in Executions, Spawn(r, e)
      PROVE  Handover'
  <2>1. PICK s \in Status, q \in ReqType :
          /\ req' = [req EXCEPT ![r] = q]
          /\ q.op = "create" /\ q.e = e /\ q.pc = "writeback"
          /\ q.seen = s /\ q.to = s /\ (s = row[e].status \/ s = "assigned")
    BY <1>3, SpawnEffect
  <2>2. \A x \in Executions : row'[x].status = row[x].status
    BY <1>3, SpawnEffect
  <2>3. /\ req[r].pc = "spawning" /\ req[r].op = "create" /\ req[r].e = e
        /\ proc' = [proc EXCEPT ![e] = "alive"]
        /\ UNCHANGED <<runtime, drv, reviewed>>
    BY <1>3 DEF Spawn, Creating, lifeVars, deployment
  <2>4. drv[e].pc = "none" /\ runtime # "none" /\ row[e].status # "absent"
    BY <2>3 DEF Handover, Attached
  <2>5. \A p \in Requests : /\ req'[p].op = req[p].op
                            /\ req'[p].op = "create" => req'[p].e = req[p].e
                            /\ p # r => req'[p] = req[p]
    BY <2>1, <2>3 DEF TypeOK
  <2>6. \A x \in Executions : proc'[x] = IF x = e THEN "alive" ELSE proc[x]
    BY <2>3 DEF TypeOK
  <2>7. /\ \A p, q2 \in Requests :
              req'[p].op = "create" /\ req'[q2].op = "create" /\ req'[p].e = req'[q2].e
                 => p = q2
        /\ \A p \in Requests : req'[p].op = "create" => drv'[req'[p].e].pc = "none"
    BY <2>3, <2>5 DEF Handover
  <2>8. ASSUME NEW p \in Requests, req'[p].pc \in {"spawn", "spawning"}
        PROVE  proc'[req'[p].e] = "none" /\ runtime' # "none"
    <3>1. req'[r].pc = "writeback"
      BY <2>1 DEF TypeOK
    <3>2. p # r /\ req'[p] = req[p]
      BY <2>5, <2>8, <3>1
    <3>3. req[p].op = "create" /\ req[p].e \in Executions /\ req[p].e # e
      BY <2>3, <2>8, <3>2 DEF Attached, Handover
    <3> QED
      BY <2>3, <2>6, <2>8, <3>2, <3>3 DEF Handover
  <2>9. \A x \in Executions :
          /\ row'[x].status = "absent" => proc'[x] = "none"
          /\ drv'[x].pc \in {"worker", "read", "write"} /\ ~drv'[x].gaveUp
                => proc'[x] # "alive"
          /\ runtime' = "none" => proc'[x] = "none"
          /\ drv'[x].pc = "sleep" => runtime' = "none"
    BY <2>2, <2>3, <2>4, <2>6 DEF Handover
  <2> QED
    BY <2>7, <2>8, <2>9 DEF Handover
<1>4. ASSUME NEW r \in Requests, NEW e \in Executions, SpawnFails(r, e)
      PROVE  Handover'
  BY <1>4, IdleReqType DEF SpawnFails, Creating, Respond, Handover, Attached, TypeOK,
     lifeVars, deployment
<1>5. ASSUME NEW r \in Requests, NEW e \in Executions, Writeback(r, e)
      PROVE  Handover'
  <2>1. PICK q \in ReqType : /\ req' = [req EXCEPT ![r] = q]
                             /\ q.op = "create" /\ q.e = e /\ q.pc = "worker"
    BY <1>5, WritebackEffect
  <2>2. \A x \in Executions : row'[x].status = "absent" => row[x].status = "absent"
    BY <1>5, WritebackEffect, StoreWrite DEF Status
  <2>3. UNCHANGED <<proc, drv, runtime>> /\ req[r].op = "create" /\ req[r].e = e
    BY <1>5 DEF Writeback, Creating, lifeVars, deployment
  <2> QED
    BY <2>1, <2>2, <2>3 DEF Handover, TypeOK
<1>6. ASSUME NEW r \in Requests, NEW e \in Executions, CreateWorkerRow(r, e)
      PROVE  Handover'
  BY <1>6 DEF CreateWorkerRow, Creating, Advance, Handover, Attached, TypeOK, lifeVars,
     deployment
<1>7. ASSUME NEW r \in Requests, NEW e \in Executions, CreateFails(r, e)
      PROVE  Handover'
  BY <1>7, IdleReqType DEF CreateFails, Creating, Kill, Respond, Handover, Attached,
     TypeOK, lifeVars, deployment
<1>8. ASSUME NEW r \in Requests, NEW e \in Executions, Launch(r, e)
      PROVE  Handover'
  BY <1>8, IdleReqType DEF Launch, Creating, Respond, Handover, Attached, TypeOK,
     lifeVars, deployment
<1>9. ASSUME NEW r \in Requests, Other(r) PROVE Handover'
  <2>1. PICK q : RequestHolds(r, q)
    BY <1>9, RequestEffect
  <2>2. \A x \in Executions : row'[x].status = "absent" => row[x].status = "absent"
    BY <1>9, RequestEffect, StoreWrite DEF Attached, Status
  <2> QED
    BY <1>9, <2>1, <2>2, RequestEffect DEF RequestHolds, Handover, Attached, TypeOK, lifeVars, deployment
<1>10. ASSUME NEW e \in Executions, DriverStep(e) PROVE Handover'
  <2>1. PICK d : DriverHolds(e, d)
    BY <1>10, DriverEffect
  <2>2. \A x \in Executions : row'[x].status = "absent" => row[x].status = "absent"
    BY <1>10, DriverEffect, StoreWrite DEF Attached, Status
  <2>3. UNCHANGED <<req, proc, runtime>> /\ drv[e].pc # "none"
    BY <1>10, DriverEffect DEF lifeVars, deployment
  <2> QED
    BY <2>1, <2>2, <2>3 DEF DriverHolds, Handover, TypeOK
<1>11. CASE Quiet
  BY <1>11, QuietEffect DEF Handover, Attached, TypeOK
<1> QED
  BY <1>1, <1>2, <1>3, <1>4, <1>5, <1>6, <1>7, <1>8, <1>9, <1>10, <1>11, Cases

\* Every step keeps a request or a driver responsible for each live worker.
LEMMA SupervisedStep ==
    ASSUME TypeOK, Attached, Handover, NoUnsupervisedWorker, Next
    PROVE  NoUnsupervisedWorker'
<1>1. ASSUME NEW r \in Requests, NEW e \in Executions, CreateRow(r, e)
      PROVE  NoUnsupervisedWorker'
  <2>1. PICK q \in ReqType :
          /\ req' = [req EXCEPT ![r] = q] /\ q.op = "create" /\ q.e = e
          /\ q.pc = IF runtime = "none" THEN "launch" ELSE "spawn"
    BY <1>1, CreateRowEffect
  <2>2. UNCHANGED <<proc, drv>>
    BY <1>1 DEF CreateRow
  <2>3. req[r].op # "create"
    BY <1>1 DEF CreateRow, Attached
  <2> QED
    BY <2>1, <2>2, <2>3 DEF NoUnsupervisedWorker, DriverLive, Creating, TypeOK
<1>2. ASSUME NEW r \in Requests, NEW e \in Executions, SpawnCheck(r, e)
      PROVE  NoUnsupervisedWorker'
  BY <1>2 DEF SpawnCheck, Creating, Advance, NoUnsupervisedWorker, DriverLive, Handover,
     TypeOK, lifeVars, deployment
<1>3. ASSUME NEW r \in Requests, NEW e \in Executions, Spawn(r, e)
      PROVE  NoUnsupervisedWorker'
  <2>1. PICK s \in Status, q \in ReqType :
          /\ req' = [req EXCEPT ![r] = q]
          /\ q.op = "create" /\ q.e = e /\ q.pc = "writeback"
          /\ q.seen = s /\ q.to = s /\ (s = row[e].status \/ s = "assigned")
    BY <1>3, SpawnEffect
  <2>2. \A x \in Executions : row'[x].status = row[x].status
    BY <1>3, SpawnEffect
  <2>3. /\ req[r].pc = "spawning" /\ req[r].op = "create" /\ req[r].e = e
        /\ proc' = [proc EXCEPT ![e] = "alive"]
        /\ UNCHANGED <<runtime, drv, reviewed>>
    BY <1>3 DEF Spawn, Creating, lifeVars, deployment
  <2> QED
    BY <2>1, <2>2, <2>3 DEF NoUnsupervisedWorker, DriverLive, Creating, Handover, TypeOK
<1>4. ASSUME NEW r \in Requests, NEW e \in Executions, SpawnFails(r, e)
      PROVE  NoUnsupervisedWorker'
  BY <1>4, IdleReqType DEF SpawnFails, Creating, Respond, NoUnsupervisedWorker,
     DriverLive, Handover, TypeOK, lifeVars, deployment
<1>5. ASSUME NEW r \in Requests, NEW e \in Executions, Writeback(r, e)
      PROVE  NoUnsupervisedWorker'
  <2>1. PICK q \in ReqType : /\ req' = [req EXCEPT ![r] = q]
                             /\ q.op = "create" /\ q.e = e /\ q.pc = "worker"
    BY <1>5, WritebackEffect
  <2>2. UNCHANGED <<proc, drv>> /\ req[r].op = "create" /\ req[r].e = e
    BY <1>5 DEF Writeback, Creating
  <2> QED
    BY <2>1, <2>2 DEF NoUnsupervisedWorker, DriverLive, Creating, TypeOK
<1>6. ASSUME NEW r \in Requests, NEW e \in Executions, CreateWorkerRow(r, e)
      PROVE  NoUnsupervisedWorker'
  BY <1>6 DEF CreateWorkerRow, Creating, Advance, NoUnsupervisedWorker, DriverLive,
     Handover, TypeOK, lifeVars, deployment
<1>7. ASSUME NEW r \in Requests, NEW e \in Executions, CreateFails(r, e)
      PROVE  NoUnsupervisedWorker'
  BY <1>7, IdleReqType DEF CreateFails, Creating, Kill, Respond, NoUnsupervisedWorker,
     DriverLive, Handover, TypeOK, lifeVars, deployment
<1>8. ASSUME NEW r \in Requests, NEW e \in Executions, Launch(r, e)
      PROVE  NoUnsupervisedWorker'
  BY <1>8, IdleReqType DEF Launch, Creating, Respond, NoUnsupervisedWorker, DriverLive,
     Handover, TypeOK, lifeVars, deployment
<1>9. ASSUME NEW r \in Requests, Other(r) PROVE NoUnsupervisedWorker'
  <2>1. PICK q : RequestHolds(r, q)
    BY <1>9, RequestEffect
  <2>2. UNCHANGED <<proc, drv>> /\ req[r].op # "create"
    BY <1>9, RequestEffect DEF Attached
  <2> QED
    BY <2>1, <2>2 DEF RequestHolds, NoUnsupervisedWorker, DriverLive, Creating, TypeOK
<1>10. ASSUME NEW e \in Executions, DriverStep(e) PROVE NoUnsupervisedWorker'
  <2>1. PICK d : DriverHolds(e, d)
    BY <1>10, DriverEffect
  <2>2. UNCHANGED <<req, proc>>
    BY <1>10, DriverEffect
  <2> QED
    BY <2>1, <2>2 DEF DriverHolds, NoUnsupervisedWorker, DriverLive, Creating, TypeOK
<1>11. CASE Quiet
  BY <1>11, QuietEffect DEF NoUnsupervisedWorker, DriverLive, Creating, Handover, TypeOK
<1> QED
  BY <1>1, <1>2, <1>3, <1>4, <1>5, <1>6, <1>7, <1>8, <1>9, <1>10, <1>11, Cases

\* Every step keeps the order of the shutdown sequence.
LEMMA ShutdownStepOrder ==
    ASSUME TypeOK, Attached, Handover, ShutdownOrder, Next
    PROVE  ShutdownOrder'
<1> USE DEF ShutdownOrder, lifeVars, deployment
<1>1. ASSUME NEW r \in Requests, NEW e \in Executions, CreateRow(r, e)
      PROVE  ShutdownOrder'
  BY <1>1 DEF CreateRow, DriverLive
<1>2. ASSUME NEW r \in Requests, NEW e \in Executions, Spawn(r, e)
      PROVE  ShutdownOrder'
  <2>1. req[r].pc # "idle"
    BY <1>2 DEF Spawn, Creating
  <2>2. UNCHANGED <<drv, server, stop, rtClosed, shutdown>>
    BY <1>2 DEF Spawn
  <2> QED
    BY <2>1, <2>2
<1>3. ASSUME NEW r \in Requests, NEW e \in Executions,
             \/ SpawnCheck(r, e) \/ SpawnFails(r, e) \/ Writeback(r, e)
             \/ CreateWorkerRow(r, e) \/ CreateFails(r, e) \/ Launch(r, e)
      PROVE  ShutdownOrder'
  <2>1. req[r].pc # "idle"
    BY <1>3 DEF SpawnCheck, SpawnFails, Writeback, CreateWorkerRow, CreateFails, Launch, Creating
  <2>2. /\ UNCHANGED <<server, stop, rtClosed, shutdown>>
        /\ \A x \in Executions : proc[x] # "alive" => proc'[x] # "alive"
    BY <1>3 DEF SpawnCheck, SpawnFails, Writeback, CreateWorkerRow, CreateFails, Launch, Kill
  <2> QED
    BY <2>1, <2>2
<1>4. ASSUME NEW r \in Requests, Other(r) PROVE ShutdownOrder'
  <2>1. UNCHANGED <<proc, drv, server, stop, rtClosed, shutdown>>
    BY <1>4, RequestEffect
  <2>2. server = "drained" => req[r].pc # "idle"
    BY <1>4 DEF Other, Patch, Review, Cancel, Begin, UpdateCheck, RequestWrite,
                RequestWriteFails
  <2> QED
    BY <2>1, <2>2 DEF DriverLive
<1>5. ASSUME NEW e \in Executions, DriverStep(e) PROVE ShutdownOrder'
  <2>1. PICK d : DriverHolds(e, d)
    BY <1>5, DriverEffect
  <2>2. DriverLive(e) /\ UNCHANGED <<proc, req, server, stop, rtClosed, shutdown>>
    BY <1>5, DriverEffect DEF DriverLive
  <2>3. \A x \in Executions : ~DriverLive(x) => ~DriverLive(x)'
    BY <2>1, <2>2 DEF DriverHolds, DriverLive, TypeOK
  <2> QED
    BY <2>2, <2>3
<1>6. CASE Quiet
  <2>1. UNCHANGED <<drv, req>>
    BY <1>6, QuietEffect
  <2>2. /\ stop' => server' \in {"drained", "overrun"}
        /\ rtClosed' => stop'
        /\ shutdown' # "no" => rtClosed'
    <3>1. \/ UNCHANGED <<server, stop, rtClosed, shutdown>>
          \/ Signal \/ HttpShutdown \/ ShutdownStop \/ RuntimeClose \/ ShutdownReturn
      BY <1>6 DEF Quiet, ClientGone, WorkerEnds, ContextKill, ShutdownStep
    <3> QED
      BY <3>1 DEF Signal, HttpShutdown, ShutdownStop, RuntimeClose, ShutdownReturn, TypeOK
  <2>3. server' = "drained" /\ rtClosed' => \A e \in Executions : proc'[e] # "alive"
    BY <1>6, QuietEffect DEF Quiet, ClientGone, WorkerEnds, ContextKill, Signal,
            ShutdownStep, HttpShutdown, ShutdownStop, RuntimeClose, ShutdownReturn, Kill
  <2>4. server' = "drained" => \A r \in Requests : req[r].pc = "idle"
    BY <1>6 DEF Quiet, ClientGone, WorkerEnds, ContextKill, Signal, ShutdownStep,
                HttpShutdown, ShutdownStop, RuntimeClose, ShutdownReturn
  <2>5. server' = "drained" /\ shutdown' = "nil" => \A e \in Executions : ~DriverLive(e)
    BY <1>6 DEF Quiet, ClientGone, WorkerEnds, ContextKill, Signal, ShutdownStep,
                HttpShutdown, ShutdownStop, RuntimeClose, ShutdownReturn
  <2> QED
    BY <2>1, <2>2, <2>3, <2>4, <2>5 DEF DriverLive
<1> QED
  BY <1>1, <1>2, <1>3, <1>4, <1>5, <1>6, Cases

(***************************************************************************)
(* The theorems.                                                           *)
(***************************************************************************)

\* The initial states satisfy the inductive invariant.
LEMMA IInvInit == Init => IInv
<1> SUFFICES ASSUME Init PROVE IInv
  OBVIOUS
<1>1. NoDrv \in DrvType /\ NoDrv.pc = "none" /\ NoDrv.gaveUp = FALSE
  BY DEF NoDrv, DrvType, DrvPC
<1>2. NoRow \in RowType /\ NoRow.status = "absent"
  BY DEF NoRow, RowType
<1>3. TypeOK
  BY <1>1, <1>2, IdleReqType DEF Init, TypeOK
<1>4. Attached /\ WritesWereChecked /\ CompletionRestsOnReview /\ Handover
  BY <1>1, <1>2, IdleReqType
  DEF Init, Attached, WritesWereChecked, CompletionRestsOnReview, Handover
<1>5. CompletedWasInReview /\ TerminalHasCompletedAt /\ NoUnsupervisedWorker /\ ShutdownOrder
  BY <1>1, <1>2, IdleReqType
  DEF Init, CompletedWasInReview, TerminalHasCompletedAt, NoUnsupervisedWorker,
      ShutdownOrder, Terminal
<1> QED
  BY <1>3, <1>4, <1>5 DEF IInv

\* Every step preserves the inductive invariant.
LEMMA IInvStep == IInv /\ [Next]_vars => IInv'
<1> SUFFICES ASSUME IInv, [Next]_vars PROVE IInv'
  OBVIOUS
<1>1. CASE Next
  BY <1>1, TypeStep, AttachedStep, ChecksStep, ReviewStep, TerminalStep, HandoverStep,
     SupervisedStep, ShutdownStepOrder DEF IInv
<1>2. CASE UNCHANGED vars
  <2> USE <1>2 DEF IInv, vars
  <2>1. TypeOK'
    BY DEF TypeOK
  <2>2. Attached' /\ WritesWereChecked'
    BY DEF Attached, WritesWereChecked
  <2>3. CompletionRestsOnReview' /\ Handover'
    BY DEF CompletionRestsOnReview, Handover
  <2>4. CompletedWasInReview' /\ TerminalHasCompletedAt'
    BY DEF CompletedWasInReview, TerminalHasCompletedAt
  <2>5. NoUnsupervisedWorker' /\ ShutdownOrder'
    BY DEF NoUnsupervisedWorker, ShutdownOrder, DriverLive, Creating
  <2> QED
    BY <2>1, <2>2, <2>3, <2>4, <2>5
<1> QED
  BY <1>1, <1>2

\* The inductive invariant holds in every reachable state.
THEOREM Invariance == Spec => []IInv
  BY IInvInit, IInvStep, PTL DEF Spec

\* The state of the engine keeps the shape the Go types give it.
THEOREM TypeCorrect == Spec => []TypeOK
<1>1. IInv => TypeOK
  BY DEF IInv
<1> QED
  BY <1>1, Invariance, PTL

\* No execution is completed that was never in review, whatever requests
\* and drivers race on its row.
THEOREM CompletedAfterReview == Spec => []CompletedWasInReview
<1>1. IInv => CompletedWasInReview
  BY DEF IInv
<1> QED
  BY <1>1, Invariance, PTL

\* Every terminal row carries its completion time.
THEOREM CompletionTime == Spec => []TerminalHasCompletedAt
<1>1. IInv => TerminalHasCompletedAt
  BY DEF IInv
<1> QED
  BY <1>1, Invariance, PTL

\* A live worker always has a request or a driver that answers for it,
\* unless its driver's Wait failed.
THEOREM WorkersSupervised == Spec => []NoUnsupervisedWorker
<1>1. IInv => NoUnsupervisedWorker
  BY DEF IInv
<1> QED
  BY <1>1, Invariance, PTL

\* After a shutdown in which the HTTP server drained and Shutdown returned
\* nil, nothing is left that could touch a row.
THEOREM ShutdownIsOrderly == Spec => []OrderlyShutdown
<1>1. IInv => OrderlyShutdown
  BY DEF IInv, ShutdownOrder, OrderlyShutdown
<1> QED
  BY <1>1, Invariance, PTL

\* With a runtime, a change of status outside the transition table is always
\* the work of a writer whose read was stale.
THEOREM TableBrokenOnlyByStaleWrites == Spec => OnlyStaleWritesBreakTable
<1> DEFINE Follows ==
      runtime # "none" =>
         \A e \in Executions :
            row[e].status \notin {"absent", row'[e].status} =>
               \/ isValidExecutionTransition(row[e].status, row'[e].status)
               \/ StaleWrite(e)
<1>1. ASSUME IInv, Next PROVE Follows
  <2> USE <1>1 DEF IInv
  <2>1. ASSUME NEW r \in Requests, NEW e \in Executions, CreateRow(r, e) PROVE Follows
    BY <2>1, CreateRowEffect DEF CreateRow
  <2>2. ASSUME NEW r \in Requests, NEW e \in Executions, Spawn(r, e) PROVE Follows
    BY <2>2, SpawnEffect
  <2>3. ASSUME NEW r \in Requests, NEW e \in Executions, Writeback(r, e) PROVE Follows
    <3>1. req[r].pc = "writeback" /\ req[r].e = e /\ req[r].to = req[r].seen
      BY <2>3 DEF Writeback, Creating, WritesWereChecked
    <3>2. req'[r].pc = "worker"
      BY <2>3 DEF Writeback, Advance, TypeOK
    <3> QED
      BY <2>3, <3>1, <3>2, WritebackEffect, StoreWrite DEF StaleWrite
  <2>4. ASSUME NEW r \in Requests, NEW e \in Executions,
               \/ SpawnCheck(r, e) \/ SpawnFails(r, e) \/ CreateWorkerRow(r, e)
               \/ CreateFails(r, e) \/ Launch(r, e)
        PROVE  Follows
    BY <2>4 DEF SpawnCheck, SpawnFails, CreateWorkerRow, CreateFails, Launch
  <2>5. ASSUME NEW r \in Requests, Other(r) PROVE Follows
    <3>1. req[r].pc = "write" => isValidExecutionTransition(req[r].seen, req[r].to)
      BY DEF WritesWereChecked
    <3>2. UNCHANGED row \/ req'[r].pc = "idle"
      BY <2>5, IdleReqType
      DEF Other, Patch, Review, Cancel, Begin, UpdateCheck, RequestWrite, RequestWriteFails, TypeOK
    <3> QED
      BY <2>5, <3>1, <3>2, RequestEffect, StoreWrite DEF StaleWrite
  <2>6. ASSUME NEW e \in Executions, DriverStep(e) PROVE Follows
    <3>1. drv[e].pc = "write" /\ runtime # "none" =>
             isValidExecutionTransition(drv[e].seen, drv[e].to)
      BY DEF WritesWereChecked
    <3>2. {"review", "failed"} \subseteq Status
      BY DEF Status
    <3>3. drv'[e].pc # "write" \/ UNCHANGED row
      <4>1. CASE DriverWrite(e)
        <5>1. drv[e].gaveUp \in BOOLEAN
          BY DEF TypeOK, DrvType
        <5>2. [NoDrv EXCEPT !.pc = "done", !.gaveUp = drv[e].gaveUp].pc = "done"
          BY <5>1, DoneDrv
        <5> QED
          BY <4>1, <5>2 DEF DriverWrite, DriverDone, TypeOK
      <4>2. CASE ~DriverWrite(e)
        BY <2>6, <4>2
        DEF DriverStep, DriverStart, DriverResult, DriverWaitError, DriverWorkerRow, DriverRead,
            DriverWriteFails, MockWakes, MockStops
      <4> QED
        BY <4>1, <4>2
    <3> QED
      BY <2>6, <3>1, <3>2, <3>3, DriverEffect, StoreWrite DEF StaleWrite
  <2>7. CASE Quiet
    BY <2>7, QuietEffect
  <2> HIDE DEF Follows
  <2> QED
    BY <2>1, <2>2, <2>3, <2>4, <2>5, <2>6, <2>7, Cases
<1>2. IInv /\ [Next]_vars => [Follows]_vars
  BY <1>1
<1> QED
  BY <1>2, Invariance, PTL DEF Spec, OnlyStaleWritesBreakTable


\* A step of a driver is one step nearer to its end.
LEMMA DriverForward ==
    ASSUME TypeOK, NEW e \in Executions, DriverStep(e)
    PROVE  /\ DriverLeft[drv'[e].pc] < DriverLeft[drv[e].pc]
           /\ \A f \in Executions \ {e} : drv'[f] = drv[f]
<1>1. drv[e] \in DrvType /\ drv \in [Executions -> DrvType]
  BY DEF TypeOK
<1>2. DriverDone(e) => drv'[e].pc = "done" /\ \A f \in Executions \ {e} : drv'[f] = drv[f]
  BY <1>1 DEF DriverDone, NoDrv
<1>3. /\ DriverLeft["sleep"] = 2 /\ DriverLeft["start"] = 5 /\ DriverLeft["wait"] = 4
      /\ DriverLeft["worker"] = 3 /\ DriverLeft["read"] = 2 /\ DriverLeft["write"] = 1
      /\ DriverLeft["done"] = 0
  BY DEF DriverLeft
<1>4. CASE DriverStart(e)
  BY <1>1, <1>3, <1>4 DEF DriverStart, Drive, DrvType
<1>5. CASE DriverResult(e)
  BY <1>1, <1>3, <1>5 DEF DriverResult, DrvType
<1>6. CASE DriverWaitError(e)
  BY <1>1, <1>3, <1>6 DEF DriverWaitError, DrvType
<1>7. CASE DriverWorkerRow(e)
  BY <1>1, <1>3, <1>7 DEF DriverWorkerRow, Drive, DrvType
<1>8. CASE DriverRead(e)
  BY <1>1, <1>2, <1>3, <1>8 DEF DriverRead, DrvType
<1>9. CASE DriverWrite(e) \/ DriverWriteFails(e)
  BY <1>2, <1>3, <1>9 DEF DriverWrite, DriverWriteFails
<1>10. CASE MockWakes(e)
  BY <1>1, <1>3, <1>10 DEF MockWakes, DrvType
<1>11. CASE MockStops(e)
  BY <1>2, <1>3, <1>11 DEF MockStops
<1> QED
  BY <1>4, <1>5, <1>6, <1>7, <1>8, <1>9, <1>10, <1>11 DEF DriverStep

\* driveWorker runs once for an execution and goes through its program once,
\* whatever requests come: the safety half of "every driver ends".
THEOREM DrivenOnlyOnce == Spec => DrivenOnce
<1> DEFINE Once == \A e \in Executions :
                      drv'[e] = drv[e] \/ DriverLeft[drv'[e].pc] < DriverLeft[drv[e].pc]
<1>1. ASSUME IInv, Next PROVE Once
  <2> USE <1>1 DEF IInv
  <2>1. ASSUME NEW r \in Requests, NEW e \in Executions, Launch(r, e) PROVE Once
    <3>1. drv[e].pc = "none"
      BY <2>1 DEF Launch, Creating, Handover
    <3>2. PICK pc \in {"sleep", "start"} : drv' = [drv EXCEPT ![e].pc = pc]
      BY <2>1 DEF Launch
    <3>3. drv'[e].pc = pc /\ \A f \in Executions \ {e} : drv'[f] = drv[f]
      BY <3>2 DEF TypeOK, DrvType
    <3>4. DriverLeft["none"] = 6 /\ DriverLeft[pc] < 6
      BY DEF DriverLeft
    <3> QED
      BY <3>1, <3>3, <3>4
  <2>2. ASSUME NEW e \in Executions, DriverStep(e) PROVE Once
    BY <2>2, DriverForward
  <2>3. ASSUME NEW r \in Requests, NEW e \in Executions,
               \/ CreateRow(r, e) \/ SpawnCheck(r, e) \/ Spawn(r, e) \/ SpawnFails(r, e)
               \/ Writeback(r, e) \/ CreateWorkerRow(r, e) \/ CreateFails(r, e)
        PROVE  Once
    BY <2>3 DEF CreateRow, SpawnCheck, Spawn, SpawnFails, Writeback, CreateWorkerRow, CreateFails
  <2>4. ASSUME NEW r \in Requests, Other(r) PROVE Once
    BY <2>4, RequestEffect
  <2>5. CASE Quiet
    BY <2>5, QuietEffect
  <2> HIDE DEF Once
  <2> QED
    BY <2>1, <2>2, <2>3, <2>4, <2>5, Cases
<1>2. IInv /\ [Next]_vars => [Once]_vars
  BY <1>1
<1> QED
  BY <1>2, Invariance, PTL DEF Spec, DrivenOnce
=============================================================================
