----------------------------- MODULE Execution -----------------------------
(***************************************************************************)
(* The execution engine (internal/service/execution.go): HTTP requests     *)
(* that create, patch, review and cancel executions, the goroutine that    *)
(* drives each execution's worker through the Aion runtime, the legacy     *)
(* mock goroutine, and the shutdown sequence of cmd/main.go, all sharing   *)
(* the rows of the execution store.                                        *)
(*                                                                         *)
(* The store validates nothing and a status change is a read, a check and  *)
(* a later unconditional write, so every such pair is two steps here.      *)
(***************************************************************************)
EXTENDS Naturals, FiniteSets

CONSTANTS
    Executions,     \* execution ids
    Requests,       \* HTTP requests that can be in progress at once
    PatchMessages   \* whether the PATCHes considered carry an error_message

ASSUME ExecutionAssumption ==
    PatchMessages \subseteq BOOLEAN

Status == {"queued", "assigned", "running", "review", "completed", "failed"}
Terminal == {"completed", "failed"}

validExecutionTransitions ==
    [queued    |-> {"assigned", "failed"},
     assigned  |-> {"running", "failed", "queued"},
     running   |-> {"review", "failed"},
     review    |-> {"completed", "failed"},
     completed |-> {},
     failed    |-> {}]

\* Mistake: the direct edge into completed is back.
isValidExecutionTransitionDirect(from, to) ==
    to \in validExecutionTransitions[from] \/ (from = "running" /\ to = "completed")

\* A change that UpdateExecutionStatus lets through to the store; a PATCH to
\* the current status returns before it.
isValidExecutionTransition(from, to) == to \in validExecutionTransitions[from]

VARIABLES
    runtime,    \* "process" (production), "mock", or "none" (legacy path)
    liveRows,   \* TRUE: memory store, Create and GetByID share the row with
                \* their caller; FALSE: postgres store, callers hold copies
    row,        \* the execution rows
    worker,     \* the worker row of each execution
    proc,       \* the runtime's worker behind each execution
    ctxDone,    \* executions whose creating request's context is done
    drv,        \* the goroutine that drives each execution
    req,        \* the HTTP requests in progress
    server,     \* the HTTP server in the shutdown sequence
    stop,       \* the service's stop context is cancelled
    rtClosed,   \* runtime.Close has run
    shutdown,   \* what ExecutionService.Shutdown returned
    reviewed    \* history: executions that have been in review

vars == <<runtime, liveRows, row, worker, proc, ctxDone, drv, req, server, stop, rtClosed,
          shutdown, reviewed>>

NoRow == [status |-> "absent", completedAt |-> FALSE, errMsg |-> FALSE,
          instance |-> FALSE]
IdleReq == [pc |-> "idle", op |-> "none", e |-> "none", to |-> "none",
            msg |-> FALSE, seen |-> "none"]
NoDrv == [pc |-> "none", to |-> "none", msg |-> FALSE, seen |-> "none",
          gaveUp |-> FALSE]

Init ==
    /\ runtime \in {"process", "mock", "none"}
    /\ liveRows \in BOOLEAN
    /\ row = [e \in Executions |-> NoRow]
    /\ worker = [e \in Executions |-> "absent"]
    /\ proc = [e \in Executions |-> "none"]
    /\ ctxDone = {}
    /\ drv = [e \in Executions |-> NoDrv]
    /\ req = [r \in Requests |-> IdleReq]
    /\ server = "up"
    /\ stop = FALSE
    /\ rtClosed = FALSE
    /\ shutdown = "no"
    /\ reviewed = {}

DriverLive(e) == drv[e].pc \notin {"none", "done"}

deployment == <<runtime, liveRows>>
lifeVars == <<deployment, server, stop, rtClosed, shutdown>>

(***************************************************************************)
(* The store.  UpdateStatus overwrites whatever status the row has.        *)
(***************************************************************************)

\* Mistake: completed_at is only set for completed rows.
UpdatedFailedOpen(old, status, msg) ==
    [old EXCEPT !.status = status,
                !.completedAt = @ \/ status = "completed",
                !.errMsg = msg \/ (@ /\ status = "failed")]

Updated(old, status, msg) ==
    [old EXCEPT !.status = status,
                !.completedAt = @ \/ status \in Terminal,
                !.errMsg = msg \/ (@ /\ status = "failed")]

UpdateStatus(e, status, msg) ==
    /\ row' = [row EXCEPT ![e] = Updated(@, status, msg)]
    /\ reviewed' = IF status = "review" THEN reviewed \cup {e} ELSE reviewed

\* runtime.Cancel, runtime.Close and a done request context kill the worker.
Kill(killed) ==
    proc' = [e \in Executions |->
                IF e \in killed /\ proc[e] = "alive" THEN "killed" ELSE proc[e]]

(***************************************************************************)
(* CreateExecution.                                                        *)
(***************************************************************************)
Creating(r, pc, e) == req[r].op = "create" /\ req[r].pc = pc /\ req[r].e = e

Advance(r, pc) == req' = [req EXCEPT ![r].pc = pc]

\* The handler returns; net/http then cancels the request's context.
Respond(r) ==
    /\ req' = [req EXCEPT ![r] = IdleReq]
    /\ ctxDone' = IF req[r].op = "create" THEN ctxDone \cup {req[r].e} ELSE ctxDone

\* Task and agent exist and belong to the caller's project: the row is
\* inserted.  A refused request changes nothing.
CreateRow(r, e) ==
    /\ server = "up"
    /\ req[r].pc = "idle"
    /\ row[e].status = "absent"
    /\ row' = [row EXCEPT ![e].status = "assigned"]
    /\ req' = [req EXCEPT ![r] =
                 [IdleReq EXCEPT !.op = "create", !.e = e,
                                 !.pc = IF runtime = "none" THEN "launch" ELSE "spawn"]]
    /\ UNCHANGED <<worker, proc, ctxDone, drv, lifeVars, reviewed>>

\* runtime.Spawn finds the runtime open; a Close after this check does not see
\* the worker that is about to start.
SpawnCheck(r, e) ==
    /\ Creating(r, "spawn", e)
    /\ ~rtClosed
    /\ Advance(r, "spawning")
    /\ UNCHANGED <<row, worker, proc, ctxDone, drv, lifeVars, reviewed>>

\* runtime.Spawn succeeds; the instance id is set on the caller's copy of the
\* row and its status read for the write that follows.
Spawn(r, e) ==
    /\ Creating(r, "spawning", e)
    /\ proc' = [proc EXCEPT ![e] = "alive"]
    /\ row' = [row EXCEPT ![e].instance = liveRows]
    /\ req' = [req EXCEPT ![r].pc = "writeback",
                 ![r].seen = IF liveRows THEN row[e].status ELSE "assigned",
                 ![r].to   = IF liveRows THEN row[e].status ELSE "assigned",
                 ![r].msg  = liveRows /\ row[e].errMsg]
    /\ UNCHANGED <<worker, ctxDone, drv, lifeVars, reviewed>>

\* The agent lookup or runtime.Spawn fails: the row stays behind.
SpawnFails(r, e) ==
    /\ Creating(r, "spawn", e) \/ Creating(r, "spawning", e)
    /\ Respond(r)
    /\ UNCHANGED <<row, worker, proc, drv, lifeVars, reviewed>>

\* UpdateStatus with the status read before.
Writeback(r, e) ==
    /\ Creating(r, "writeback", e)
    /\ UpdateStatus(e, req[r].to, req[r].msg)
    /\ Advance(r, "worker")
    /\ UNCHANGED <<worker, proc, ctxDone, drv, lifeVars>>

CreateWorkerRow(r, e) ==
    /\ Creating(r, "worker", e)
    /\ worker' = [worker EXCEPT ![e] = "pending"]
    /\ Advance(r, "launch")
    /\ UNCHANGED <<row, proc, ctxDone, drv, lifeVars, reviewed>>

\* Mistake: an error after Spawn returns without cancelling the worker.
CreateFailsLeaking(r, e) ==
    /\ Creating(r, "writeback", e) \/ Creating(r, "worker", e)
    /\ Respond(r)
    /\ UNCHANGED <<row, worker, proc, drv, lifeVars, reviewed>>

\* Either store call fails: the worker is cancelled and the row stays behind.
CreateFails(r, e) ==
    /\ Creating(r, "writeback", e) \/ Creating(r, "worker", e)
    /\ Kill({e})
    /\ Respond(r)
    /\ UNCHANGED <<row, worker, drv, lifeVars, reviewed>>

\* wg.Add(1), the go statement, and the response.
Launch(r, e) ==
    /\ Creating(r, "launch", e)
    /\ drv' = [drv EXCEPT ![e].pc = IF runtime = "none" THEN "sleep" ELSE "start"]
    /\ Respond(r)
    /\ UNCHANGED <<row, worker, proc, lifeVars, reviewed>>

\* The client goes away while the request is in progress.
ClientGone(r) ==
    /\ req[r].op = "create"
    /\ ctxDone' = ctxDone \cup {req[r].e}
    /\ UNCHANGED <<row, worker, proc, drv, req, lifeVars, reviewed>>

(***************************************************************************)
(* The runtime's worker, as the service sees it.                           *)
(***************************************************************************)
WorkerEnds(e) ==
    /\ proc[e] = "alive"
    /\ \E s \in {"completed", "failed", "cancelled"} : proc' = [proc EXCEPT ![e] = s]
    /\ UNCHANGED <<row, worker, ctxDone, drv, req, lifeVars, reviewed>>

\* The process runtime starts the worker with exec.CommandContext(ctx, ...)
\* on the context of the creating request.
ContextKill(e) ==
    /\ runtime = "process"
    /\ e \in ctxDone
    /\ proc[e] = "alive"
    /\ Kill({e})
    /\ UNCHANGED <<row, worker, ctxDone, drv, req, lifeVars, reviewed>>

(***************************************************************************)
(* driveWorker and mockExecution.                                          *)
(***************************************************************************)
Drive(e, pc) == drv' = [drv EXCEPT ![e].pc = pc]

\* wg.Done.  Of its locals only the fact that Wait failed is remembered.
DriverDone(e) ==
    drv' = [drv EXCEPT ![e] = [NoDrv EXCEPT !.pc = "done", !.gaveUp = drv[e].gaveUp]]

\* Worker row to running.
DriverStart(e) ==
    /\ drv[e].pc = "start"
    /\ worker' = [worker EXCEPT ![e] = "running"]
    /\ Drive(e, "wait")
    /\ UNCHANGED <<row, proc, ctxDone, req, lifeVars, reviewed>>

\* What Wait can report about the worker: of one that was killed, the last
\* frame it wrote.
WaitResults(e) ==
    IF proc[e] = "killed" THEN {"completed", "failed", "cancelled"} ELSE {proc[e]}

\* Wait returned a result.
DriverResult(e) ==
    /\ drv[e].pc = "wait"
    /\ proc[e] # "alive"
    /\ \E s \in WaitResults(e), m \in BOOLEAN :
          /\ s = "completed" => ~m
          /\ s = "cancelled" => m
          /\ drv' = [drv EXCEPT ![e].pc = "worker", ![e].msg = m,
                       ![e].to = IF s = "completed" THEN "review" ELSE "failed"]
    /\ UNCHANGED <<row, worker, proc, ctxDone, req, lifeVars, reviewed>>

\* Wait returned an error: stop is cancelled, the runtime closed, or the wait
\* timed out.  The worker itself is left alone.
DriverWaitError(e) ==
    /\ drv[e].pc = "wait"
    /\ drv' = [drv EXCEPT ![e].pc = "worker", ![e].msg = TRUE,
                          ![e].to = "failed", ![e].gaveUp = TRUE]
    /\ UNCHANGED <<row, worker, proc, ctxDone, req, lifeVars, reviewed>>

\* Mistake: the worker row gets the execution's status.
workerStatusFromExecutionStatusRaw(s) == s

workerStatusFromExecutionStatus(s) ==
    IF s \in {"completed", "review"} THEN "completed" ELSE "failed"

\* Worker row to its terminal status.
DriverWorkerRow(e) ==
    /\ drv[e].pc = "worker"
    /\ worker' = [worker EXCEPT ![e] = workerStatusFromExecutionStatus(drv[e].to)]
    /\ Drive(e, "read")
    /\ UNCHANGED <<row, proc, ctxDone, req, lifeVars, reviewed>>

\* Mistake: a refused transition is tried again and again.
DriverReadRetries(e) ==
    /\ drv[e].pc = "read"
    /\ isValidExecutionTransition(row[e].status, drv[e].to)
    /\ drv' = [drv EXCEPT ![e].pc = "write", ![e].seen = row[e].status]
    /\ UNCHANGED <<row, worker, proc, ctxDone, req, lifeVars, reviewed>>

\* TransitionTo reads the row; a refused transition is only logged.
DriverRead(e) ==
    /\ drv[e].pc = "read"
    /\ IF isValidExecutionTransition(row[e].status, drv[e].to)
       THEN drv' = [drv EXCEPT ![e].pc = "write", ![e].seen = row[e].status]
       ELSE DriverDone(e)
    /\ UNCHANGED <<row, worker, proc, ctxDone, req, lifeVars, reviewed>>

DriverWrite(e) ==
    /\ drv[e].pc = "write"
    /\ UpdateStatus(e, drv[e].to, drv[e].msg)
    /\ DriverDone(e)
    /\ UNCHANGED <<worker, proc, ctxDone, req, lifeVars>>

\* The store refuses the write; the error is only logged.
DriverWriteFails(e) ==
    /\ drv[e].pc = "write"
    /\ DriverDone(e)
    /\ UNCHANGED <<row, worker, proc, ctxDone, req, lifeVars, reviewed>>

\* mockExecution: the sleep ends and the outcome is written unchecked ...
MockWakes(e) ==
    /\ drv[e].pc = "sleep"
    /\ \E to \in {"review", "failed"} :
          drv' = [drv EXCEPT ![e].pc = "write", ![e].to = to, ![e].msg = to = "failed"]
    /\ UNCHANGED <<row, worker, proc, ctxDone, req, lifeVars, reviewed>>

\* ... or the service stops first.
MockStops(e) ==
    /\ drv[e].pc = "sleep"
    /\ stop
    /\ DriverDone(e)
    /\ UNCHANGED <<row, worker, proc, ctxDone, req, lifeVars, reviewed>>

DriverStep(e) ==
    \/ DriverStart(e) \/ DriverResult(e) \/ DriverWaitError(e)
    \/ DriverWorkerRow(e) \/ DriverRead(e) \/ DriverWrite(e)
    \/ DriverWriteFails(e) \/ MockWakes(e) \/ MockStops(e)

(***************************************************************************)
(* PATCH, review and cancel.                                               *)
(***************************************************************************)
Begin(r, e, op, pc, to, msg) ==
    /\ server = "up"
    /\ req[r].pc = "idle"
    /\ row[e].status # "absent"
    /\ req' = [req EXCEPT ![r] =
                     [pc |-> pc, op |-> op, e |-> e, to |-> to, msg |-> msg,
                      seen |-> IF pc = "write" THEN row[e].status ELSE "none"]]
    /\ UNCHANGED <<row, worker, proc, ctxDone, drv, lifeVars, reviewed>>

\* UpdateExecutionStatus for a PATCH: read and check.  A refused transition
\* (409) and one to the same status change nothing.
Patch(r, e, to, msg) ==
    /\ row[e].status # "absent"
    /\ isValidExecutionTransition(row[e].status, to)
    /\ Begin(r, e, "patch", "write", to, msg)

\* ReviewExecution: the row must be in review; UpdateExecutionStatus comes next.
Review(r, e, accepted) ==
    /\ row[e].status = "review"
    /\ Begin(r, e, "review", "check", IF accepted THEN "completed" ELSE "failed",
             ~accepted)

\* CancelExecution: the row must not be terminal.
Cancel(r, e) ==
    /\ row[e].status \notin Terminal
    /\ Begin(r, e, "cancel", "check", "failed", TRUE)

\* Mistake: review and cancel write without checking the row again.
UpdateCheckSkipped(r) ==
    /\ req[r].pc = "check"
    /\ req' = [req EXCEPT ![r].pc = "write", ![r].seen = row[req[r].e].status]
    /\ UNCHANGED <<row, worker, proc, ctxDone, drv, lifeVars, reviewed>>

\* UpdateExecutionStatus on behalf of a review or a cancel: its own read.
UpdateCheck(r) ==
    /\ req[r].pc = "check"
    /\ IF isValidExecutionTransition(row[req[r].e].status, req[r].to)
       THEN req' = [req EXCEPT ![r].pc = "write", ![r].seen = row[req[r].e].status]
       ELSE req' = [req EXCEPT ![r] = IdleReq]
    /\ UNCHANGED <<row, worker, proc, ctxDone, drv, lifeVars, reviewed>>

RequestWrite(r) ==
    /\ req[r].pc = "write"
    /\ UpdateStatus(req[r].e, req[r].to, req[r].msg)
    /\ req' = [req EXCEPT ![r] = IdleReq]
    /\ UNCHANGED <<worker, proc, ctxDone, drv, lifeVars>>

RequestWriteFails(r) ==
    /\ req[r].pc = "write"
    /\ req' = [req EXCEPT ![r] = IdleReq]
    /\ UNCHANGED <<row, worker, proc, ctxDone, drv, lifeVars, reviewed>>

RequestStep(r) ==
    \/ \E e \in Executions :
          SpawnCheck(r, e) \/ Spawn(r, e) \/ SpawnFails(r, e) \/ Writeback(r, e)
             \/ CreateWorkerRow(r, e) \/ CreateFails(r, e) \/ Launch(r, e)
    \/ UpdateCheck(r) \/ RequestWrite(r) \/ RequestWriteFails(r)

NewRequest(r) ==
    \E e \in Executions :
        \/ CreateRow(r, e)
        \/ \E to \in Status, msg \in PatchMessages : Patch(r, e, to, msg)
        \/ \E accepted \in BOOLEAN : Review(r, e, accepted)
        \/ Cancel(r, e)

(***************************************************************************)
(* gracefulShutdown: the HTTP server first, then Shutdown of the service.  *)
(***************************************************************************)
businessVars == <<deployment, row, worker, ctxDone, drv, req, reviewed>>

Signal ==
    /\ server = "up"
    /\ server' = "draining"
    /\ UNCHANGED <<businessVars, proc, stop, rtClosed, shutdown>>

\* srv.Shutdown returns nil once no request is left, or runs out of grace.
HttpShutdown ==
    /\ server = "draining"
    /\ \/ server' = "drained" /\ \A r \in Requests : req[r].pc = "idle"
       \/ server' = "overrun"
    /\ UNCHANGED <<businessVars, proc, stop, rtClosed, shutdown>>

\* Mistake: an HTTP server that ran out of grace ends the sequence.
ShutdownStopIfDrained ==
    /\ server = "drained"
    /\ ~stop
    /\ stop' = TRUE
    /\ UNCHANGED <<businessVars, proc, server, rtClosed, shutdown>>

\* Shutdown cancels the stop context ...
ShutdownStop ==
    /\ server \in {"drained", "overrun"}
    /\ ~stop
    /\ stop' = TRUE
    /\ UNCHANGED <<businessVars, proc, server, rtClosed, shutdown>>

\* Mistake: Shutdown leaves the runtime open.
RuntimeCloseSkipped ==
    /\ stop
    /\ ~rtClosed
    /\ rtClosed' = TRUE
    /\ UNCHANGED <<businessVars, proc, server, stop, shutdown>>

\* ... closes the runtime, if there is one ...
RuntimeClose ==
    /\ stop
    /\ ~rtClosed
    /\ rtClosed' = TRUE
    /\ Kill(Executions)
    /\ UNCHANGED <<businessVars, server, stop, shutdown>>

\* ... and waits for the drivers as long as its context allows.
ShutdownReturn ==
    /\ rtClosed
    /\ shutdown = "no"
    /\ \/ shutdown' = "nil" /\ \A e \in Executions : ~DriverLive(e)
       \/ shutdown' = "ctx"
    /\ UNCHANGED <<businessVars, proc, server, stop, rtClosed>>

ShutdownStep == HttpShutdown \/ ShutdownStop \/ RuntimeClose \/ ShutdownReturn

Next ==
    \/ \E r \in Requests : NewRequest(r) \/ RequestStep(r) \/ ClientGone(r)
    \/ \E e \in Executions : WorkerEnds(e) \/ ContextKill(e) \/ DriverStep(e)
    \/ Signal
    \/ ShutdownStep

Spec == Init /\ [][Next]_vars

\* Goroutines and requests that can step are scheduled and store calls return.
\* Nothing is assumed of clients, signals, or of the worker itself.
Fairness ==
    /\ \A e \in Executions : WF_vars(DriverStep(e))
    /\ \A r \in Requests : WF_vars(RequestStep(r))
    /\ WF_vars(ShutdownStep)

FairSpec == Spec /\ Fairness

-----------------------------------------------------------------------------
(***************************************************************************)
(* Properties.                                                             *)
(***************************************************************************)
ReqPC == {"idle", "spawn", "spawning", "writeback", "worker", "launch", "check", "write"}
DrvPC == {"none", "sleep", "start", "wait", "worker", "read", "write", "done"}

RowType == [status : Status \cup {"absent"}, completedAt : BOOLEAN, errMsg : BOOLEAN,
            instance : BOOLEAN]
DrvType == [pc : DrvPC, to : {"none", "review", "failed"}, msg : BOOLEAN,
            seen : Status \cup {"none"}, gaveUp : BOOLEAN]
ReqType == [pc : ReqPC, op : {"none", "create", "patch", "review", "cancel"},
            e : Executions \cup {"none"}, to : Status \cup {"none"}, msg : BOOLEAN,
            seen : Status \cup {"none"}]

\* Rows, worker rows, drivers and requests have the shape the Go types give
\* them; in particular a worker row only ever holds a worker status.
TypeOK ==
    /\ runtime \in {"process", "mock", "none"}
    /\ liveRows \in BOOLEAN
    /\ row \in [Executions -> RowType]
    /\ worker \in [Executions -> {"absent", "pending", "running", "completed", "failed"}]
    /\ proc \in [Executions ->
                   {"none", "alive", "completed", "failed", "cancelled", "killed"}]
    /\ ctxDone \subseteq Executions
    /\ drv \in [Executions -> DrvType]
    /\ req \in [Requests -> ReqType]
    /\ server \in {"up", "draining", "drained", "overrun"}
    /\ stop \in BOOLEAN
    /\ rtClosed \in BOOLEAN
    /\ shutdown \in {"no", "nil", "ctx"}
    /\ reviewed \subseteq Executions

\* No execution is completed that was never in review: whatever requests and
\* drivers race on the row, a write of "completed" rests on a read of "review".
CompletedWasInReview ==
    \A e \in Executions : row[e].status = "completed" => e \in reviewed

\* A terminal row carries its completion time, whichever actor ended it.
TerminalHasCompletedAt ==
    \A e \in Executions : row[e].status \in Terminal => row[e].completedAt

\* Somebody is responsible for every live worker: the request that spawned it
\* until it hands over to the driver, then the driver until its Wait fails.
\* No error path of CreateExecution leaves a worker behind.
NoUnsupervisedWorker ==
    \A e \in Executions :
        proc[e] = "alive" =>
            \/ \E r \in Requests, pc \in {"writeback", "worker", "launch"} : Creating(r, pc, e)
            \/ DriverLive(e)
            \/ drv[e].gaveUp

\* A request or the driver goes on from its write of execution e, which it
\* decided on when the row had a status that it has no longer.
StaleWrite(e) ==
    \/ \E r \in Requests : /\ req[r].e = e
                           /\ req[r].pc \in {"write", "writeback"} /\ req'[r].pc # req[r].pc
                           /\ req[r].seen # row[e].status
    \/ drv[e].pc = "write" /\ drv'[e].pc # "write" /\ drv[e].seen # row[e].status

\* The status of a row follows validExecutionTransitions, except in a step
\* of a writer that lost a race: an actor whose read is up to date never makes
\* a transition that the table forbids.  (With a runtime; the legacy mock
\* goroutine does not consult the table.)
OnlyStaleWritesBreakTable ==
    [][runtime # "none" =>
         \A e \in Executions :
            row[e].status \notin {"absent", row'[e].status} =>
               \/ isValidExecutionTransition(row[e].status, row'[e].status)
               \/ StaleWrite(e)]_vars

\* After an orderly shutdown (the HTTP server drained and Shutdown returned
\* nil) no driver is live, no worker is alive, and no row changes any more.
OrderlyShutdown ==
    server = "drained" /\ shutdown = "nil" =>
        /\ \A e \in Executions : ~DriverLive(e) /\ proc[e] # "alive"
        /\ \A r \in Requests : req[r].pc = "idle"

\* Once the server is signalled to stop, Shutdown returns.
ShutdownCompletes ==
    server = "draining" ~> shutdown # "no"

\* Once stop is cancelled every driver ends for good, also one whose worker
\* never ends and one that a late request starts.
DriversEnd ==
    stop ~> []\A e \in Executions : ~DriverLive(e)

\* How many steps a driver has left, at most.
DriverLeft == [none |-> 6, start |-> 5, wait |-> 4, worker |-> 3, read |-> 2, sleep |-> 2,
               write |-> 1, done |-> 0]

\* An execution is driven once: its goroutine only goes on, no request starts a
\* second one, and one that is done is done for good.  With the fairness of
\* DriverStep this is why drivers end.
DrivenOnce ==
    [][\A e \in Executions :
         drv'[e] = drv[e] \/ DriverLeft[drv'[e].pc] < DriverLeft[drv[e].pc]]_vars

(***************************************************************************)
(* The inductive invariant behind the safety properties.                   *)
(***************************************************************************)

\* Requests in progress and drivers are about existing rows, and one that is
\* about to write names the status.
Attached ==
    /\ \A r \in Requests :
          /\ req[r].op = "create" <=>
                req[r].pc \in {"spawn", "spawning", "writeback", "worker", "launch"}
          /\ req[r].pc # "idle" =>
                req[r].e \in Executions /\ row[req[r].e].status # "absent"
          /\ req[r].pc \in {"writeback", "check", "write"} => req[r].to # "none"
    /\ \A e \in Executions :
          /\ drv[e].pc \in {"worker", "read", "write"} => drv[e].to # "none"
          /\ drv[e].pc # "none" => row[e].status # "absent"

\* What every pending write was based on.
WritesWereChecked ==
    /\ \A r \in Requests :
          /\ req[r].pc = "writeback" => req[r].to = req[r].seen
          /\ req[r].pc = "write" => isValidExecutionTransition(req[r].seen, req[r].to)
    /\ \A e \in Executions :
          drv[e].pc = "write" /\ runtime # "none" =>
             isValidExecutionTransition(drv[e].seen, drv[e].to)

\* Review leaves its trace, and nobody decides on completed without it.
CompletionRestsOnReview ==
    /\ \A e \in Executions : row[e].status = "review" => e \in reviewed
    /\ \A r \in Requests :
          req[r].pc \in {"write", "writeback"} /\ req[r].to = "completed" =>
             req[r].e \in reviewed

\* One request creates an execution, before there is a driver for it, and the
\* driver passes Wait without an error only once the worker has ended.
Handover ==
    /\ \A r, q \in Requests :
          req[r].op = "create" /\ req[q].op = "create" /\ req[r].e = req[q].e => r = q
    /\ \A r \in Requests : req[r].op = "create" => drv[req[r].e].pc = "none"
    /\ \A r \in Requests :
          req[r].pc \in {"spawn", "spawning"} => proc[req[r].e] = "none" /\ runtime # "none"
    /\ \A e \in Executions :
          /\ row[e].status = "absent" => proc[e] = "none"
          /\ drv[e].pc \in {"worker", "read", "write"} /\ ~drv[e].gaveUp => proc[e] # "alive"
          /\ runtime = "none" => proc[e] = "none"
          /\ drv[e].pc = "sleep" => runtime = "none"

\* The shutdown sequence: stop only after the HTTP server, the runtime only
\* after stop, and a drained server has no request that could start anything.
ShutdownOrder ==
    /\ stop => server \in {"drained", "overrun"}
    /\ rtClosed => stop
    /\ shutdown # "no" => rtClosed
    /\ server = "drained" /\ rtClosed => \A e \in Executions : proc[e] # "alive"
    /\ server = "drained" => \A r \in Requests : req[r].pc = "idle"
    /\ server = "drained" /\ shutdown = "nil" => \A e \in Executions : ~DriverLive(e)

IInv ==
    /\ TypeOK
    /\ Attached
    /\ WritesWereChecked
    /\ CompletionRestsOnReview
    /\ Handover
    /\ CompletedWasInReview
    /\ TerminalHasCompletedAt
    /\ NoUnsupervisedWorker
    /\ ShutdownOrder

(***************************************************************************)
(* What the comments say and the code does not do.                         *)
(***************************************************************************)

\* "Terminal states (completed/failed) have no outgoing edges."
TerminalIsFinal ==
    [][\A e \in Executions :
         row[e].status \in Terminal => row'[e].status = row[e].status]_vars

\* "worker-complete transitions the execution to REVIEW": once the driver of a
\* completed worker is done the execution has been handed to the reviewer.
CompletedWorkerReachesReview ==
    \A e \in Executions :
        drv[e].pc = "done" /\ worker[e] = "completed" =>
            row[e].status \in {"review", "completed", "failed"}

\* "the request's ctx will be cancelled as soon as the handler returns; the
\* worker must continue running": until the runtime is closed or the creation
\* failed, a worker is not killed.
WorkerOutlivesRequest ==
    \A e \in Executions : proc[e] = "killed" /\ DriverLive(e) => rtClosed
=============================================================================
