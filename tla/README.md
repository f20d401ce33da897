# Formal model of the AI Software Factory

TLA+ modules for the parts of the Go backend (`src/src/`) in which goroutines, HTTP
requests, channels, stored rows and restarts meet; the TLC runs that check them on small
instances; and machine-checked proofs of their safety properties for any number of
executions, requests, workers and rows. `PROJECT.json` lists the components, runs,
hazards, theorems, and, for every definition that models code, its source lines.

## 1. The system

The backend accepts work for AI agents over HTTP, starts a worker per execution through
the *Aion* runtime, follows it to its end, and lets a human review the outcome.

| Part | State | Operations | Interacts with |
|---|---|---|---|
| Execution service (`internal/service/execution.go`) | execution rows and worker rows in the store; one driver goroutine per execution; `stop` context; wait group | CreateExecution, UpdateExecutionStatus, ReviewExecution, CancelExecution, driveWorker, mockExecution, Shutdown | store, runtime, HTTP handlers, `main` |
| Execution handlers (`internal/handler/execution.go`) | none | POST, PATCH, cancel, review, reads | execution service |
| Process lifecycle (`cmd/main.go`) | HTTP server, service | gracefulShutdown | execution service |
| Aion runtime (`internal/aion`) | live workers, their result channels, `closed` | Spawn, Wait, Cancel, Close (mock and process variants) | execution service, dispatcher |
| Dispatch queue (`internal/dispatch/queue.go`) | buffered channel, in-flight map, dead-letter list, `closed` | Enqueue, Dequeue, Ack, Nack, Close | dispatcher, agent factory |
| Dispatcher (`internal/dispatch/dispatcher.go`) | worker pool, `running`, cancel function, counters | Start, Stop, workerLoop, handleSpec | dispatch queue, runtime |
| Event bus (`internal/events/bus.go`) | subscribers, ring buffer per project, next id | Publish, Subscribe, unsubscribe, Last | (no publisher wired yet) |
| Event state table (`internal/events/state.go`) | constant table | Valid, Allowed | (none) |
| Assignments (`internal/service/assignment.go`) | assignment rows, events, task and agent rows | AssignTaskToAgent, ListAssignmentHistory | store transaction |
| Deliverables, reviews | deliverable, version and review rows | Create, Update, ListVersions, review | store |
| Authentication (`internal/service/auth.go`) | refresh tokens, API keys | Login, Refresh, Logout, validation | store |
| Agents, capabilities, agent factory | agent rows with optimistic versions; live agents | Create, Update, Retire; SpawnAgent, Shutdown | store, queue, runtime |
| Tasks, projects | rows that several requests write; tasks also through assignments and decompositions | create, update, status, delete, decompose, list | store, assignments, agents |
| Users, webhooks, deployments, artifacts, audit | single rows | create/read/update | store |
| Migrations (`db/migrate.go`) | `schema_migrations` and the schema | RunMigrations at every start | database |
| Middleware | rate-limiter buckets | per-request admission | handlers |
| Stores (`internal/store`) | maps behind one mutex, or postgres tables | CRUD, WithTx | all services |
| Frontend, scripts, configuration | - | - | API clients, set-up |

What is hard in this code:

* **Read, check, later write.** A status change reads a row, checks the transition
  table, and writes unconditionally; nothing ties the write to the read. PATCH, review,
  cancel, the write-back of CreateExecution and the driver all race this way.
* **Two kinds of store.** The memory store hands out the row itself (an assignment to a
  field is visible to everybody), the postgres store hands out copies.
* **Hand-over of a worker**: request to driver, with error returns in between; the
  driver gives up on a Wait error while the worker runs on.
* **Contexts.** The creating request's context is cancelled when its handler returns.
* **Shutdown order**: HTTP server, `stop`, runtime, wait group; requests that outlive
  the HTTP grace start drivers during it.
* **The queue outside its lock**: between a receive and the in-flight insertion, and
  between the removal and the send of a retry, a spec is in no data structure.
* **A bounded channel whose only readers are its writers**: workers block in Nack.
* **Delivery outside the lock** in the bus, against subscribers that leave.
* **Rows kept in two places**: a deliverable and its versions, an agent's capability list
  and the join table, a task's assignee and its active assignment, an assignment and its
  event; each pair is written in two calls, and the memory store's `WithTx` neither locks
  nor rolls back.
* **Optimistic versions** that one store bumps and the other does not.
* **Restarts**: refresh tokens live in memory, cookies outlive them; migrations stop
  between the SQL, its record and the commit, and two servers may run them at once.
* **Lists that change while a client pages through them.**
* **A pipe with two closers**: the process runtime's reaper closes the pipe that another
  goroutine reads; one result channel has several senders and several receivers.

What makes each part correct: an execution reaches `completed` only through review, a
terminal row has its completion time, a worker always has somebody responsible for it, an
orderly shutdown leaves nothing running (execution engine); accepted specs are neither
lost nor duplicated nor run more often than the cap, and settle (dispatch); replay is
exact, delivery at most once and truthfully reported, publishing never blocks (bus); a
worker has one result, which is what it said last, and Close leaves neither a worker it
knew of nor a blocked Wait (runtime); pairs of rows agree except while their writer is
between its two calls, or after two of them overlapped, and an update undoes no other that it has not seen (records); a
refresh token buys one successor (sessions); the schema is at a definite version
(migrations); the rate is kept exactly (limiter); a walk over a list shows every row that
stayed, once (listing).

## 2. Modules

| Module | Models |
|---|---|
| `Execution` | the execution service with its handlers, both stores, all three runtime configurations and the shutdown sequence |
| `MCExecution` | symmetry for the runs of `Execution` |
| `DispatchQueue` | the queue, one operator per channel operation or critical section |
| `Dispatcher` | extends `DispatchQueue` with the worker pool, its callers and its counters |
| `WorkQueue` | abstract specification of what `Dispatcher` promises about each job |
| `AionRuntime` | the mock and the process runtime with their goroutines |
| `EventBus` | the event bus with its ring buffers |
| `Agents` | agent rows: create, fetch, update, retire, claim by a project, cascade of a deleted one; both stores |
| `Assignments` | tasks and their assignments with index, events and assignee pointer; memory store |
| `Deliverables` | deliverables and their version rows; memory store |
| `Projects` | project rows: create, update, delete, decompose; both stores |
| `Sessions` | login, refresh rotation, logout; browsers with cookies; restarts |
| `Migrations` | `RunMigrations` of several servers over one database, with crashes |
| `AgentFactory` | SpawnAgent against Shutdown, over either runtime |
| `RateLimit` | the token bucket and its sweeper |
| `Listing` | a client's walk over each of the thirteen paged lists |
| `Records` | the constant `None` that the nine share |
| `MCRecords` | puts the nine under one specification for TLC |
| `Execution_proofs`, `Dispatcher_proofs`, `Aion_proofs`, `EventBus_proofs`, `Assignments_proofs` | theorems about the module they are named after |
| `Registry_proofs` | theorems about `Agents`, `Projects` and `Deliverables` |
| `Access_proofs` | theorems about `Sessions`, `RateLimit` and `Listing` |
| `Records_proofs` | theorems about `Migrations`, `AgentFactory` and the composition of the nine |

Definitions named after a mistake (their comment begins "Mistake:") are not part of any
specification. Each is the altered form of the definition below it, as a plausible slip
in the code would make it, and is there to confirm that a property notices the slip.

### Execution

`row`, `worker` and `proc` are the execution row, the worker row and the runtime's
worker of each execution; `drv` is its driver goroutine (program counter and locals),
`req` the HTTP requests in progress, `ctxDone` the executions whose creating request's
context is done. `server`, `stop`, `rtClosed` and `shutdown` follow `gracefulShutdown`
and `ExecutionService.Shutdown`. `runtime` and `liveRows` are chosen in `Init`: the
deployment (process runtime as in `service.go`, mock runtime, or the legacy path without
one) and whether the store shares rows. `reviewed` is a history variable.

One execution is created by `CreateRow`, `SpawnCheck`, `Spawn`, `Writeback`,
`CreateWorkerRow` and `Launch`, one action per store or runtime call, with `SpawnFails`
and `CreateFails` for the error returns; `runtime.Spawn` is two steps because its closed
check and the registration of the worker are. `driveWorker` is `DriverStart`,
`DriverResult` or `DriverWaitError`, `DriverWorkerRow`, `DriverRead`, `DriverWrite`.
`Patch`, `Review` and `Cancel` are the reads of their handlers; `UpdateCheck` is the
second read that review and cancel make; `RequestWrite` is the store write.
`UpdateStatus` models what the stores do: status overwritten, `completed_at` set for a
terminal status, the error message as passed, or kept.

Abstracted: ids, timestamps (only their presence), message texts (presence), bodies,
authorisation and lookups of task and agent, which refuse without changing state. A
request that is refused is not a step. Worker outputs and the heartbeat are left out.

### DispatchQueue, Dispatcher, WorkQueue

A worker goroutine is a pair of the Start that created it and its index. `pc` names the
next channel operation or critical section of `workerLoop`, `handleSpec`, `Dequeue`,
`Ack` and `Nack`. `Stoppers` call Stop; `CancelContext` is the owner of the Start context
cancelling it; each accepted `Enqueue` is three steps (closed check, send, or giving up).
The runtime may fail any Spawn or Wait and may report any terminal status. `spawns` is a
history variable: the attempts that were spawned.

`WorkQueue` has jobs that are new, queued, leased, done, dead or stranded. The refinement
mapping in `Dispatcher` (`JobOf`, `AttemptOf`, `WQ`) reads a job's state off the channel,
the hands of the workers, the in-flight map and the dead-letter list. A job is leased
from the receive to the Ack, the dead-lettering or the send of its retry. `Strand` is in
the abstract specification because the code has it: a Nack whose context ends puts the
retry back in flight, where no worker finds it.

### AionRuntime

`kind` chooses the implementation. A worker has a `child` (the process, or the mock's
goroutine), a `pump` (the goroutine that decides the result: `pumpStdout`, or `run`), a
`done` flag and a one-slot `resultCh`. `pipe` holds the frames the process has written
and the scanner has not read; `Reap` is the end of the `cmd.Wait` that the first Wait
starts, after which the scanner gets nothing more. Frames are their types; a line longer
than the scanner's buffer is a frame of its own. Calls of Wait and Cancel are
`Waits` and `Cancels`; Close is one call, since all others return at once. Closing a
channel twice sets `panicked`, after which nothing moves.

`Execution` and `Dispatcher` use the runtime through its interface: Spawn may fail, a
Wait ends with any terminal status or an error, and workers registered before Close end.

### EventBus

`Publish` is the critical section (id, ring buffer, snapshot of the subscribers), then
one step per subscriber of the snapshot: `Deliver`, `Drop`, or `SendOnClosed`, after
which nothing moves (the panic ends the process). `Unsubscribe` removes the subscriber at
the index where the loop finds it. Histories: what was published, received, offered and
reported.

### The record-keeping modules

In all of them a store call is one step (the memory store holds its mutex for it,
postgres runs one statement), and a request is the sequence of its store calls with the
values it carries from one to the next. The two calls that are transactions of several
statements, SetCapabilities of postgres and the application of a migration, have several
steps.

* `Agents`. `agentRow` and `agentJoin` are the two places where postgres keeps
  capabilities. SetCapabilities of postgres runs at READ COMMITTED, and its first
  statement locks no row of `agents`, so two of them overlap. `PostgresDeleteGrants` is
  its DELETE, which takes the join rows committed by then (`sees`);
  `PostgresSetCapabilities` is its commit, by which the inserts and the UPDATE of the
  agent take effect; a commit in between leaves the other nothing to delete of what it
  deleted (`CommitSeenBy`). `PostgresRollback` is the failure of any statement: an
  insert that meets a committed row (`InsertsCollide`), an agent that is gone, a
  deadlock, an error. Locks that only delay a statement choose among these orders.
  `ProjectDeleted` is the ON DELETE CASCADE of `migrations/015`: in postgres the agents
  of a deleted project go, with their join rows. The row keeps its value in `agentRow`,
  and `Exists` says that it is there no longer.
  An update is `UpdateAgentRead` (early returns in `UpdateRefusal`),
  `UpdateAgentCapabilities`, `UpdateAgentReread`, `UpdateAgentWrite`, `UpdateAgentReply`.
  `MemoryUpdates`/`MemoryWritten` and their postgres counterparts are the version check
  and the columns written. `ClaimAgentRead` and `ClaimAgentWrite` are the loop of
  CreateProject over the agents of its body.
* `Assignments`. `AssignTask` begins a request; `AssignDecide`, `AssignLookup`,
  `AssignSupersede`, `AssignCreate`, `AssignEvent`, `AssignPointer` are the calls of
  AssignTaskToAgent, beside the task endpoints, which write live rows. A request's `action`
  is what its event will say, and, for a PATCH of the task, the status asked for.
* `Deliverables`. Main row and version row are written separately, in the order of the
  code: main first when creating, version first when updating.
* `Projects`. In the memory store the fields are set on the live row before Update;
  postgres overwrites the row with the copy. Nothing validates the status of a PUT.
* `Sessions`. A token is its user and its second of issue: two issued in one second are
  the same string. A browser is its cookie jar; its tabs are the refreshes
  (`RefreshCalls`), which may present one cookie at once. Each is `RefreshHandler`
  (validate), `RefreshSet` (store the new), `RefreshDelete` (the old) and `RefreshAnswer`,
  which may be lost; `SessionCrash` empties the token store. A logout is `LogoutHandler`,
  which revokes the token, and `LogoutAnswer`, which clears the cookie and may be lost.
* `Migrations`. `schema_migrations` and `effects` are the database. An ordinary file takes
  effect at `CommitTx`; a file in `SelfCommitting` at `ExecSQL`, because its own COMMIT
  ends the transaction that applyMigration opened.
* `AgentFactory`. `stopped` is read twice by SpawnAgent; the runtime is its closed flag,
  its map and the window between them, as `AionRuntime` has it. Sending a SIGTERM
  (`signalTerm`) may fail, which the code only logs and which off Linux is all that it
  does (`signals_other.go`); `unsignalled` remembers those workers.
* `RateLimit`. Tokens are integers in units of 1/60 of a request; the code uses float64.
* `Listing`. One store operator per list; the order, the cursor rule and the limit rule
  of each are those of its code. `InsertRow`, `RowLeaves` and `RowReturns` stand for the
  writes of the other modules as a filtered list sees them, `RowDeleted` for the
  executions and deliverables that postgres deletes with their agent or task.

## 3. Runs

All constants are small model values. Deadlock checking is off in every run: a server
without requests, a queue without callers and a bus without publishers may stop.

| Run | Question | Result |
|---|---|---|
| `records` | see below | holds |
| `dispatch_pool` | no spec lost, duplicated, unknown to the queue or spawned beyond the cap; counters of the two mutexes agree; the whole implements `WorkQueue`; an accepted spec settles unless a context is cancelled, the queue closed or all workers jam in Nack; cancelling drains the pool | holds |
| `dispatch_drained_claim` | `queue.go:85`: after ErrQueueClosed the buffer is drained for good | violated |
| `execution_safety` | review before completion, completion time, supervised workers, orderly shutdown, the table only broken by the step of a writer whose read was stale | holds |
| `execution_liveness` | Shutdown returns; after `stop` every driver ends for good | holds |
| `execution_terminal_claim` | `execution.go:213`: terminal states are final | violated |
| `execution_review_claim` | `execution.go:729`: a completed worker takes the execution to review | violated |
| `execution_ctx_claim` | `execution.go:678`: the worker outlives the creating request | violated |
| `aion_runtime` | one result per worker, success only if the worker said so, the last frame decides unless the pipe was closed early, Close kills what it knew of, ended workers are answered for, no Wait outlives Close | holds |
| `aion_reaper_claim` | `process.go:326`: cmd.Wait is purely for cleanup | violated |
| `bus_delivery` | exact replay, at most once, truthful result, Publish returns | holds |
| `bus_concurrent_claim` | `bus.go:94`: safe for concurrent use | violated |

`records` checks, per component:

| Property | Says |
|---|---|
| `CachedIsGranted`, `NoUnseenOverwrite`, `RetirementIsFinal` | the capabilities an agent shows are granted in the join table, although the cached list is written back from an old read, and the two lists are the same unless the last replacement overlapped another; an update overwrites nothing its client has not seen (in postgres: no capabilities and no retirement); a retired agent stays so, but for the one overlap named |
| `IndexIsExact`, `SomebodyStaysAssigned`, `EveryRowHasItsEvent`, `PointerFollowsActive` | the index is the set of active rows; a task once assigned is not left without an assignment; the history has each row once; the shown assignee is the active one unless assignments overlapped |
| `HistoryIsComplete` | versions are 1..n and the main row is the newest or one behind its writer |
| `OnlyStaleCopiesRevert` | a project update changes what it was asked to; only a stale postgres copy undoes another's write |
| `TokenSpentOnce`, `UndisturbedCookieWorks` | a refresh token buys one successor and is dead by then, unless presented twice at once or issued twice in its second; a browser that nobody disturbed can refresh, where a logout under way, or one whose answer was lost, disturbs |
| `SchemaIsAtAVersion` | effects and records of the migrations agree after any crash |
| `NoOrphanWorker`, `AskedBeforeKilled` | Shutdown leaves no worker untold, and kills none that nobody tried to ask, but for replaced handles; a SIGTERM that could not be sent is excused |
| `RateIsExact` | never more than burst plus rate in any window, and no refusal without cause |
| `WalkSkipsNothing`, `WalkRepeatsNothing` | what a complete walk shows, with the exact exceptions of page numbers and of the lists that may not find the row of their cursor |
| `RecordsTypeOK` | shapes of all rows and requests |

Each violated claim is a finding in `PROJECT.json` with the quoted line:

* **dispatch_drained_claim** - Enqueue reads `closed`, unlocks and sends later; Close and
  the last Dequeue fit in between, and the spec is accepted into a queue nobody reads.
* **execution_terminal_claim** - a PATCH that read `review`, a cancel that wrote `failed`,
  then the PATCH's write of `completed`.
* **execution_review_claim** - nothing moves an execution from `assigned` to `running`,
  so the driver's transition to `review` is refused and only logged.
* **execution_ctx_claim** - Spawn gets the request's context and the process runtime
  starts the child with `exec.CommandContext`.
* **aion_reaper_claim** - the child writes its result and exits, the reaper closes the
  pipe before the scanner has read it, and the worker is reported as failed.
* **bus_concurrent_claim** - unsubscribe closes a channel that a Publish has in its
  snapshot.

### Bounds

* `records`: a behaviour exercises one component (`focus`), so the states are the union
  and not the product: the components share no row that a property relates, apart from
  agents claimed by CreateProject, which is an action of `Agents`. Two clients per
  component (three writers of a deliverable, three SpawnAgent calls) give every
  read-check-write race a reader and an interferer; `MaxAgentVersion = 2` allows creation
  and two further writes (two overlapping replacements of the capabilities); one value of
  `AgentDetails` is enough because the status, which is written and merged beside it, has
  several; `MaxAssignments = 3` two supersessions, `MaxVersion = 4` three
  updates; one browser with two refreshes in flight gives one token presented twice;
  `MaxSecond` covers the same second, the next one and expiry; `MaxStarts = 3`
  two restarts of each server; `MaxClock = 7` passes the idle limit and a sweep; three
  list rows make two pages with one row to come or go. The clients c1 and c2 are the same model
  values in all components and are interchangeable, so the run uses symmetry (its
  properties are invariants and action properties).
* `dispatch_pool`: two specs and a one-slot channel make the channel full, so that Enqueue
  and Nack block; two attempts give one retry and one dead-lettering of the same spec;
  two Starts give two overlapping generations of workers. The second generation is the
  second worker that the duplication and jam cases need. `MaxStarts` and `Stoppers` are
  the only bounds on the environment; attempts and counters are bounded by the cap.
* `execution_safety`: one execution with two requests beside its driver. Rows of
  different executions share nothing but the service's shutdown, and every race in the
  code is between a writer and one that interferes between its read and its write; the
  theorems below drop the bound. `PatchMessages = {FALSE}` halves the states: the message
  of a PATCH is only stored. The liveness run has one request, because a second one adds
  no wait.
* `aion_runtime`: one worker, because workers share only Close, and its loop over them is
  a step per worker; two Waits (the second finds the channel empty), two Cancels (both see
  cancelCh open), two frames (`MaxFrames`: one that is read and one that is lost).
* `bus_delivery`: a ring of two slots wraps at the third event; channels of one slot
  overflow at the second; two publishers interleave inside each other's delivery; two
  projects show that delivery stays in the project.

### Fairness

* `Dispatcher`: weak fairness of each worker goroutine and of the second half of Close:
  Go schedules runnable goroutines, and a runtime Wait returns (a worker ends or its
  timeout does). No fairness for callers of Enqueue, Start, Stop or Close. A worker whose
  select is blocked is not enabled, so fairness does not unblock a jam.
* `Execution`: weak fairness of each driver, of each request's own steps and of the
  shutdown goroutine. `DriverWaitError` is always possible in Wait because every Wait is
  called under a timeout and under `stop`; the worker itself gets no fairness, and no
  client is assumed to send anything or to go away.
* `AionRuntime`: weak fairness of every goroutine of the runtime and of the calls in
  progress. A worker need not end; a mock worker whose select has a closed channel does.
  The reaper and the wait timeout get none.
* `EventBus`: weak fairness of a goroutine inside Publish; none for consumers.

## 4. Proofs

Every safety property that a run checks - invariants, action properties and the
refinement - is also a theorem: for every value of the constants, from the
`ASSUME` of its module alone. TLC evaluates these assumptions on the runs. They say that
sizes and caps are naturals (positive where the code makes them so), that `None` and
`Keep` are none of the values they stand beside, that the specs, Waits and Cancels that
are counted are finitely many, as are the ids that a list may show, and, for the limiter, that a bucket idle for
`IdleLimit` would be full again, as it is with the shipped configuration
(1800 * 100 >= 60 * 120). The bounds that TLC needs (`MaxStarts`, `MaxEvents`,
`MaxVersion`, `MaxClock`, ...) are arbitrary naturals there.

| Module | Theorem | States |
|---|---|---|
| `Execution_proofs` | `Invariance` | `Spec => []IInv` |
| | `TypeCorrect`, `CompletedAfterReview`, `CompletionTime`, `WorkersSupervised`, `ShutdownIsOrderly` | `TypeOK`, `CompletedWasInReview`, `TerminalHasCompletedAt`, `NoUnsupervisedWorker`, `OrderlyShutdown` |
| | `TableBrokenOnlyByStaleWrites` | the action property `OnlyStaleWritesBreakTable` |
| | `DrivenOnlyOnce` | the action property `DrivenOnce` |
| `Dispatcher_proofs` | `DispatchInvariant`, `DispatchTypes` | `Spec => []DispatchInv`, `TypeOK` |
| | `NothingLost`, `NothingDuplicated`, `CountersBalance` | `NoSpecLost`, `NoSpecDuplicated`, `StatsBalance` |
| | `WorkQueueImplemented` | `Spec => WQ!Spec`, the refinement |
| | `OnlyJamsStop` | `OnlyAJamStopsThePool` |
| `Aion_proofs` | `AionInvariant`, `AionTypes` | `Spec => []AionInv`, `TypeOK` |
| | `OneAnswer`, `ResultIsLast`, `Survivors` | `OneResult`, `UndisturbedResultIsLast`, `SurvivorsSpawnedLate` |
| `EventBus_proofs` | `EventBusInvariant`, `EventBusTypes` | `Spec => []EventBusInv`, `TypeOK` |
| | `Replay`, `TellsTheTruth` | `ReplayIsRecent`, `PublishTellsTheTruth` |
| | `PublishIsNeverHeldUp`, `SnapshotServedOnce` | `PublishStep` is `StepsTo`, and `CanStep` for every Publish in progress; the action property `SnapshotsServedOnce` |
| `Assignments_proofs` | `AssignInvariant`, `AssignTypes` | `AssignSpec => []AssignInv`, `AssignTypeOK` |
| | `IndexExact`, `StaysAssigned`, `OneEventPerRow`, `PointerFollows` | `IndexIsExact`, `SomebodyStaysAssigned`, `EveryRowHasItsEvent`, `PointerFollowsActive` |
| `Registry_proofs` | `AgentsInvariant`, `CacheIsGranted` | `AgentsSpec => []AgentsInv`, `CachedIsGranted` |
| | `NothingUnseenOverwritten`, `RetiredForGood` | the action properties `NoUnseenOverwrite`, `RetirementIsFinal` |
| | `ProjectsInvariant`, `OnlyStaleReverts` | `ProjectsSpec => []ProjectsInv`, the action property `OnlyStaleCopiesRevert` |
| | `DeliverablesInvariant`, `HistoryComplete` | `DeliverablesSpec => []DeliverablesInv`, `HistoryIsComplete` |
| `Access_proofs` | `SessionsInvariant`, `SpentOnce`, `CookieWorks` | `SessionsSpec => []SessionsInv`, `TokenSpentOnce`, `UndisturbedCookieWorks` |
| | `RateInvariant`, `LimiterIsExact` | `RateSpec => []RateInv`, `RateIsExact` |
| | `ListInvariant`, `NothingSkipped`, `NothingRepeated` | `ListSpec => []ListInv`, `WalkSkipsNothing`, `WalkRepeatsNothing` |
| `Records_proofs` | `MigrationsInvariant`, `MigrationsTypes`, `SchemaVersioned` | `MigrationsSpec => []MigrationsInv`, `MigrationsTypeOK`, `SchemaIsAtAVersion` |
| | `FactoryInvariant`, `NoOrphans`, `AskedFirst` | `FactorySpec => []FactoryInv`, `NoOrphanWorker`, `AskedBeforeKilled` |
| | `ComponentsImplemented` | `RecordsSpec` implies the specification of each of the nine components |
| | `RecordsTypes`, `RecordsAreSafe` | `RecordsTypeOK`; the invariants and action properties of the run, all of `RecordsSpec` |

Hardly any of the properties is inductive by itself. The inductive invariants are defined
at the end of the component's module and were checked by TLC on the constants of its run
before they were proved. What each adds, and why:

**Execution** (`IInv`) adds what the goroutines carry between their steps.

* `Attached` - requests and drivers in progress are about rows that exist, and a pending
  write names a real status. Without it a write could create a row.
* `WritesWereChecked` - the status a pending write was decided on (`seen`) allows it.
  The table property needs it: the write itself looks at nothing.
* `CompletionRestsOnReview` - a row in review is in the history, and so is every
  execution somebody is about to complete. `reviewed` only grows, so a stale write of
  `completed` still rests on a review. The write-back is included: with shared rows it
  can carry `completed`.
* `Handover` - an execution has one creator, no driver while it is being created, and no
  worker before Spawn; a driver past a successful Wait has a worker that ended. This is
  what makes supervision pass from the request to the driver without a gap.
* `ShutdownOrder` - `stop` after the HTTP server, the runtime after `stop`, the result
  after the runtime; a drained server has no requests and never gets one again, so the
  runtime's Close catches every worker there will be. When the server overruns its grace
  this fails, and `OrderlyShutdown` does not claim it: a Spawn past its closed check
  leaves a worker behind.

The proof has one lemma per conjunct. To keep them short, effect lemmas first reduce the
actions to what they may change (`DriverEffect`, `RequestEffect`, `QuietEffect`,
`CreateRowEffect`, `SpawnEffect`, `WritebackEffect`); `Cases` shows that these exhaust
`Next`.

**Dispatcher** (`DispatchInv`). `HandInv` says what a worker at each program counter holds
and whether the in-flight map still has it; `AccountInv`, where a spec can be that was
enqueued. Most steps move no spec, and one lemma deals with all of them; the others move
one spec between the channel, a worker's hands, the map, the dead-letter list and the
acked ones. `SpawnInv` is what makes the counters inductive: the attempts spawned so far
lie before the next, so the pair a worker is about to spawn is new, and
`Cardinality(spawns)` grows with the counter. The refinement maps every step to a step of
one job of `WorkQueue` or to a stutter.

**AionRuntime** (`AionInv`). The result of a worker is counted wherever it can be; it is
made when the done flag is claimed and only moves afterwards. `PumpInv` is needed for
that: an unregistered worker has no pump yet, and a mock worker that is alive is
registered and has its goroutine reading. `PipeInv` relates what was read and what is
still in the pipe to what the child wrote.

**EventBus** (`EventBusInv`). The ring is described backwards from its head, as `Last`
reads it: `RingHolds` says which event each slot holds, so that a push moves every one
back by one, modulo the size. `PubInv` says who of a Publish's snapshot is still to be
served and that the rest was accepted or noted as dropped.

**Assignments** (`AssignInv`). `CallInv` says what each program counter has established
(the superseded row is no longer active, the new row exists and has no event yet).
`PointerInv` is claimed only for tasks whose assignments did not overlap.

**Agents** (`AgentsInv`). What the version that a call has read tells it about the row:
at the same version the compared fields are the same. Every step lets a row only grow
(`Grown`), so that what a call knows stays true. Of the join table it says that a
transaction overtaken by no commit (`alone`) has deleted every row there is, so that its
commit leaves the new list and no more; overtaken, it leaves at least the new list.

**Projects** (`ProjectsInv`). What a request holds is what it read, overlaid with what it
was asked.

**Deliverables** (`HistoryInv`). Between the two writes of every request: the version
numbers are all those up to the main row's, without the first while its creator has yet
to insert it, and with the next while its writer has yet to move the main row; an update
holds a version that is taken or is the next. So an insert that is not refused is the
next version and no other request is at its last write. That the store's list shows the
main row takes two facts: a strictly falling list exists (it counts down), and one as
long as the history shows all of it (pigeonhole).

**Sessions** (`SessionsInv`). A token issued once has one owner: the store, one jar, or
the one refresh whose answer will bring it (`Issued`, `OneJar`, `OnlyHere`). `Rotation`
follows a refresh between its calls. The attempt to prove these properties for several
refreshes per browser showed that the model had allowed only one, so that the case the
properties except, one token presented twice at once, was not reached; it is now.

**RateLimit** (`RateInv`). A bucket holds what the tightest window of its client has left,
or is full. A refused request and the sweeper change nothing a client can tell, the
latter because a dropped bucket would be full.

**Migrations** (`MigrationsInv`) and **AgentFactory** (`FactoryInv`). `InstanceInv` says
what an instance that is at a file has found recorded; without "an instance that creates
the version table is at the first file" it is not inductive. `StopInv` and `WorkerInv`
say who will still signal or kill a worker; workers that Shutdown has yet to signal imply
that somebody is signalling.

**Listing** (`ListInv`). Between two pages a walk knows one thing. By cursor it is the row
of the last page's end: what was there from the start and came before it was seen, and
what was seen does not come after it (`CursorInv`). By number it is how many rows were
shown: without a row that left, a row that was there from the start keeps its `Rank` or
gets a higher one, and one ranked below the number was seen; without a row that came, a
rank only falls, and what was seen is ranked below the number (`NumberInv`). A page is
the rows whose rank lies in its interval, so the steps need that ranks in a finite
order are distinct and without gaps; this is proved by the least and the greatest element
of a finite ordered set, without recursion. The order of rows with the same time is any
injective numbering (`TieOrders`), which the code leaves to a map's iteration or to the
database.

**The composition.** `MCRecords` lets one component move in a behaviour. Each step of it
is a step of one component and leaves the variables of the other eight alone
(`OneComponentMoves`), so every behaviour of `RecordsSpec` is one of each component, and what
is proved of the nine holds of the specification that TLC runs.

### What liveness rests on

Termination needs fairness and is out of the prover's reach, but two of its ingredients
are safety and are proved: that whoever has to move can, and that moving gets nearer to
the end.

* `OnlyJamsStop`: an accepted spec that is not settled, in a pool that nobody cancels or
  closes, leaves some worker with a step to take, unless the pool is jammed. `Blocked`
  spells out the two selects that can wait, and `BlockedWorkersWait` proves that a worker
  waiting in one has no step. `PoolInv` is the invariant it needs: workers leave only
  for a cancellation or Close.
* `PublishIsNeverHeldUp`: a Publish in progress can take its next step whatever is
  unread or closed. The prover has no ENABLED, so the theorem spells it out: `StepsTo`
  is `PublishStep` with the next values of its variables as parameters, the two are
  proved equivalent, and in every state of the invariant values exist that satisfy it
  (`CanStep`; `PublishAlwaysHasAStep` says so of every reachable state). The equivalence fails for a select that waits for a full channel. What it
  rests on is that a snapshot holds only subscribers that have subscribed
  (`SnapshotInv`). `SnapshotServedOnce`: and it takes each subscriber once.
* `DrivenOnlyOnce`: every step of a driver is one less to go (`DriverLeft`), and an
  execution has one driver in its life.

The properties these are about (`SnapshotsServedOnce`, `OnlyAJamStopsThePool`,
`DrivenOnce`) are in no run, where the liveness properties
they serve are checked; TLC checked them, before they were proved, on the constants of
`bus_delivery`, `dispatch_pool` and `execution_safety`.

### Only model-checked

* Liveness: `EverySpecSettlesOrJams`, `CancelDrainsWorkers`, `ShutdownCompletes`,
  `DriversEnd`, `PublishReturns`, `EndedWorkerAnswers`, `CloseReleasesWaits`. Reasoning
  under fairness needs ENABLED, which the prover does not support; what the theorems of
  the previous section say of them is that a step is there and gets nearer to the end,
  not that it is taken.
* The violated claims, which are counterexamples.

## 5. Divergences seen in the code that no run is about

* `dispatcher.go:271`: a second concurrent Stop returns nil at once, while the first is
  still waiting (comment at line 34); Start after Stop begins a second pool beside the
  first (73, 275). The model has both.
* `queue.go:363`: the select of a blocked Nack has no `closeCh` case; the comment at 138
  says that specs of a cancelled context reach the dead-letter list, they go back in
  flight.
* `execution.go:439`: the legacy goroutine goes from assigned to review, an edge the
  table does not have; a PATCH may complete a row in review without the review endpoint.
* `execution.go:367`: the postgres UpdateStatus does not store the instance id; an error
  message given with a non-failed status is kept (`model/execution.go:74`); a PATCH with
  only a message answers 409; a failed Spawn leaves an `assigned` row nobody drives;
  worker rows live in memory also with the postgres store (`postgres/store.go:74`).
* `bus.go:154`: Publish without subscribers returns false; Last returns an empty slice
  where line 84 says nil; concurrent publishers can deliver ids out of order.
* `mock.go:295`: Cancel is called idempotent; two at a time, or one beside Close, can both
  find cancelCh open and both close it. The model has it (`panicked`).
* `postgres/agent_store.go:197`: the comment says that a concurrent writer is detected and
  the version bumped; the statement does not set `version`, so two updates of the same
  version succeed; nor does it set `project_id`, so that a claim by CreateProject has no
  effect there. Its Create writes no `agent_capabilities` rows, and not the column
  `agent_type`, NOT NULL in `migrations/005_create_agents.sql:5`: `Agents` models the Go
  code without that column. A taken name counts retired agents in postgres only.
* `postgres/agent_store.go:246`: the comment says that the join rows, the cached list and
  the version change "all in a single transaction", and `docs/sprint4/data-model.md:132`
  that the store keeps the two lists in sync. At READ COMMITTED two overlapping
  SetCapabilities of one agent with different lists leave the join table with the rows of
  both and the cached list of the last. `CachedIsGranted` states what does hold.
* Deleting a project in postgres deletes its agents, with what was granted to them
  (`migrations/005:3`, `015:9`); in the memory store they stay (`memory.go:335`).
* `agent.go:336`: in the memory store an update with capabilities that overlaps a
  retirement makes the retired agent idle again. `project.go:63`: a claim asks neither for
  the agent's tenant nor for a free name.
* `assignment.go:169`: a refused assignment is said to mutate nothing; in the memory store
  the task row already has the new capabilities. `memory.go:151`: WithTx is said to run
  under the mutex; it does not take it.
* What the shipped schema keeps postgres from: `migrations/004_create_tasks.sql:8`, the
  assignee of a task refers to a user, while the code stores the zero id or an agent's id;
  `postgres/deliverable_store.go:33`, Create does not insert the id that the version row
  refers to; reviews lack a reviewer. Hence tasks, assignments and deliverables over the
  memory store only.
* `auth.go:147`: a refresh in the second of the login issues the same token and then
  deletes it; a restart loses every token, also with postgres (`postgres/store.go:56`).
* `agent_factory.go:342`: Shutdown sends SIGTERM and closes the runtime at once, which
  kills; ShutdownGracePeriod is not used. A SIGTERM that fails is logged and not sent again;
  off Linux every one fails. Handles of ended processes stay tracked.
* `project.go:146`: a second decomposition creates the four tasks again. The memory store's
  project List writes `ActiveAgents` into live rows under a read lock; it counts busy
  agents, postgres counts a status `working` that no agent has.
* `migrate.go:94`: migrations 017, 018, 019, 020, 027 and 028 carry their own BEGIN and
  COMMIT, so that SQL and record are not atomic for them.
* `review.go:129`: the goroutine of a review sets the status of the live row before its
  result; the shutdown does not wait for it.
* `events/state.go` has a second transition table that disagrees with the service's.

## 6. Not modelled, and the plan

Left out for good:

* configuration, routing, error mapping, logging, scripts: no behaviour over time;
* sandbox and orchestrator: container I/O, not wired;
* users, webhooks and deployments: rows that are written once, or whole by one request,
  and that nothing else reacts to;
* reviews: the one asynchronous part, a goroutine with three stub gates that always
  approve; what is hard in it is a data race on the fields of one row;
* code artifacts: the service reads the user from a context key that nothing sets, so its
  operations answer 404 before they change anything;
* the postgres side of tasks, assignments, deliverables and reviews (section 5);
* deletions that cascade to executions and deliverables, except in the lists: a driver
  whose row is gone finds that its update is refused, as for any other error of the store;
* read-only endpoints other than the lists;
* the event state table, which nothing consults, and the frontend, on whose state the
  backend does not rely.

The type invariants of `Dispatcher`, `EventBus` and `AionRuntime` are written for the
proofs; their runs check the properties that rest on them.
