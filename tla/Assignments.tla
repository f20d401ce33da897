---------------------------- MODULE Assignments -----------------------------
(***************************************************************************)
(* Tasks and their assignments to agents over the memory store:            *)
(* handler/task.go, handler/assignment.go, service/task.go,                *)
(* service/assignment.go and the task, assignment and event parts of       *)
(* store/memory.go.                                                        *)
(*                                                                         *)
(* Tasks().GetByID hands out the stored pointer, so the services read and  *)
(* write the live row between store calls; assignments are handed out as   *)
(* copies.  WithTx neither locks nor rolls back: each store call in it is  *)
(* a step of its own.  What an agent's row says (idle, its capabilities)   *)
(* changes meanwhile and is a choice at the step that reads it.            *)
(***************************************************************************)
EXTENDS Naturals, Sequences, FiniteSets, Records

CONSTANTS
    TaskIds,
    Assignees,          \* agents of the tasks' project
    AssignClients,      \* requests in flight
    Skills,             \* capability names
    PatchStatuses,      \* statuses that PATCH bodies ask for
    MaxAssignments      \* bound: assignment rows

TaskStatuses == {"backlog", "ready", "in_progress", "review", "done", "blocked"}
TaskRows == [status : TaskStatuses, assignee : Assignees \cup {None},
             required : SUBSET Skills, deleted : BOOLEAN]

ASSUME AssignmentsAssumption ==
    /\ MaxAssignments \in Nat
    /\ None \notin Assignees /\ None \notin Nat
    /\ \A row \in TaskRows : None # row

VARIABLES
    task,                       \* per id None or its row
    assignments,                \* the assignment rows; a row's id is its index
    activeAssignmentByTask,     \* the index: per task the id of its active row
    assignmentEvents,           \* the history, oldest first
    assignCall,                 \* per client its request
    disturbed                   \* history: tasks whose assignment was not undisturbed

assignVars == <<task, assignments, activeAssignmentByTask, assignmentEvents,
                assignCall, disturbed>>

taskStatusTransitions ==
    [s \in TaskStatuses |->
        CASE s = "backlog"     -> {"ready", "blocked"}
          [] s = "ready"       -> {"in_progress", "blocked"}
          [] s = "in_progress" -> {"review", "blocked"}
          [] s = "review"      -> {"done", "blocked"}
          [] s = "done"        -> {"blocked"}
          [] s = "blocked"     -> TaskStatuses \ {"blocked"}]

AssignmentIds == 1..Len(assignments)
IdleAssign == [pc |-> "idle", task |-> None, agent |-> None, action |-> None,
               prev |-> None, new |-> None]

AssignInit ==
    /\ task = [t \in TaskIds |-> None]
    /\ assignments = <<>>
    /\ activeAssignmentByTask = [t \in TaskIds |-> None]
    /\ assignmentEvents = <<>>
    /\ assignCall = [c \in AssignClients |-> IdleAssign]
    /\ disturbed = {}

\* Tasks().GetByID and Delete find the row.
TaskExists(t) == task[t] # None /\ ~task[t].deleted
AssignAnswered(c) == assignCall' = [assignCall EXCEPT ![c] = IdleAssign]
AssignIdle(c) == assignCall[c].pc = "idle"

-----------------------------------------------------------------------------
\* Tasks.

MemoryTaskCreate(t, row) == task' = [task EXCEPT ![t] = row]
MemoryTaskDelete(t) == task' = [task EXCEPT ![t].deleted = TRUE]

\* CreateTask: the project exists.
CreateTask(t) ==
    /\ task[t] = None
    /\ MemoryTaskCreate(t, [status |-> "backlog", assignee |-> None,
                            required |-> {}, deleted |-> FALSE])
    /\ UNCHANGED <<assignments, activeAssignmentByTask, assignmentEvents, assignCall, disturbed>>

\* UpdateTask: of the fields of the body only the assignee matters here.  The row is
\* written in place; that it may have been deleted changes only the answer.
UpdateTask(t, g) ==
    /\ TaskExists(t)
    /\ task' = [task EXCEPT ![t].assignee = g]
    /\ disturbed' = disturbed \cup {t}
    /\ UNCHANGED <<assignments, activeAssignmentByTask, assignmentEvents, assignCall>>

\* DeleteTask leaves the assignments, the index entry and the events.
DeleteTask(t) ==
    /\ TaskExists(t)
    /\ MemoryTaskDelete(t)
    /\ UNCHANGED <<assignments, activeAssignmentByTask, assignmentEvents, assignCall, disturbed>>

\* UpdateTaskStatus: the check on the live row ...
UpdateTaskStatusCheck(c, t, s) ==
    /\ TaskExists(t)
    /\ s \in taskStatusTransitions[task[t].status]
    /\ assignCall' = [assignCall EXCEPT ![c] =
          [IdleAssign EXCEPT !.pc = "status", !.task = t, !.action = s]]
    /\ UNCHANGED <<task, assignments, activeAssignmentByTask, assignmentEvents, disturbed>>

\* ... and the write, whatever the status is by then.
UpdateTaskStatusWrite(c) ==
    /\ assignCall[c].pc = "status"
    /\ task' = [task EXCEPT ![assignCall[c].task].status = assignCall[c].action]
    /\ AssignAnswered(c)
    /\ UNCHANGED <<assignments, activeAssignmentByTask, assignmentEvents, disturbed>>

-----------------------------------------------------------------------------
\* AssignTaskToAgent.

InAssign(c, t) == /\ assignCall[c].task = t
                  /\ assignCall[c].pc \in {"lookup", "supersede", "create", "event", "pointer"}

\* The reads of the task and the agent, and the requirements of the body
\* written to the live row (before it is known whether the agent fits).
AssignRead(c, t, g, required) ==
    /\ TaskExists(t)
    /\ task' = [task EXCEPT ![t].required = IF required = {} THEN @ ELSE required]
    /\ assignCall' = [assignCall EXCEPT ![c] =
          [IdleAssign EXCEPT !.pc = "decide", !.task = t, !.agent = g]]
    /\ UNCHANGED <<assignments, activeAssignmentByTask, assignmentEvents, disturbed>>

\* ValidateAgentHasCapabilities refuses only a task that requires something.
AssignRefuse(c) ==
    /\ assignCall[c].pc = "decide" /\ task[assignCall[c].task].required # {}
    /\ AssignAnswered(c)
    /\ UNCHANGED <<task, assignments, activeAssignmentByTask, assignmentEvents, disturbed>>

\* The agent fits: the idempotent answer, or assign against reassign.
AssignDecide(c) ==
    LET call == assignCall[c]
        assignee == task[call.task].assignee
    IN  /\ call.pc = "decide"
        /\ \/ assignee = call.agent /\ AssignAnswered(c) /\ UNCHANGED disturbed
           \/ /\ assignee # call.agent
              /\ assignCall' = [assignCall EXCEPT ![c].pc = "lookup",
                    ![c].action = IF assignee = None THEN "assign" ELSE "reassign"]
              /\ disturbed' = IF \E d \in AssignClients : InAssign(d, call.task)
                              THEN disturbed \cup {call.task} ELSE disturbed
        /\ UNCHANGED <<task, assignments, activeAssignmentByTask, assignmentEvents>>

GetActiveByTask(t) == activeAssignmentByTask[t]

AssignLookup(c) ==
    LET prev == GetActiveByTask(assignCall[c].task) IN
    /\ assignCall[c].pc = "lookup"
    /\ assignCall' = [assignCall EXCEPT ![c].prev = prev,
                         ![c].pc = IF prev = None THEN "create" ELSE "supersede"]
    /\ UNCHANGED <<task, assignments, activeAssignmentByTask, assignmentEvents, disturbed>>

\* Mistake: the index entry of the task goes whichever row it names.
MemoryAssignmentUpdateAny(id, status) ==
    /\ assignments' = [assignments EXCEPT ![id].status = status]
    /\ activeAssignmentByTask' =
          [activeAssignmentByTask EXCEPT ![assignments[id].task] = None]

\* Update of the assignment store to a status other than active: the index entry
\* goes only if it is this row's.
MemoryAssignmentUpdate(id, status) ==
    LET t == assignments[id].task IN
    /\ assignments' = [assignments EXCEPT ![id].status = status]
    /\ activeAssignmentByTask' =
          [activeAssignmentByTask EXCEPT ![t] = IF @ = id THEN None ELSE @]

\* Mistake: a request may end between the two store calls.
AssignSupersedeCancelled(c) ==
    /\ assignCall[c].pc = "supersede"
    /\ MemoryAssignmentUpdate(assignCall[c].prev, "superseded")
    /\ AssignAnswered(c) \/ assignCall' = [assignCall EXCEPT ![c].pc = "create"]
    /\ UNCHANGED <<task, assignmentEvents, disturbed>>

AssignSupersede(c) ==
    /\ assignCall[c].pc = "supersede"
    /\ MemoryAssignmentUpdate(assignCall[c].prev, "superseded")
    /\ assignCall' = [assignCall EXCEPT ![c].pc = "create"]
    /\ UNCHANGED <<task, assignmentEvents, disturbed>>

\* Create of the assignment store: at most one active row per task.
MemoryAssignmentCreate(t, g) ==
    /\ assignments' = Append(assignments, [task |-> t, agent |-> g, status |-> "active"])
    /\ activeAssignmentByTask' = [activeAssignmentByTask EXCEPT ![t] = Len(assignments) + 1]

AssignCreate(c) ==
    LET call == assignCall[c] IN
    /\ call.pc = "create"
    /\ \/ /\ activeAssignmentByTask[call.task] # None       \* ErrAlreadyExists
          /\ AssignAnswered(c)
          /\ UNCHANGED <<assignments, activeAssignmentByTask>>
       \/ /\ activeAssignmentByTask[call.task] = None /\ Len(assignments) < MaxAssignments
          /\ MemoryAssignmentCreate(call.task, call.agent)
          /\ assignCall' = [assignCall EXCEPT ![c].pc = "event", ![c].new = Len(assignments) + 1]
    /\ UNCHANGED <<task, assignmentEvents, disturbed>>

MemoryEventAppend(ev) == assignmentEvents' = Append(assignmentEvents, ev)

\* Mistake: the history keeps the first assignment only.
AssignEventFirst(c) ==
    LET call == assignCall[c] IN
    /\ call.pc = "event"
    /\ IF call.action = "assign"
       THEN MemoryEventAppend([assignment |-> call.new, task |-> call.task, action |-> call.action])
       ELSE UNCHANGED assignmentEvents
    /\ assignCall' = [assignCall EXCEPT ![c].pc = "pointer"]
    /\ UNCHANGED <<task, assignments, activeAssignmentByTask, disturbed>>

AssignEvent(c) ==
    LET call == assignCall[c] IN
    /\ call.pc = "event"
    /\ MemoryEventAppend([assignment |-> call.new, task |-> call.task, action |-> call.action])
    /\ assignCall' = [assignCall EXCEPT ![c].pc = "pointer"]
    /\ UNCHANGED <<task, assignments, activeAssignmentByTask, disturbed>>

\* Mistake: an assignee that is set is kept.
AssignPointerOnce(c) ==
    /\ assignCall[c].pc = "pointer"
    /\ task' = [task EXCEPT ![assignCall[c].task].assignee =
                              IF @ = None THEN assignCall[c].agent ELSE @]
    /\ AssignAnswered(c)
    /\ UNCHANGED <<assignments, activeAssignmentByTask, assignmentEvents, disturbed>>

\* The task row, outside of WithTx; a deleted task makes it a 500.
AssignPointer(c) ==
    /\ assignCall[c].pc = "pointer"
    /\ task' = [task EXCEPT ![assignCall[c].task].assignee = assignCall[c].agent]
    /\ AssignAnswered(c)
    /\ UNCHANGED <<assignments, activeAssignmentByTask, assignmentEvents, disturbed>>

-----------------------------------------------------------------------------
\* The handlers: a client has one request at a time.

TaskHandlerCreate(c, t) == AssignIdle(c) /\ CreateTask(t)
TaskHandlerUpdate(c, t, g) == AssignIdle(c) /\ UpdateTask(t, g)
TaskHandlerDelete(c, t) == AssignIdle(c) /\ DeleteTask(t)
TaskHandlerUpdateStatus(c, t, s) == AssignIdle(c) /\ UpdateTaskStatusCheck(c, t, s)
AssignTask(c, t, g, required) == AssignIdle(c) /\ AssignRead(c, t, g, required)

AssignNext ==
    \E c \in AssignClients :
        \/ \E t \in TaskIds :
              \/ TaskHandlerCreate(c, t) \/ TaskHandlerDelete(c, t)
              \/ \E s \in PatchStatuses : TaskHandlerUpdateStatus(c, t, s)
              \/ \E g \in Assignees :
                    \/ TaskHandlerUpdate(c, t, g)
                    \/ \E required \in SUBSET Skills : AssignTask(c, t, g, required)
        \/ UpdateTaskStatusWrite(c)
        \/ AssignRefuse(c) \/ AssignDecide(c) \/ AssignLookup(c) \/ AssignSupersede(c)
        \/ AssignCreate(c) \/ AssignEvent(c) \/ AssignPointer(c)

AssignSpec == AssignInit /\ [][AssignNext]_assignVars

-----------------------------------------------------------------------------
\* Properties.

AssignPCs == {"idle", "status", "decide", "lookup", "supersede", "create", "event", "pointer"}
AssignmentRows == [task : TaskIds, agent : Assignees, status : {"active", "superseded"}]
AssignmentEvents == [assignment : Nat, task : TaskIds, action : {"assign", "reassign"}]
AssignCalls == [pc : AssignPCs, task : TaskIds \cup {None}, agent : Assignees \cup {None},
                action : TaskStatuses \cup {"assign", "reassign", None}, prev : Nat \cup {None},
                new : Nat \cup {None}]

AssignTypeOK ==
    /\ task \in [TaskIds -> TaskRows \cup {None}]
    /\ assignments \in Seq(AssignmentRows)
    /\ activeAssignmentByTask \in [TaskIds -> AssignmentIds \cup {None}]
    /\ assignmentEvents \in Seq(AssignmentEvents)
    /\ assignCall \in [AssignClients -> AssignCalls]
    /\ disturbed \subseteq TaskIds

\* The index that Create trusts names exactly the active row of each task,
\* however many requests supersede and create at once: no task has two active
\* assignments and none is missing from the index.
IndexIsExact ==
    \A t \in TaskIds :
        {i \in AssignmentIds : assignments[i].task = t /\ assignments[i].status = "active"}
            = {activeAssignmentByTask[t]} \ {None}

\* A task that was ever assigned has an active assignment, or a request that
\* superseded the last one is just about to create the next: although WithTx
\* cannot roll back, no interleaving leaves the task without one.
SomebodyStaysAssigned ==
    \A t \in TaskIds :
        (activeAssignmentByTask[t] = None /\ \E i \in AssignmentIds : assignments[i].task = t) =>
            \E c \in AssignClients : /\ assignCall[c].pc = "create" /\ assignCall[c].task = t
                                     /\ assignCall[c].prev # None

\* The history accounts for every assignment row exactly once, apart from a row
\* whose creator is about to append its event.
EveryRowHasItsEvent ==
    \A i \in AssignmentIds :
        Cardinality({e \in 1..Len(assignmentEvents) : assignmentEvents[e].assignment = i}) =
            IF \E c \in AssignClients : assignCall[c].pc = "event" /\ assignCall[c].new = i
            THEN 0 ELSE 1

\* The assignee shown on the task is the agent of its active assignment, once
\* nobody is assigning it any more; only overlapping assignments or a PUT that
\* sets the assignee itself can make the two differ.
PointerFollowsActive ==
    \A t \in TaskIds \ disturbed :
        (task[t] # None /\ ~\E c \in AssignClients : InAssign(c, t)) =>
            task[t].assignee = IF activeAssignmentByTask[t] = None THEN None
                               ELSE assignments[activeAssignmentByTask[t]].agent

-----------------------------------------------------------------------------
\* What makes these inductive.

\* A request in progress is about a task that exists or existed; the row it
\* looked up and the row it created are rows of that task.
CallInv(c) ==
    LET call == assignCall[c] IN
    /\ call.pc # "idle" => call.task \in TaskIds /\ task[call.task] \in TaskRows
    /\ call.pc = "status" => call.action \in TaskStatuses
    /\ call.pc \notin {"idle", "status"} => call.agent \in Assignees
    /\ call.pc \in {"lookup", "supersede", "create", "event", "pointer"} =>
          call.action \in {"assign", "reassign"}
    /\ call.pc = "supersede" => call.prev # None
    /\ call.pc \in {"supersede", "create"} /\ call.prev # None =>
          call.prev \in AssignmentIds /\ assignments[call.prev].task = call.task
    /\ call.pc \in {"event", "pointer"} =>
          /\ call.new \in AssignmentIds
          /\ assignments[call.new].task = call.task /\ assignments[call.new].agent = call.agent

\* Every row has an event or a client about to append it, never both and
\* never twice; rows and events are about tasks and rows that exist.
EventInv ==
    /\ \A i \in AssignmentIds : task[assignments[i].task] \in TaskRows
    /\ \A e \in 1..Len(assignmentEvents) : assignmentEvents[e].assignment \in AssignmentIds
    /\ \A e, f \in 1..Len(assignmentEvents) :
          assignmentEvents[e].assignment = assignmentEvents[f].assignment => e = f
    /\ \A c, d \in AssignClients :
          (/\ assignCall[c].pc = "event" /\ assignCall[d].pc = "event"
           /\ assignCall[c].new = assignCall[d].new) => c = d
    /\ \A c \in AssignClients, e \in 1..Len(assignmentEvents) :
          assignCall[c].pc = "event" => assignCall[c].new # assignmentEvents[e].assignment
    /\ \A i \in AssignmentIds :
          \/ \E c \in AssignClients : assignCall[c].pc = "event" /\ assignCall[c].new = i
          \/ \E e \in 1..Len(assignmentEvents) : assignmentEvents[e].assignment = i

ActiveAgent(t) == IF activeAssignmentByTask[t] = None THEN None
                  ELSE assignments[activeAssignmentByTask[t]].agent

\* While a task is undisturbed, one client at most assigns it, what that client
\* knows of the index is true, and the assignee changes only at its last step.
PointerInv(t) ==
    /\ \A c, d \in AssignClients : InAssign(c, t) /\ InAssign(d, t) => c = d
    /\ \A c \in AssignClients : assignCall[c].task = t =>
          /\ assignCall[c].pc = "supersede" => activeAssignmentByTask[t] = assignCall[c].prev
          /\ assignCall[c].pc = "create" => activeAssignmentByTask[t] = None
          /\ assignCall[c].pc \in {"event", "pointer"} => activeAssignmentByTask[t] = assignCall[c].new
    /\ task[t] \in TaskRows =>
          \/ \E c \in AssignClients : /\ assignCall[c].task = t
                                      /\ assignCall[c].pc \in {"create", "event", "pointer"}
          \/ task[t].assignee = ActiveAgent(t)

AssignInv ==
    /\ AssignTypeOK /\ IndexIsExact /\ SomebodyStaysAssigned /\ EventInv
    /\ \A c \in AssignClients : CallInv(c)
    /\ \A t \in TaskIds \ disturbed : PointerInv(t)
=============================================================================
