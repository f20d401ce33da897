------------------------- MODULE Assignments_proofs -------------------------
(***************************************************************************)
(* Proofs about tasks and their assignments, for every number of tasks,    *)
(* agents, concurrent requests and assignment rows.                        *)
(*                                                                         *)
(* The inductive invariant is AssignInv of module Assignments.  Most steps *)
(* leave the rows, the index and the history alone: RowsKept says what     *)
(* they may do, and RowsKeptInv proves for all of them at once every       *)
(* conjunct but PointerInv.  The three steps that write rows, index or     *)
(* history (supersede, create, event) have a lemma each.                   *)
(***************************************************************************)
EXTENDS Assignments, FiniteSetTheorems, TLAPS

\* No task, no row, no event, no request.
LEMMA AssignInitially == AssignInit => AssignInv
  <1> SUFFICES ASSUME AssignInit PROVE AssignInv
    OBVIOUS
  <1> USE AssignmentsAssumption DEF AssignInit, AssignmentIds
  <1>1. AssignTypeOK
    BY DEF AssignTypeOK, IdleAssign, AssignCalls, AssignPCs
  <1>2. Len(assignments) = 0 /\ Len(assignmentEvents) = 0
    OBVIOUS
  <1>3. IndexIsExact
    BY <1>2 DEF IndexIsExact
  <1>4. SomebodyStaysAssigned
    BY <1>2 DEF SomebodyStaysAssigned
  <1>5. EventInv
    BY <1>2 DEF EventInv, IdleAssign
  <1>6. ASSUME NEW c \in AssignClients PROVE CallInv(c)
    BY DEF CallInv, IdleAssign
  <1>7. ASSUME NEW t \in TaskIds PROVE PointerInv(t)
    BY DEF PointerInv, InAssign, IdleAssign
  <1>8. QED
    BY <1>1, <1>3, <1>4, <1>5, <1>6, <1>7 DEF AssignInv

-----------------------------------------------------------------------------
\* Effects.

\* Writes to one field of a task's row.
LEMMA TaskRowWrite ==
    ASSUME NEW row \in TaskRows
    PROVE  /\ \A s \in TaskStatuses : /\ [row EXCEPT !.status = s] \in TaskRows
                                      /\ [row EXCEPT !.status = s].assignee = row.assignee
           /\ \A g \in Assignees \cup {None} : /\ [row EXCEPT !.assignee = g] \in TaskRows
                                               /\ [row EXCEPT !.assignee = g].assignee = g
           /\ \A R \in SUBSET Skills : /\ [row EXCEPT !.required = R] \in TaskRows
                                       /\ [row EXCEPT !.required = R].assignee = row.assignee
           /\ [row EXCEPT !.deleted = TRUE] \in TaskRows
           /\ [row EXCEPT !.deleted = TRUE].assignee = row.assignee
  BY DEF TaskRows

\* An idle client's record.
LEMMA IdleAssignType == IdleAssign \in AssignCalls /\ IdleAssign.pc = "idle"
  BY DEF IdleAssign, AssignCalls, AssignPCs

\* A row of the table is a row.
LEMMA RowOfTable ==
    ASSUME AssignTypeOK, NEW i \in AssignmentIds
    PROVE  /\ i \in Nat /\ assignments[i] \in AssignmentRows
           /\ assignments[i].task \in TaskIds /\ assignments[i].agent \in Assignees
  <1>1. i \in 1..Len(assignments) /\ assignments \in Seq(AssignmentRows)
    BY DEF AssignTypeOK, AssignmentIds
  <1>2. assignments[i] \in AssignmentRows
    BY <1>1
  <1>3. QED
    BY <1>1, <1>2 DEF AssignmentRows

\* The row of t becomes row; no other row changes.
TaskWrite(t, row) ==
    /\ row \in TaskRows
    /\ task'[t] = row /\ \A u \in TaskIds \ {t} : task'[u] = task[u]
    /\ task' \in [TaskIds -> TaskRows \cup {None}]

\* The record of c becomes call; no other client's changes.
RequestWrites(c, call) ==
    /\ call \in AssignCalls
    /\ assignCall'[c] = call /\ \A d \in AssignClients \ {c} : assignCall'[d] = assignCall[d]
    /\ assignCall' \in [AssignClients -> AssignCalls]

\* What a step of c may do that writes no row, index entry or event.
RowsKept(c) ==
    /\ UNCHANGED <<assignments, activeAssignmentByTask, assignmentEvents>>
    /\ UNCHANGED task \/ \E t \in TaskIds, row \in TaskRows : TaskWrite(t, row)
    /\ \E call \in AssignCalls : RequestWrites(c, call)
    /\ disturbed \subseteq disturbed' /\ disturbed' \subseteq TaskIds
    /\ assignCall[c].pc # "event" /\ assignCall'[c].pc # "event"
    /\ assignCall[c].pc = "create" => activeAssignmentByTask[assignCall[c].task] # None
    /\ CallInv(c)'

\* Such a step keeps everything but the assignee pointers.
LEMMA RowsKeptInv ==
    ASSUME AssignInv, NEW c \in AssignClients, RowsKept(c)
    PROVE  /\ AssignTypeOK' /\ IndexIsExact' /\ SomebodyStaysAssigned' /\ EventInv'
           /\ \A d \in AssignClients : CallInv(d)'
  <1> USE DEF AssignInv, RowsKept, AssignmentIds
  <1>1. task' \in [TaskIds -> TaskRows \cup {None}]
    BY DEF TaskWrite, AssignTypeOK
  <1>2. \A t \in TaskIds : task[t] \in TaskRows => task'[t] \in TaskRows
    BY DEF TaskWrite, AssignTypeOK
  <1>3. /\ assignCall' \in [AssignClients -> AssignCalls]
        /\ \A d \in AssignClients \ {c} : assignCall'[d] = assignCall[d]
    BY DEF RequestWrites
  <1>4. AssignTypeOK'
    BY <1>1, <1>3 DEF AssignTypeOK
  <1>5. IndexIsExact'
    BY DEF IndexIsExact
  <1>6. SomebodyStaysAssigned'
    BY <1>3 DEF SomebodyStaysAssigned
  <1>7. EventInv'
    <2>1. \A i \in AssignmentIds : assignments[i].task \in TaskIds
      BY RowOfTable
    <2>2. \A i \in AssignmentIds : task'[assignments[i].task] \in TaskRows
      BY <2>1, <1>2 DEF EventInv
    <2>3. \A d \in AssignClients : assignCall'[d].pc = "event" => assignCall'[d] = assignCall[d]
      BY <1>3
    <2>4. \A d \in AssignClients : assignCall[d].pc = "event" => assignCall'[d] = assignCall[d]
      BY <1>3
    <2>5. QED
      BY <2>2, <2>3, <2>4 DEF EventInv
  <1>8. ASSUME NEW d \in AssignClients PROVE CallInv(d)'
    <2>1. CASE d = c
      BY <2>1
    <2>2. CASE d # c
      BY <2>2, <1>2, <1>3 DEF CallInv
    <2>3. QED
      BY <2>1, <2>2
  <1>9. QED
    BY <1>4, <1>5, <1>6, <1>7, <1>8

\* An undisturbed task whose row is not written by a client that is not in
\* AssignTaskToAgent for it keeps what its pointer means.
LEMMA PointerKept ==
    ASSUME AssignInv, NEW c \in AssignClients, RowsKept(c), NEW t \in TaskIds \ disturbed,
           task'[t] = task[t] \/ (/\ task[t] \in TaskRows /\ task'[t] \in TaskRows
                                 /\ task'[t].assignee = task[t].assignee),
           ~InAssign(c, t), ~InAssign(c, t)'
    PROVE  PointerInv(t)'
  <1>1. PointerInv(t)
    BY DEF AssignInv
  <1>2. \A d \in AssignClients \ {c} : assignCall'[d] = assignCall[d]
    BY DEF RowsKept, RequestWrites
  <1>3. ActiveAgent(t)' = ActiveAgent(t)
    BY DEF ActiveAgent, RowsKept
  <1>4. \A d \in AssignClients : InAssign(d, t)' => InAssign(d, t) /\ assignCall'[d] = assignCall[d]
    BY <1>2 DEF InAssign
  <1>5. \A d \in AssignClients : InAssign(d, t) => InAssign(d, t)' /\ assignCall'[d] = assignCall[d]
    BY <1>2 DEF InAssign
  <1>6. \A d \in AssignClients : assignCall[d].task = t /\ assignCall[d].pc \in {"create", "event", "pointer"}
                                  => assignCall'[d] = assignCall[d]
    BY <1>5 DEF InAssign
  <1>7. \A d \in AssignClients : assignCall'[d].task = t /\ assignCall'[d].pc \in
                       {"lookup", "supersede", "create", "event", "pointer"}
                                  => assignCall'[d] = assignCall[d]
    BY <1>4 DEF InAssign
  <1>8. activeAssignmentByTask' = activeAssignmentByTask
    BY DEF RowsKept
  <1>9. QED
    BY <1>1, <1>3, <1>4, <1>6, <1>7, <1>8 DEF PointerInv

-----------------------------------------------------------------------------
\* The steps.

\* CreateTask: the new row has no assignee, and no assignment is about it.
LEMMA CreateTaskStep ==
    ASSUME AssignInv, NEW c \in AssignClients, NEW t \in TaskIds, TaskHandlerCreate(c, t)
    PROVE  AssignInv'
  <1> DEFINE row == [status |-> "backlog", assignee |-> None, required |-> {}, deleted |-> FALSE]
  <1>1. row \in TaskRows /\ row.assignee = None
    BY DEF TaskRows, TaskStatuses
  <1>2. TaskWrite(t, row)
    BY <1>1 DEF AssignInv, AssignTypeOK, TaskHandlerCreate, CreateTask, MemoryTaskCreate, TaskWrite
  <1>3. RequestWrites(c, assignCall[c])
    BY DEF AssignInv, AssignTypeOK, TaskHandlerCreate, CreateTask, RequestWrites
  <1>4. RowsKept(c)
    BY <1>2, <1>3, <1>1 DEF AssignInv, AssignTypeOK, RowsKept, TaskHandlerCreate, CreateTask, AssignIdle, CallInv
  <1>5. activeAssignmentByTask[t] = None
    <2>1. task[t] \notin TaskRows
      BY AssignmentsAssumption DEF TaskHandlerCreate, CreateTask
    <2>2. \A i \in AssignmentIds : assignments[i].task # t
      BY <2>1 DEF AssignInv, EventInv
    <2>3. QED
      BY <2>2 DEF AssignInv, IndexIsExact
  <1>6. ASSUME NEW u \in TaskIds \ disturbed' PROVE PointerInv(u)'
    <2>0. u \in TaskIds \ disturbed
      BY DEF TaskHandlerCreate, CreateTask
    <2>1. CASE u = t
      <3>1. \A d \in AssignClients : ~(assignCall[d].pc # "idle" /\ assignCall[d].task = t)
        BY AssignmentsAssumption DEF AssignInv, CallInv, TaskHandlerCreate, CreateTask
      <3>2. task'[t].assignee = ActiveAgent(t)'
        BY <1>1, <1>2, <1>5 DEF TaskWrite, ActiveAgent, TaskHandlerCreate, CreateTask
      <3>3. assignCall' = assignCall
        BY DEF TaskHandlerCreate, CreateTask
      <3>4. QED
        BY <2>1, <3>1, <3>2, <3>3 DEF PointerInv, InAssign
    <2>2. CASE u # t
      BY <2>0, <2>2, <1>2, <1>4, PointerKept DEF TaskWrite, TaskHandlerCreate, CreateTask, AssignIdle, InAssign
    <2>3. QED
      BY <2>1, <2>2
  <1>7. QED
    BY <1>4, <1>6, RowsKeptInv DEF AssignInv

\* DeleteTask, the check of UpdateTaskStatus and the reads of AssignTaskToAgent:
\* an idle client, which writes at most other fields of the row.
LEMMA HandlerStep ==
    ASSUME AssignInv, NEW c \in AssignClients, NEW t \in TaskIds,
           \/ TaskHandlerDelete(c, t)
           \/ \E s \in PatchStatuses : TaskHandlerUpdateStatus(c, t, s)
           \/ \E g \in Assignees, required \in SUBSET Skills : AssignTask(c, t, g, required)
    PROVE  AssignInv'
  <1>1. task[t] \in TaskRows /\ task \in [TaskIds -> TaskRows \cup {None}]
    BY DEF AssignInv, AssignTypeOK, TaskHandlerDelete, DeleteTask, TaskHandlerUpdateStatus,
           UpdateTaskStatusCheck, AssignTask, AssignRead, TaskExists
  <1>2. /\ assignCall[c].pc = "idle" /\ disturbed' = disturbed
        /\ UNCHANGED <<assignments, activeAssignmentByTask, assignmentEvents>>
    BY DEF TaskHandlerDelete, DeleteTask, TaskHandlerUpdateStatus, UpdateTaskStatusCheck,
           AssignTask, AssignRead, AssignIdle
  <1>3. /\ UNCHANGED task \/ \E row \in TaskRows : TaskWrite(t, row)
        /\ task'[t] \in TaskRows /\ task'[t].assignee = task[t].assignee
        /\ \A u \in TaskIds \ {t} : task'[u] = task[u]
    <2>1. CASE TaskHandlerDelete(c, t)
      <3>1. TaskWrite(t, [task[t] EXCEPT !.deleted = TRUE])
        BY <1>1, <2>1, TaskRowWrite
        DEF TaskHandlerDelete, DeleteTask, MemoryTaskDelete, TaskWrite, TaskRows
      <3>2. QED
        BY <1>1, <3>1, TaskRowWrite DEF TaskWrite, TaskRows
    <2>2. ASSUME NEW s \in PatchStatuses, TaskHandlerUpdateStatus(c, t, s)
          PROVE  UNCHANGED task
      BY <2>2 DEF TaskHandlerUpdateStatus, UpdateTaskStatusCheck
    <2>3. ASSUME NEW g \in Assignees, NEW required \in SUBSET Skills, AssignTask(c, t, g, required)
          PROVE  \E R \in SUBSET Skills : TaskWrite(t, [task[t] EXCEPT !.required = R])
      <3> DEFINE R == IF required = {} THEN task[t].required ELSE required
      <3>1. R \in SUBSET Skills
        BY <1>1 DEF TaskRows
      <3>2. [task[t] EXCEPT !.required = R] \in TaskRows
        BY <1>1, <3>1, TaskRowWrite DEF TaskRows
      <3>3. task' = [task EXCEPT ![t] = [task[t] EXCEPT !.required = R]]
        BY <1>1, <2>3 DEF AssignTask, AssignRead
      <3> HIDE DEF R
      <3>4. TaskWrite(t, [task[t] EXCEPT !.required = R])
        BY <1>1, <3>2, <3>3 DEF TaskWrite
      <3>5. QED
        BY <3>1, <3>4
    <2>4. ASSUME NEW R \in SUBSET Skills, TaskWrite(t, [task[t] EXCEPT !.required = R])
          PROVE  task'[t].assignee = task[t].assignee
      BY <1>1, <2>4, TaskRowWrite DEF TaskWrite, TaskRows
    <2>5. QED
      BY <1>1, <2>1, <2>2, <2>3, <2>4 DEF TaskWrite
  <1> DEFINE Asks(call) == /\ RequestWrites(c, call)
                           /\ \/ call = assignCall[c]
                              \/ call.pc = "status" /\ call.task = t /\ call.action \in TaskStatuses
                              \/ call.pc = "decide" /\ call.task = t /\ call.agent \in Assignees
  <1>4. \E call \in AssignCalls : Asks(call)
    <2>0. assignCall \in [AssignClients -> AssignCalls]
      BY DEF AssignInv, AssignTypeOK
    <2>1. CASE TaskHandlerDelete(c, t)
      BY <2>0, <2>1 DEF TaskHandlerDelete, DeleteTask, RequestWrites
    <2>2. ASSUME NEW s \in PatchStatuses, TaskHandlerUpdateStatus(c, t, s)
          PROVE  \E call \in AssignCalls : Asks(call)
      <3> DEFINE call == [IdleAssign EXCEPT !.pc = "status", !.task = t, !.action = s]
      <3>1. s \in TaskStatuses
        BY <1>1, <2>2 DEF TaskHandlerUpdateStatus, UpdateTaskStatusCheck, taskStatusTransitions,
                          TaskRows, TaskStatuses
      <3>2. /\ call \in AssignCalls /\ call.pc = "status" /\ call.task = t /\ call.action = s
        BY <3>1 DEF IdleAssign, AssignCalls, AssignPCs
      <3>3. assignCall' = [assignCall EXCEPT ![c] = call]
        BY <2>2 DEF TaskHandlerUpdateStatus, UpdateTaskStatusCheck
      <3> HIDE DEF call
      <3>4. RequestWrites(c, call)
        BY <2>0, <3>2, <3>3 DEF RequestWrites
      <3>5. QED
        BY <3>1, <3>2, <3>4
    <2>3. ASSUME NEW g \in Assignees, NEW required \in SUBSET Skills, AssignTask(c, t, g, required)
          PROVE  \E call \in AssignCalls : Asks(call)
      <3> DEFINE call == [IdleAssign EXCEPT !.pc = "decide", !.task = t, !.agent = g]
      <3>1. call \in AssignCalls /\ call.pc = "decide" /\ call.task = t /\ call.agent = g
        BY DEF IdleAssign, AssignCalls, AssignPCs
      <3>2. assignCall' = [assignCall EXCEPT ![c] = call]
        BY <2>3 DEF AssignTask, AssignRead
      <3> HIDE DEF call
      <3>3. RequestWrites(c, call)
        BY <2>0, <3>1, <3>2 DEF RequestWrites
      <3>4. QED
        BY <3>1, <3>3
    <2>4. QED
      BY <2>1, <2>2, <2>3
  <1>5. RowsKept(c)
    BY <1>1, <1>2, <1>3, <1>4 DEF RowsKept, RequestWrites, CallInv, AssignInv, AssignTypeOK
  <1>6. ASSUME NEW u \in TaskIds \ disturbed' PROVE PointerInv(u)'
    <2>1. assignCall'[c].pc \in {"idle", "status", "decide"}
      BY <1>2, <1>4 DEF RequestWrites
    <2>2. ~InAssign(c, u) /\ ~InAssign(c, u)'
      BY <1>2, <2>1 DEF InAssign
    <2>3. QED
      BY <1>1, <1>2, <1>3, <1>5, <2>2, PointerKept
  <1>7. QED
    BY <1>5, <1>6, RowsKeptInv DEF AssignInv

\* UpdateTask: the task is disturbed.
LEMMA UpdateTaskStep ==
    ASSUME AssignInv, NEW c \in AssignClients, NEW t \in TaskIds, NEW g \in Assignees,
           TaskHandlerUpdate(c, t, g)
    PROVE  AssignInv'
  <1>1. task[t] \in TaskRows /\ task \in [TaskIds -> TaskRows \cup {None}]
    BY DEF AssignInv, AssignTypeOK, TaskHandlerUpdate, UpdateTask, TaskExists
  <1>2. TaskWrite(t, [task[t] EXCEPT !.assignee = g])
    BY <1>1, TaskRowWrite DEF TaskHandlerUpdate, UpdateTask, TaskWrite, TaskRows
  <1>3. RequestWrites(c, assignCall[c])
    BY DEF AssignInv, AssignTypeOK, TaskHandlerUpdate, UpdateTask, RequestWrites
  <1>4. RowsKept(c)
    BY <1>2, <1>3 DEF RowsKept, TaskHandlerUpdate, UpdateTask, AssignIdle, CallInv, AssignInv,
                      AssignTypeOK, TaskWrite, RequestWrites
  <1>5. ASSUME NEW u \in TaskIds \ disturbed' PROVE PointerInv(u)'
    <2>1. u # t /\ u \in TaskIds \ disturbed /\ assignCall'[c] = assignCall[c]
      BY <1>3 DEF TaskHandlerUpdate, UpdateTask, RequestWrites
    <2>2. QED
      BY <1>2, <1>4, <2>1, PointerKept DEF TaskWrite, TaskHandlerUpdate, AssignIdle, InAssign
  <1>6. QED
    BY <1>4, <1>5, RowsKeptInv DEF AssignInv

\* A client that is answered holds nothing.
LEMMA AnsweredWrite ==
    ASSUME AssignInv, NEW c \in AssignClients, AssignAnswered(c)
    PROVE  RequestWrites(c, IdleAssign) /\ CallInv(c)' /\ assignCall'[c].pc = "idle"
  BY IdleAssignType DEF AssignInv, AssignTypeOK, AssignAnswered, RequestWrites, CallInv

\* The write of UpdateTaskStatus, and a refused assignment.
LEMMA StatusWriteStep ==
    ASSUME AssignInv, NEW c \in AssignClients, UpdateTaskStatusWrite(c) \/ AssignRefuse(c)
    PROVE  AssignInv'
  <1>0. PICK t \in TaskIds : t = assignCall[c].task
    BY DEF AssignInv, CallInv, UpdateTaskStatusWrite, AssignRefuse
  <1>1. /\ assignCall[c].pc \in {"status", "decide"} /\ t = assignCall[c].task /\ task[t] \in TaskRows
        /\ task \in [TaskIds -> TaskRows \cup {None}]
    BY <1>0 DEF AssignInv, AssignTypeOK, CallInv, UpdateTaskStatusWrite, AssignRefuse
  <1>2. /\ RequestWrites(c, IdleAssign) /\ CallInv(c)' /\ assignCall'[c].pc = "idle"
        /\ UNCHANGED <<assignments, activeAssignmentByTask, assignmentEvents, disturbed>>
    BY AnsweredWrite DEF UpdateTaskStatusWrite, AssignRefuse
  <1>3. UNCHANGED task \/ \E s \in TaskStatuses : TaskWrite(t, [task[t] EXCEPT !.status = s])
    <2>1. CASE UpdateTaskStatusWrite(c)
      <3>1. PICK s \in TaskStatuses : s = assignCall[c].action
        BY <2>1 DEF AssignInv, CallInv, UpdateTaskStatusWrite
      <3>2. task' = [task EXCEPT ![t] = [task[t] EXCEPT !.status = s]]
        BY <1>1, <2>1, <3>1 DEF UpdateTaskStatusWrite
      <3>3. [task[t] EXCEPT !.status = s] \in TaskRows
        BY <1>1, TaskRowWrite
      <3>4. TaskWrite(t, [task[t] EXCEPT !.status = s])
        BY <1>1, <3>2, <3>3 DEF TaskWrite
      <3>5. QED
        BY <3>4
    <2>2. CASE AssignRefuse(c)
      BY <2>2 DEF AssignRefuse
    <2>3. QED
      BY <2>1, <2>2
  <1>4. \A s \in TaskStatuses : TaskWrite(t, [task[t] EXCEPT !.status = s]) =>
            task'[t] \in TaskRows /\ task'[t].assignee = task[t].assignee
    BY <1>1, TaskRowWrite DEF TaskWrite
  <1>5. RowsKept(c)
    BY <1>1, <1>2, <1>3, IdleAssignType DEF RowsKept, TaskWrite, AssignInv, AssignTypeOK
  <1>6. ASSUME NEW u \in TaskIds \ disturbed' PROVE PointerInv(u)'
    BY <1>1, <1>2, <1>3, <1>4, <1>5, PointerKept DEF TaskWrite, InAssign
  <1>7. QED
    BY <1>5, <1>6, RowsKeptInv DEF AssignInv

\* AssignDecide: the client that goes on is the only one, or the task is disturbed.
LEMMA DecideStep ==
    ASSUME AssignInv, NEW c \in AssignClients, AssignDecide(c)
    PROVE  AssignInv'
  <1>0. PICK t \in TaskIds : t = assignCall[c].task
    BY DEF AssignInv, CallInv, AssignDecide
  <1> DEFINE call == [assignCall[c] EXCEPT !.pc = "lookup",
                        !.action = IF task[t].assignee = None THEN "assign" ELSE "reassign"]
  <1>1. /\ assignCall[c].pc = "decide" /\ t = assignCall[c].task /\ task[t] \in TaskRows
        /\ assignCall[c].agent \in Assignees
        /\ assignCall \in [AssignClients -> AssignCalls]
        /\ UNCHANGED <<task, assignments, activeAssignmentByTask, assignmentEvents>>
    BY <1>0 DEF AssignInv, AssignTypeOK, CallInv, AssignDecide
  <1>2. CASE AssignAnswered(c) /\ UNCHANGED disturbed
    <2>1. RowsKept(c)
      BY <1>1, <1>2, AnsweredWrite, IdleAssignType DEF RowsKept, AssignInv, AssignTypeOK
    <2>2. ASSUME NEW u \in TaskIds \ disturbed' PROVE PointerInv(u)'
      BY <1>1, <1>2, <2>1, AnsweredWrite, PointerKept DEF InAssign
    <2>3. QED
      BY <2>1, <2>2, RowsKeptInv DEF AssignInv
  <1>3. CASE /\ assignCall' = [assignCall EXCEPT ![c] = call]
             /\ disturbed' = IF \E d \in AssignClients : InAssign(d, t)
                             THEN disturbed \cup {t} ELSE disturbed
    <2>1. /\ call \in AssignCalls /\ call.pc = "lookup" /\ call.task = t
          /\ call.agent = assignCall[c].agent /\ call.action \in {"assign", "reassign"}
      BY <1>1 DEF AssignCalls, AssignPCs
    <2> HIDE DEF call
    <2>2. RequestWrites(c, call) /\ CallInv(c)'
      BY <1>1, <1>3, <2>1 DEF RequestWrites, CallInv
    <2>3. disturbed \subseteq disturbed' /\ disturbed' \subseteq TaskIds
      BY <1>1, <1>3 DEF AssignInv, AssignTypeOK
    <2>4. RowsKept(c)
      BY <1>1, <2>1, <2>2, <2>3 DEF RowsKept, RequestWrites
    <2>5. ASSUME NEW u \in TaskIds \ disturbed' PROVE PointerInv(u)'
      <3>0. u \in TaskIds \ disturbed
        BY <2>3
      <3>1. CASE u # t
        BY <1>1, <2>1, <2>2, <2>4, <3>0, <3>1, PointerKept DEF InAssign, RequestWrites
      <3>2. CASE u = t
        <4>1. \A d \in AssignClients : ~InAssign(d, t)
          BY <1>3, <3>2
        <4>2. PointerInv(t)
          BY <3>0, <3>2 DEF AssignInv
        <4>3. \A d \in AssignClients : assignCall'[d] = IF d = c THEN call ELSE assignCall[d]
          BY <2>2 DEF RequestWrites
        <4>4. ActiveAgent(t)' = ActiveAgent(t) /\ task' = task
          BY <1>1 DEF ActiveAgent
        <4>5. task[t] \in TaskRows => task[t].assignee = ActiveAgent(t)
          BY <4>1, <4>2 DEF PointerInv, InAssign
        <4>6. \A d \in AssignClients : InAssign(d, t)' => d = c
          BY <4>1, <4>3 DEF InAssign
        <4>7. \A d \in AssignClients : assignCall'[d].task = t =>
                  assignCall'[d].pc \notin {"supersede", "create", "event", "pointer"}
          BY <2>1, <4>1, <4>3 DEF InAssign
        <4>8. PointerInv(t)'
          BY <4>4, <4>5, <4>6, <4>7 DEF PointerInv
        <4>9. QED
          BY <4>8, <3>2
      <3>3. QED
        BY <3>1, <3>2
    <2>6. QED
      BY <2>4, <2>5, RowsKeptInv DEF AssignInv
  <1>4. QED
    BY <1>0, <1>2, <1>3 DEF AssignDecide

\* AssignLookup: what the client has seen of the index is true of an undisturbed task.
LEMMA LookupStep ==
    ASSUME AssignInv, NEW c \in AssignClients, AssignLookup(c)
    PROVE  AssignInv'
  <1>0. PICK t \in TaskIds : t = assignCall[c].task
    BY DEF AssignInv, CallInv, AssignLookup
  <1> DEFINE prev == activeAssignmentByTask[t]
             call == [assignCall[c] EXCEPT !.prev = prev,
                        !.pc = IF prev = None THEN "create" ELSE "supersede"]
  <1>1. /\ assignCall[c].pc = "lookup" /\ t = assignCall[c].task /\ task[t] \in TaskRows
        /\ assignCall[c].agent \in Assignees /\ assignCall[c].action \in {"assign", "reassign"}
        /\ assignCall \in [AssignClients -> AssignCalls]
        /\ UNCHANGED <<task, assignments, activeAssignmentByTask, assignmentEvents, disturbed>>
        /\ assignCall' = [assignCall EXCEPT ![c] = call]
    BY <1>0 DEF AssignInv, AssignTypeOK, CallInv, AssignLookup, GetActiveByTask
  <1>2. prev # None => prev \in AssignmentIds /\ prev \in Nat /\ assignments[prev].task = t
    BY <1>1 DEF AssignInv, AssignTypeOK, IndexIsExact, AssignmentIds
  <1>3. /\ call \in AssignCalls /\ call.task = t /\ call.prev = prev
        /\ call.agent = assignCall[c].agent /\ call.action = assignCall[c].action
        /\ call.pc = IF prev = None THEN "create" ELSE "supersede"
    BY <1>1, <1>2 DEF AssignCalls, AssignPCs
  <1> HIDE DEF call
  <1>4. RequestWrites(c, call) /\ CallInv(c)'
    BY <1>1, <1>2, <1>3 DEF RequestWrites, CallInv, AssignmentIds
  <1>5. RowsKept(c)
    BY <1>1, <1>3, <1>4 DEF RowsKept, RequestWrites, AssignInv, AssignTypeOK
  <1>6. ASSUME NEW u \in TaskIds \ disturbed' PROVE PointerInv(u)'
    <2>1. CASE u # t
      BY <1>1, <1>3, <1>4, <1>5, <2>1, PointerKept DEF InAssign, RequestWrites
    <2>2. CASE u = t
      <3>1. PointerInv(t) /\ InAssign(c, t)
        BY <1>1, <2>2 DEF AssignInv, InAssign
      <3>2. \A d \in AssignClients : assignCall'[d] = IF d = c THEN call ELSE assignCall[d]
        BY <1>4 DEF RequestWrites
      <3>3. \A d \in AssignClients : InAssign(d, t)' => d = c
        BY <1>1, <1>3, <3>1, <3>2 DEF PointerInv, InAssign
      <3>4. task[t].assignee = ActiveAgent(t)
        BY <1>1, <3>1 DEF PointerInv, InAssign
      <3>5. ActiveAgent(t)' = ActiveAgent(t)
        BY <1>1 DEF ActiveAgent
      <3>6. PointerInv(t)'
        BY <1>1, <1>3, <3>2, <3>3, <3>4, <3>5 DEF PointerInv, InAssign
      <3>7. QED
        BY <2>2, <3>6
    <2>3. QED
      BY <2>1, <2>2
  <1>7. QED
    BY <1>5, <1>6, RowsKeptInv DEF AssignInv

\* AssignPointer: the assignee becomes the agent of the active row.
LEMMA PointerStep ==
    ASSUME AssignInv, NEW c \in AssignClients, AssignPointer(c)
    PROVE  AssignInv'
  <1>0. PICK t \in TaskIds, g \in Assignees : t = assignCall[c].task /\ g = assignCall[c].agent
    BY DEF AssignInv, CallInv, AssignPointer
  <1>1. /\ assignCall[c].pc = "pointer" /\ t = assignCall[c].task /\ task[t] \in TaskRows
        /\ assignCall[c].new \in AssignmentIds /\ assignments[assignCall[c].new].agent = g
        /\ task \in [TaskIds -> TaskRows \cup {None}]
        /\ UNCHANGED <<assignments, activeAssignmentByTask, assignmentEvents, disturbed>>
    BY <1>0 DEF AssignInv, AssignTypeOK, CallInv, AssignPointer
  <1>2. TaskWrite(t, [task[t] EXCEPT !.assignee = g])
    BY <1>0, <1>1, TaskRowWrite DEF AssignPointer, TaskWrite, TaskRows
  <1>3. RequestWrites(c, IdleAssign) /\ CallInv(c)' /\ assignCall'[c].pc = "idle"
    BY AnsweredWrite DEF AssignPointer
  <1>4. RowsKept(c)
    BY <1>1, <1>2, <1>3, IdleAssignType DEF RowsKept, TaskWrite, AssignInv, AssignTypeOK
  <1>5. ASSUME NEW u \in TaskIds \ disturbed' PROVE PointerInv(u)'
    <2>1. CASE u # t
      BY <1>1, <1>2, <1>3, <1>4, <2>1, PointerKept DEF InAssign, TaskWrite
    <2>2. CASE u = t
      <3>1. PointerInv(t) /\ InAssign(c, t)
        BY <1>1, <2>2 DEF AssignInv, InAssign
      <3>2. \A d \in AssignClients : ~InAssign(d, t)'
        BY <1>3, <3>1 DEF PointerInv, InAssign, RequestWrites
      <3>3. activeAssignmentByTask[t] = assignCall[c].new
        BY <1>1, <3>1 DEF PointerInv
      <3>4. ActiveAgent(t)' = g
        BY <1>1, <3>3, AssignmentsAssumption DEF ActiveAgent, AssignmentIds
      <3>5. task'[t].assignee = g
        BY <1>1, <1>2, TaskRowWrite DEF TaskWrite
      <3>6. PointerInv(t)'
        BY <3>2, <3>4, <3>5 DEF PointerInv, InAssign
      <3>7. QED
        BY <2>2, <3>6
    <2>3. QED
      BY <2>1, <2>2
  <1>6. QED
    BY <1>4, <1>5, RowsKeptInv DEF AssignInv

\* AssignSupersede: the row stops being active, and its index entry goes with it.
LEMMA SupersedeStep ==
    ASSUME AssignInv, NEW c \in AssignClients, AssignSupersede(c)
    PROVE  AssignInv'
  <1> USE DEF AssignmentIds
  <1>0. PICK t \in TaskIds, prev \in AssignmentIds :
              /\ t = assignCall[c].task /\ prev = assignCall[c].prev /\ assignments[prev].task = t
    BY DEF AssignInv, CallInv, AssignSupersede
  <1> DEFINE call == [assignCall[c] EXCEPT !.pc = "create"]
             row == [assignments[prev] EXCEPT !.status = "superseded"]
  <1>1. /\ assignCall[c].pc = "supersede" /\ task[t] \in TaskRows /\ prev \in Nat /\ prev # None
        /\ assignCall[c].agent \in Assignees /\ assignCall[c].action \in {"assign", "reassign"}
        /\ UNCHANGED <<task, assignmentEvents, disturbed>>
        /\ assignCall' = [assignCall EXCEPT ![c] = call]
        /\ assignments' = [assignments EXCEPT ![prev] = row]
        /\ activeAssignmentByTask' = [activeAssignmentByTask EXCEPT ![t] =
                                         IF @ = prev THEN None ELSE @]
    BY <1>0, AssignmentsAssumption
    DEF AssignInv, CallInv, AssignSupersede, MemoryAssignmentUpdate
  <1>2. /\ assignCall \in [AssignClients -> AssignCalls]
        /\ assignments \in Seq(AssignmentRows)
        /\ activeAssignmentByTask \in [TaskIds -> AssignmentIds \cup {None}]
    BY DEF AssignInv, AssignTypeOK
  <1>3. /\ call \in AssignCalls /\ call.pc = "create" /\ call.task = t /\ call.prev = prev
        /\ call.agent = assignCall[c].agent /\ call.action = assignCall[c].action
    BY <1>0, <1>1, <1>2 DEF AssignCalls, AssignPCs
  <1>4. /\ row \in AssignmentRows /\ row.task = t /\ row.agent = assignments[prev].agent
        /\ row.status = "superseded"
    BY <1>0, RowOfTable DEF AssignmentRows, AssignInv
  <1> HIDE DEF call, row
  <1>5. /\ assignments' \in Seq(AssignmentRows) /\ Len(assignments') = Len(assignments)
        /\ \A i \in AssignmentIds : assignments'[i] = IF i = prev THEN row ELSE assignments[i]
    BY <1>1, <1>2, <1>4
  <1>6. \A i \in AssignmentIds : /\ assignments'[i].task = assignments[i].task
                                /\ assignments'[i].agent = assignments[i].agent
    BY <1>0, <1>4, <1>5
  <1>7. /\ assignCall' \in [AssignClients -> AssignCalls]
        /\ \A d \in AssignClients : assignCall'[d] = IF d = c THEN call ELSE assignCall[d]
    BY <1>1, <1>2, <1>3
  <1>8. /\ activeAssignmentByTask' \in [TaskIds -> AssignmentIds \cup {None}]
        /\ \A u \in TaskIds \ {t} : activeAssignmentByTask'[u] = activeAssignmentByTask[u]
        /\ activeAssignmentByTask'[t] = IF activeAssignmentByTask[t] = prev THEN None
                                        ELSE activeAssignmentByTask[t]
    BY <1>1, <1>2
  <1>9. AssignTypeOK'
    BY <1>1, <1>5, <1>7, <1>8 DEF AssignInv, AssignTypeOK
  <1>10. IndexIsExact'
    <2>1. SUFFICES ASSUME NEW u \in TaskIds
                   PROVE  {i \in AssignmentIds : assignments'[i].task = u /\ assignments'[i].status = "active"}
                            = {activeAssignmentByTask'[u]} \ {None}
      BY <1>5 DEF IndexIsExact
    <2>2. {i \in AssignmentIds : assignments[i].task = u /\ assignments[i].status = "active"}
            = {activeAssignmentByTask[u]} \ {None}
      BY DEF AssignInv, IndexIsExact
    <2>3. CASE u = t
      BY <1>0, <1>4, <1>5, <1>8, <2>2, <2>3
    <2>4. CASE u # t
      BY <1>0, <1>4, <1>5, <1>8, <2>2, <2>4
    <2>5. QED
      BY <2>3, <2>4
  <1>11. SomebodyStaysAssigned'
    <2>1. SUFFICES ASSUME NEW u \in TaskIds, activeAssignmentByTask'[u] = None,
                          \E i \in AssignmentIds : assignments'[i].task = u
                   PROVE  \E d \in AssignClients : /\ assignCall'[d].pc = "create"
                                                   /\ assignCall'[d].task = u
                                                   /\ assignCall'[d].prev # None
      BY <1>5 DEF SomebodyStaysAssigned
    <2>2. CASE u = t
      BY <1>1, <1>3, <1>7, <2>2
    <2>3. CASE u # t
      BY <1>1, <1>6, <1>7, <1>8, <2>1, <2>3 DEF AssignInv, SomebodyStaysAssigned
    <2>4. QED
      BY <2>2, <2>3
  <1>12. EventInv'
    <2>1. \A d \in AssignClients : assignCall'[d].pc = "event" => assignCall'[d] = assignCall[d]
      BY <1>3, <1>7
    <2>2. \A d \in AssignClients : assignCall[d].pc = "event" => assignCall'[d] = assignCall[d]
      BY <1>1, <1>7
    <2>3. \A i \in AssignmentIds : task'[assignments'[i].task] \in TaskRows
      BY <1>1, <1>6 DEF AssignInv, EventInv
    <2>4. AssignmentIds' = AssignmentIds /\ assignmentEvents' = assignmentEvents
      BY <1>1, <1>5
    <2> HIDE DEF AssignmentIds
    <2>5. QED
      BY <2>1, <2>2, <2>3, <2>4 DEF AssignInv, EventInv
  <1>13. ASSUME NEW d \in AssignClients PROVE CallInv(d)'
    <2>1. CASE d = c
      BY <1>0, <1>1, <1>3, <1>4, <1>5, <1>7, <2>1 DEF CallInv
    <2>2. CASE d # c
      BY <1>1, <1>5, <1>6, <1>7, <2>2 DEF AssignInv, CallInv
    <2>3. QED
      BY <2>1, <2>2
  <1>14. ASSUME NEW u \in TaskIds \ disturbed' PROVE PointerInv(u)'
    <2>1. PointerInv(u)
      BY <1>1 DEF AssignInv
    <2>2. CASE u # t
      <3>1. ActiveAgent(u)' = ActiveAgent(u)
        BY <1>2, <1>6, <1>8, <2>2 DEF ActiveAgent
      <3>2. \A d \in AssignClients : assignCall[d].task = u \/ assignCall'[d].task = u =>
                assignCall'[d] = assignCall[d]
        BY <1>0, <1>3, <1>7, <2>2
      <3>3. QED
        BY <1>1, <1>8, <2>1, <2>2, <3>1, <3>2 DEF PointerInv, InAssign
    <2>3. CASE u = t
      <3>1. activeAssignmentByTask[t] = prev
        BY <1>0, <1>1, <2>1, <2>3 DEF PointerInv
      <3>2. activeAssignmentByTask'[t] = None
        BY <1>8, <3>1
      <3>3. \A d \in AssignClients : InAssign(d, t)' => d = c
        BY <1>0, <1>1, <1>3, <1>7, <2>1, <2>3 DEF PointerInv, InAssign
      <3>4. InAssign(c, t)' /\ assignCall'[c].pc = "create" /\ assignCall'[c].task = t
        BY <1>3, <1>7 DEF InAssign
      <3>5. PointerInv(t)'
        BY <3>2, <3>3, <3>4 DEF PointerInv, InAssign
      <3>6. QED
        BY <2>3, <3>5
    <2>4. QED
      BY <2>2, <2>3
  <1>15. QED
    BY <1>9, <1>10, <1>11, <1>12, <1>13, <1>14 DEF AssignInv

\* AssignCreate, when the task has no active row: the new row is the active one.
LEMMA CreateStep ==
    ASSUME AssignInv, NEW c \in AssignClients, AssignCreate(c),
           activeAssignmentByTask[assignCall[c].task] = None
    PROVE  AssignInv'
  <1>0. PICK t \in TaskIds, g \in Assignees : t = assignCall[c].task /\ g = assignCall[c].agent
    BY DEF AssignInv, CallInv, AssignCreate
  <1>a. PICK new \in Nat \ {0} : new = Len(assignments) + 1
    BY DEF AssignInv, AssignTypeOK
  <1> DEFINE call == [assignCall[c] EXCEPT !.pc = "event", !.new = new]
             row == [task |-> t, agent |-> g, status |-> "active"]
  <1>1. /\ assignCall[c].pc = "create" /\ task[t] \in TaskRows
        /\ activeAssignmentByTask[t] = None /\ new \notin AssignmentIds
        /\ assignCall[c].action \in {"assign", "reassign"}
        /\ UNCHANGED <<task, assignmentEvents, disturbed>>
        /\ assignCall' = [assignCall EXCEPT ![c] = call]
        /\ assignments' = Append(assignments, row)
        /\ activeAssignmentByTask' = [activeAssignmentByTask EXCEPT ![t] = new]
    <2>1. new \notin AssignmentIds
      BY <1>a DEF AssignmentIds, AssignInv, AssignTypeOK
    <2>2. /\ assignCall[c].pc = "create" /\ task[t] \in TaskRows
          /\ assignCall[c].action \in {"assign", "reassign"}
      BY <1>0 DEF AssignInv, CallInv, AssignCreate
    <2>3. /\ MemoryAssignmentCreate(t, g)
          /\ assignCall' = [assignCall EXCEPT ![c].pc = "event", ![c].new = new]
          /\ UNCHANGED <<task, assignmentEvents, disturbed>>
      BY <1>0, <1>a DEF AssignCreate
    <2>4. QED
      BY <1>0, <1>a, <2>1, <2>2, <2>3 DEF MemoryAssignmentCreate
  <1>2. /\ assignCall \in [AssignClients -> AssignCalls]
        /\ assignments \in Seq(AssignmentRows)
        /\ activeAssignmentByTask \in [TaskIds -> AssignmentIds \cup {None}]
    BY DEF AssignInv, AssignTypeOK
  <1>3. /\ call \in AssignCalls /\ call.pc = "event" /\ call.task = t /\ call.new = new
        /\ call.agent = g /\ call.action = assignCall[c].action
    BY <1>0, <1>1, <1>2 DEF AssignCalls, AssignPCs
  <1>4. row \in AssignmentRows /\ row.task = t /\ row.agent = g /\ row.status = "active"
    BY DEF AssignmentRows
  <1> HIDE DEF call, row
  <1>5. /\ assignments' \in Seq(AssignmentRows) /\ assignments'[new] = row
        /\ AssignmentIds' = AssignmentIds \cup {new}
        /\ \A i \in AssignmentIds : assignments'[i] = assignments[i]
    BY <1>1, <1>2, <1>4, <1>a DEF AssignmentIds
  <1>6. /\ assignCall' \in [AssignClients -> AssignCalls]
        /\ \A d \in AssignClients : assignCall'[d] = IF d = c THEN call ELSE assignCall[d]
    BY <1>1, <1>2, <1>3
  <1>7. /\ activeAssignmentByTask' \in [TaskIds -> AssignmentIds' \cup {None}]
        /\ \A u \in TaskIds \ {t} : activeAssignmentByTask'[u] = activeAssignmentByTask[u]
        /\ activeAssignmentByTask'[t] = new /\ new # None
    BY <1>1, <1>2, <1>5, AssignmentsAssumption
  <1>8. AssignTypeOK'
    BY <1>1, <1>5, <1>6, <1>7 DEF AssignInv, AssignTypeOK
  <1>9. IndexIsExact'
    <2>1. SUFFICES ASSUME NEW u \in TaskIds
                   PROVE  {i \in AssignmentIds' : assignments'[i].task = u /\ assignments'[i].status = "active"}
                            = {activeAssignmentByTask'[u]} \ {None}
      BY DEF IndexIsExact
    <2>2. {i \in AssignmentIds : assignments[i].task = u /\ assignments[i].status = "active"}
            = {activeAssignmentByTask[u]} \ {None}
      BY DEF AssignInv, IndexIsExact
    <2>3. CASE u = t
      <3>1. \A i \in AssignmentIds : ~(assignments[i].task = u /\ assignments[i].status = "active")
        BY <1>1, <2>2, <2>3
      <3>2. \A i \in AssignmentIds' : assignments'[i].task = u /\ assignments'[i].status = "active"
                                       <=> i = new
        BY <1>1, <1>4, <1>5, <2>3, <3>1
      <3>3. QED
        BY <1>5, <1>7, <2>3, <3>2
    <2>4. CASE u # t
      <3>1. \A i \in AssignmentIds' : assignments'[i].task = u
                                       <=> i \in AssignmentIds /\ assignments[i].task = u
        BY <1>1, <1>4, <1>5, <2>4
      <3>2. QED
        BY <1>5, <1>7, <2>2, <2>4, <3>1
    <2>5. QED
      BY <2>3, <2>4
  <1>10. SomebodyStaysAssigned'
    <2>1. SUFFICES ASSUME NEW u \in TaskIds, activeAssignmentByTask'[u] = None,
                          NEW i \in AssignmentIds', assignments'[i].task = u
                   PROVE  \E d \in AssignClients : /\ assignCall'[d].pc = "create"
                                                   /\ assignCall'[d].task = u
                                                   /\ assignCall'[d].prev # None
      BY DEF SomebodyStaysAssigned
    <2>2. u # t
      BY <1>7, <2>1
    <2>3. i \in AssignmentIds /\ assignments[i].task = u /\ activeAssignmentByTask[u] = None
      BY <1>4, <1>5, <1>7, <2>1, <2>2
    <2>4. QED
      BY <1>0, <1>6, <2>2, <2>3 DEF AssignInv, SomebodyStaysAssigned
  <1>11. EventInv'
    <2>1. \A d \in AssignClients : assignCall[d].pc = "event" =>
              d # c /\ assignCall'[d] = assignCall[d] /\ assignCall[d].new \in AssignmentIds
      BY <1>1, <1>6 DEF AssignInv, CallInv
    <2>2. \A d \in AssignClients : assignCall'[d].pc = "event" =>
              \/ d = c /\ assignCall'[d].new = new
              \/ assignCall[d].pc = "event" /\ assignCall'[d] = assignCall[d]
      BY <1>3, <1>6
    <2>3. \A i \in AssignmentIds' : task'[assignments'[i].task] \in TaskRows
      BY <1>1, <1>4, <1>5 DEF AssignInv, EventInv
    <2>4. assignmentEvents' = assignmentEvents
      BY <1>1
    <2>5. \A e \in 1..Len(assignmentEvents) : assignmentEvents[e].assignment \in AssignmentIds
      BY DEF AssignInv, EventInv
    <2>6. \A e, f \in 1..Len(assignmentEvents) :
             assignmentEvents[e].assignment = assignmentEvents[f].assignment => e = f
      BY DEF AssignInv, EventInv
    <2>7. \A d, f \in AssignClients :
             (/\ assignCall'[d].pc = "event" /\ assignCall'[f].pc = "event"
              /\ assignCall'[d].new = assignCall'[f].new) => d = f
      BY <1>1, <2>1, <2>2 DEF AssignInv, EventInv
    <2>8. \A d \in AssignClients, e \in 1..Len(assignmentEvents) :
             assignCall'[d].pc = "event" => assignCall'[d].new # assignmentEvents[e].assignment
      BY <1>1, <2>2, <2>5 DEF AssignInv, EventInv
    <2>9. \A i \in AssignmentIds' :
             \/ \E d \in AssignClients : assignCall'[d].pc = "event" /\ assignCall'[d].new = i
             \/ \E e \in 1..Len(assignmentEvents) : assignmentEvents[e].assignment = i
      BY <1>3, <1>5, <1>6, <2>1 DEF AssignInv, EventInv
    <2>10. QED
      BY <1>5, <2>3, <2>4, <2>5, <2>6, <2>7, <2>8, <2>9 DEF EventInv
  <1>12. ASSUME NEW d \in AssignClients PROVE CallInv(d)'
    <2>1. CASE d = c
      BY <1>1, <1>3, <1>4, <1>5, <1>6, <2>1 DEF CallInv
    <2>2. CASE d # c
      BY <1>1, <1>5, <1>6, <2>2 DEF AssignInv, CallInv
    <2>3. QED
      BY <2>1, <2>2
  <1>13. ASSUME NEW u \in TaskIds \ disturbed' PROVE PointerInv(u)'
    <2>1. PointerInv(u)
      BY <1>1 DEF AssignInv
    <2>2. CASE u # t
      <3>1. ActiveAgent(u)' = ActiveAgent(u)
        BY <1>2, <1>5, <1>7, <2>2 DEF ActiveAgent
      <3>2. \A d \in AssignClients : assignCall[d].task = u \/ assignCall'[d].task = u =>
                assignCall'[d] = assignCall[d]
        BY <1>0, <1>3, <1>6, <2>2
      <3>3. QED
        BY <1>1, <1>7, <2>1, <2>2, <3>1, <3>2 DEF PointerInv, InAssign
    <2>3. CASE u = t
      <3>1. \A d \in AssignClients : InAssign(d, t)' => d = c
        BY <1>0, <1>1, <1>3, <1>6, <2>1, <2>3 DEF PointerInv, InAssign
      <3>2. assignCall'[c].pc = "event" /\ assignCall'[c].task = t /\ assignCall'[c].new = new
        BY <1>3, <1>6
      <3>3. PointerInv(t)'
        BY <1>7, <3>1, <3>2 DEF PointerInv, InAssign
      <3>4. QED
        BY <2>3, <3>3
    <2>4. QED
      BY <2>2, <2>3
  <1>14. QED
    BY <1>8, <1>9, <1>10, <1>11, <1>12, <1>13 DEF AssignInv

\* AssignCreate, when the index names an active row: the request is refused.
LEMMA CreateRefusedStep ==
    ASSUME AssignInv, NEW c \in AssignClients, AssignCreate(c),
           activeAssignmentByTask[assignCall[c].task] # None
    PROVE  AssignInv'
  <1>0. PICK t \in TaskIds : t = assignCall[c].task
    BY DEF AssignInv, CallInv, AssignCreate
  <1>1. /\ assignCall[c].pc = "create"
        /\ UNCHANGED <<task, assignments, activeAssignmentByTask, assignmentEvents, disturbed>>
        /\ RequestWrites(c, IdleAssign) /\ CallInv(c)' /\ assignCall'[c].pc = "idle"
    BY AnsweredWrite DEF AssignCreate
  <1>2. RowsKept(c)
    BY <1>1, IdleAssignType DEF RowsKept, AssignInv, AssignTypeOK
  <1>3. ASSUME NEW u \in TaskIds \ disturbed' PROVE PointerInv(u)'
    <2>1. PointerInv(u) /\ u \in TaskIds \ disturbed
      BY <1>1 DEF AssignInv
    <2>2. u # t
      BY <1>0, <1>1, <2>1 DEF PointerInv
    <2>3. QED
      BY <1>0, <1>1, <1>2, <2>1, <2>2, PointerKept DEF InAssign
  <1>4. QED
    BY <1>2, <1>3, RowsKeptInv DEF AssignInv

\* AssignEvent: the event of the row its client created, and of no other.
LEMMA EventStep ==
    ASSUME AssignInv, NEW c \in AssignClients, AssignEvent(c)
    PROVE  AssignInv'
  <1>0. PICK t \in TaskIds, new \in AssignmentIds :
            t = assignCall[c].task /\ new = assignCall[c].new
    BY DEF AssignInv, CallInv, AssignEvent
  <1> DEFINE call == [assignCall[c] EXCEPT !.pc = "pointer"]
             ev == [assignment |-> new, task |-> t, action |-> assignCall[c].action]
             n == Len(assignmentEvents)
  <1>1. /\ assignCall[c].pc = "event" /\ task[t] \in TaskRows
        /\ assignCall[c].action \in {"assign", "reassign"}
        /\ UNCHANGED <<task, assignments, activeAssignmentByTask, disturbed>>
        /\ assignCall' = [assignCall EXCEPT ![c] = call]
        /\ assignmentEvents' = Append(assignmentEvents, ev)
    BY <1>0 DEF AssignInv, CallInv, AssignEvent, MemoryEventAppend
  <1>2. /\ assignCall \in [AssignClients -> AssignCalls]
        /\ assignmentEvents \in Seq(AssignmentEvents)
    BY DEF AssignInv, AssignTypeOK
  <1>3. /\ call \in AssignCalls /\ call.pc = "pointer" /\ call.task = t /\ call.new = new
        /\ call.agent = assignCall[c].agent /\ call.action = assignCall[c].action
    BY <1>0, <1>1, <1>2 DEF AssignCalls, AssignPCs
  <1>4. ev \in AssignmentEvents /\ ev.assignment = new
    BY <1>1, RowOfTable DEF AssignmentEvents, AssignInv
  <1> HIDE DEF call, ev
  <1>5. /\ assignmentEvents' \in Seq(AssignmentEvents) /\ Len(assignmentEvents') = n + 1 /\ n \in Nat
        /\ \A e \in 1..n : assignmentEvents'[e] = assignmentEvents[e]
        /\ assignmentEvents'[n + 1] = ev
    BY <1>1, <1>2, <1>4
  <1>6. /\ assignCall' \in [AssignClients -> AssignCalls]
        /\ \A d \in AssignClients : assignCall'[d] = IF d = c THEN call ELSE assignCall[d]
    BY <1>1, <1>2, <1>3
  <1>7. AssignmentIds' = AssignmentIds
    BY <1>1 DEF AssignmentIds
  <1>8. AssignTypeOK'
    BY <1>1, <1>5, <1>6, <1>7 DEF AssignInv, AssignTypeOK
  <1>9. IndexIsExact'
    BY <1>1, <1>7 DEF AssignInv, IndexIsExact
  <1>10. SomebodyStaysAssigned'
    BY <1>1, <1>3, <1>6, <1>7 DEF AssignInv, SomebodyStaysAssigned
  <1>11. EventInv'
    <2>1. \A d \in AssignClients : assignCall'[d].pc = "event" => assignCall'[d] = assignCall[d] /\ d # c
      BY <1>3, <1>6
    <2>2. \A d \in AssignClients \ {c} : assignCall'[d] = assignCall[d]
      BY <1>6
    <2>3. \A e \in 1..n : assignmentEvents[e].assignment # new
      BY <1>0, <1>1 DEF AssignInv, EventInv
    <2>4. \A e \in 1..n + 1 : \/ e \in 1..n /\ assignmentEvents'[e] = assignmentEvents[e]
                              \/ e = n + 1 /\ assignmentEvents'[e].assignment = new
      BY <1>4, <1>5
    <2>5. 1..n \subseteq 1..n + 1 /\ n + 1 \in 1..n + 1
      BY <1>5
    <2> HIDE DEF n
    <2>6. \A e \in 1..n + 1 : assignmentEvents'[e].assignment \in AssignmentIds
      BY <2>4 DEF AssignInv, EventInv, n
    <2>7. \A e, f \in 1..n + 1 :
             assignmentEvents'[e].assignment = assignmentEvents'[f].assignment => e = f
      BY <2>3, <2>4 DEF AssignInv, EventInv, n
    <2>8. \A d \in AssignClients, e \in 1..n + 1 :
             assignCall'[d].pc = "event" => assignCall'[d].new # assignmentEvents'[e].assignment
      BY <1>0, <1>1, <2>1, <2>4 DEF AssignInv, EventInv, n
    <2>9. ASSUME NEW i \in AssignmentIds
          PROVE  \/ \E d \in AssignClients : assignCall'[d].pc = "event" /\ assignCall'[d].new = i
                 \/ \E e \in 1..n + 1 : assignmentEvents'[e].assignment = i
      <3>1. CASE i = new
        BY <2>4, <2>5, <3>1, <1>4, <1>5 DEF n
      <3>2. CASE i # new
        <4>1. \/ \E d \in AssignClients \ {c} : assignCall[d].pc = "event" /\ assignCall[d].new = i
              \/ \E e \in 1..n : assignmentEvents[e].assignment = i
          BY <1>0, <3>2 DEF AssignInv, EventInv, n
        <4>2. QED
          BY <1>5, <2>2, <2>5, <4>1 DEF n
      <3>3. QED
        BY <3>1, <3>2
    <2>10. Len(assignmentEvents') = n + 1
      BY <1>5 DEF n
    <2>11. \A d, f \in AssignClients :
             (/\ assignCall'[d].pc = "event" /\ assignCall'[f].pc = "event"
              /\ assignCall'[d].new = assignCall'[f].new) => d = f
      BY <2>1 DEF AssignInv, EventInv
    <2>12. \A i \in AssignmentIds : task'[assignments'[i].task] \in TaskRows
      BY <1>1 DEF AssignInv, EventInv
    <2>13. QED
      BY <1>7, <2>6, <2>7, <2>8, <2>9, <2>10, <2>11, <2>12 DEF EventInv
  <1>12. ASSUME NEW d \in AssignClients PROVE CallInv(d)'
    <2>1. CASE d = c
      BY <1>0, <1>1, <1>3, <1>6, <1>7, <2>1 DEF AssignInv, CallInv
    <2>2. CASE d # c
      BY <1>1, <1>6, <1>7, <2>2 DEF AssignInv, CallInv
    <2>3. QED
      BY <2>1, <2>2
  <1>13. ASSUME NEW u \in TaskIds \ disturbed' PROVE PointerInv(u)'
    <2>1. PointerInv(u)
      BY <1>1 DEF AssignInv
    <2>2. ActiveAgent(u)' = ActiveAgent(u)
      BY <1>1 DEF ActiveAgent
    <2>3. /\ \A d \in AssignClients \ {c} : assignCall'[d] = assignCall[d]
          /\ assignCall'[c].pc = "pointer" /\ assignCall'[c].task = assignCall[c].task
          /\ assignCall'[c].new = assignCall[c].new
      BY <1>0, <1>3, <1>6
    <2>4. \A d \in AssignClients : InAssign(d, u)' <=> InAssign(d, u)
      BY <1>1, <2>3 DEF InAssign
    <2>5. QED
      BY <1>1, <2>1, <2>2, <2>3, <2>4 DEF PointerInv
  <1>14. QED
    BY <1>8, <1>9, <1>10, <1>11, <1>12, <1>13 DEF AssignInv

-----------------------------------------------------------------------------
\* Theorems.

\* Every step of a request keeps the invariant.
LEMMA AssignStepInv ==
    ASSUME AssignInv, [AssignNext]_assignVars
    PROVE  AssignInv'
  <1>1. CASE UNCHANGED assignVars
    BY <1>1 DEF assignVars, AssignInv, AssignTypeOK, AssignmentIds, IndexIsExact, SomebodyStaysAssigned,
                EventInv, CallInv, PointerInv, InAssign, ActiveAgent
  <1>2. ASSUME NEW c \in AssignClients, AssignCreate(c) PROVE AssignInv'
    BY <1>2, CreateStep, CreateRefusedStep
  <1>3. QED
    BY <1>1, <1>2, CreateTaskStep, HandlerStep, UpdateTaskStep, StatusWriteStep, DecideStep, LookupStep,
       SupersedeStep, EventStep, PointerStep DEF AssignNext

\* AssignInv holds of every behaviour.
THEOREM AssignInvariant == AssignSpec => []AssignInv
  BY AssignInitially, AssignStepInv, PTL DEF AssignSpec

\* Rows, index, history and requests are well typed.
THEOREM AssignTypes == AssignSpec => []AssignTypeOK
  <1>1. AssignInv => AssignTypeOK
    BY DEF AssignInv
  <1>2. QED
    BY <1>1, AssignInvariant, PTL

\* The index names exactly the active rows, so no task has two of them.
THEOREM IndexExact == AssignSpec => []IndexIsExact
  <1>1. AssignInv => IndexIsExact
    BY DEF AssignInv
  <1>2. QED
    BY <1>1, AssignInvariant, PTL

\* A task that was assigned once does not lose its assignment for good.
THEOREM StaysAssigned == AssignSpec => []SomebodyStaysAssigned
  <1>1. AssignInv => SomebodyStaysAssigned
    BY DEF AssignInv
  <1>2. QED
    BY <1>1, AssignInvariant, PTL

\* The history has exactly one event per row, none while its creator is about to
\* append it.
THEOREM OneEventPerRow == AssignSpec => []EveryRowHasItsEvent
  <1>1. ASSUME AssignInv PROVE EveryRowHasItsEvent
    <2> SUFFICES ASSUME NEW i \in AssignmentIds
                 PROVE  Cardinality({e \in 1..Len(assignmentEvents) : assignmentEvents[e].assignment = i}) =
                          IF \E c \in AssignClients : assignCall[c].pc = "event" /\ assignCall[c].new = i
                          THEN 0 ELSE 1
      BY DEF EveryRowHasItsEvent
    <2> DEFINE events == {e \in 1..Len(assignmentEvents) : assignmentEvents[e].assignment = i}
               pending == \E c \in AssignClients : assignCall[c].pc = "event" /\ assignCall[c].new = i
    <2>1. CASE pending
      <3>1. events = {}
        BY <1>1, <2>1 DEF AssignInv, EventInv
      <3>2. QED
        BY <2>1, <3>1, FS_EmptySet
    <2>2. CASE ~pending
      <3>1. PICK e \in 1..Len(assignmentEvents) : assignmentEvents[e].assignment = i
        BY <1>1, <2>2 DEF AssignInv, EventInv
      <3>2. events = {e}
        BY <1>1, <3>1 DEF AssignInv, EventInv
      <3>3. Cardinality({e}) = 1
        BY FS_Singleton
      <3>4. QED
        BY <2>2, <3>2, <3>3
    <2>3. QED
      BY <2>1, <2>2
  <1>2. QED
    BY <1>1, AssignInvariant, PTL

\* The assignee that a task shows is the agent of its active row, unless requests
\* overlapped or a PUT wrote the assignee.
THEOREM PointerFollows == AssignSpec => []PointerFollowsActive
  <1>1. ASSUME AssignInv PROVE PointerFollowsActive
    <2> SUFFICES ASSUME NEW t \in TaskIds \ disturbed, task[t] # None,
                        ~\E c \in AssignClients : InAssign(c, t)
                 PROVE  task[t].assignee = ActiveAgent(t)
      BY DEF PointerFollowsActive, ActiveAgent
    <2>1. task[t] \in TaskRows
      BY <1>1 DEF AssignInv, AssignTypeOK
    <2>2. QED
      BY <1>1, <2>1 DEF AssignInv, PointerInv, InAssign
  <1>2. QED
    BY <1>1, AssignInvariant, PTL
=============================================================================
