------------------------------ MODULE Projects ------------------------------
(***************************************************************************)
(* Projects: handler/project.go, service/project.go and the project parts  *)
(* of both stores.  GetByID of the memory store hands out the stored       *)
(* pointer, so the service writes the live row before it calls Update;     *)
(* postgres hands out a copy, and Update writes the whole of it back.  A   *)
(* row is its name (with the description) and its status.  The agents that *)
(* CreateProject moves are in module Agents.                               *)
(***************************************************************************)
EXTENDS Naturals, Records

CONSTANTS
    ProjectIds,
    ProjectClients,     \* requests in flight
    ProjectNames,
    AskedStatuses,      \* statuses that PUT bodies carry; nothing validates them
    InitialTasks,       \* tasks of one decomposition (4)
    MaxProjectTasks     \* bound: tasks of a project

ProjectStatuses == {"initializing", "in_progress", "completed", "archived"}
ProjectRows == [name : ProjectNames, status : ProjectStatuses \cup AskedStatuses]

\* None is no row and no field of a body.
ASSUME ProjectsAssumption ==
    /\ InitialTasks \in Nat /\ MaxProjectTasks \in Nat
    /\ None \notin ProjectNames \cup AskedStatuses
    /\ \A row \in ProjectRows : None # row

VARIABLES
    projectStore,   \* which store main wired in
    project,        \* per id None or its row
    born,           \* ids that CreateProject has drawn
    projectTasks,   \* per id its tasks that decompositions created
    projectCall     \* per client its request

projectVars == <<projectStore, project, born, projectTasks, projectCall>>

ProjectRow(n, s) == [name |-> n, status |-> s]

\* A request: where it is, the row it read, the one it will write, what it was
\* asked to change (None: leave it) and the tasks it has yet to create.
IdleProjectCall == [pc |-> "idle", id |-> None, read |-> None, held |-> None,
                    name |-> None, status |-> None, left |-> 0]

ProjectsInit ==
    /\ projectStore \in {"memory", "postgres"}
    /\ project = [p \in ProjectIds |-> None]
    /\ born = {}
    /\ projectTasks = [p \in ProjectIds |-> 0]
    /\ projectCall = [c \in ProjectClients |-> IdleProjectCall]

ProjectAt(c, pc) == projectCall[c].pc = pc
ProjectAnswered(c) == projectCall' = [projectCall EXCEPT ![c] = IdleProjectCall]

\* GetByID finds the row.
ProjectExists(p) == project[p] # None

\* What a body changes in a row.
Overlaid(row, name, status) ==
    ProjectRow(IF name = None THEN row.name ELSE name, IF status = None THEN row.status ELSE status)

-----------------------------------------------------------------------------
\* The stores.

\* The fields that the service sets on a row of the memory store are there at
\* once; a copy from postgres is not.
ProjectFieldsSet(p, row) ==
    project' = IF projectStore = "memory" THEN [project EXCEPT ![p] = row] ELSE project

\* Mistake: the store keeps copies.
MemoryProjectUpdateCopy(c) ==
    project' = [project EXCEPT ![projectCall[c].id] = projectCall[c].held]

\* Update of the memory store: the pointer is the stored one already.
MemoryProjectUpdate(c) == project' = project

PostgresProjectUpdate(c) ==
    project' = [project EXCEPT ![projectCall[c].id] = projectCall[c].held]

\* Update, with ErrNotFound when the row has gone.
StoreProjectUpdate(c) ==
    \/ ~ProjectExists(projectCall[c].id) /\ project' = project
    \/ /\ ProjectExists(projectCall[c].id)
       /\ \/ projectStore = "memory" /\ MemoryProjectUpdate(c)
          \/ projectStore = "postgres" /\ PostgresProjectUpdate(c)

\* Deleting leaves the tasks in memory; in postgres they cascade.
MemoryProjectDelete(p) ==
    project' = [project EXCEPT ![p] = None] /\ UNCHANGED projectTasks
PostgresProjectDelete(p) ==
    project' = [project EXCEPT ![p] = None] /\ projectTasks' = [projectTasks EXCEPT ![p] = 0]

-----------------------------------------------------------------------------
\* The service and the handlers.

CreateProject(c, p, n) ==
    /\ ProjectAt(c, "idle") /\ p \notin born
    /\ born' = born \cup {p}
    /\ project' = [project EXCEPT ![p] = ProjectRow(n, "initializing")]
    /\ UNCHANGED <<projectStore, projectTasks, projectCall>>

\* PUT: the row is read and the fields of the body are set on it ...
UpdateProject(c, p, name, status) ==
    LET row == Overlaid(project[p], name, status) IN
    /\ ProjectAt(c, "idle") /\ ProjectExists(p)
    /\ ProjectFieldsSet(p, row)
    /\ projectCall' = [projectCall EXCEPT ![c] =
          [pc |-> "put", id |-> p, read |-> project[p], held |-> row,
           name |-> name, status |-> status, left |-> 0]]
    /\ UNCHANGED <<projectStore, born, projectTasks>>

\* ... before it is written back.
UpdateProjectWrite(c) ==
    /\ ProjectAt(c, "put")
    /\ StoreProjectUpdate(c)
    /\ ProjectAnswered(c)
    /\ UNCHANGED <<projectStore, born, projectTasks>>

DeleteProject(c, p) ==
    /\ ProjectAt(c, "idle") /\ ProjectExists(p)
    /\ \/ projectStore = "memory" /\ MemoryProjectDelete(p)
       \/ projectStore = "postgres" /\ PostgresProjectDelete(p)
    /\ UNCHANGED <<projectStore, born, projectCall>>

\* Decompose: the row is read ...
DecomposeProject(c, p) ==
    /\ ProjectAt(c, "idle") /\ ProjectExists(p)
    /\ projectTasks[p] + InitialTasks <= MaxProjectTasks
    /\ projectCall' = [projectCall EXCEPT ![c] =
          [pc |-> "tasks", id |-> p, read |-> project[p],
           held |-> Overlaid(project[p], None, "in_progress"),
           name |-> None, status |-> "in_progress", left |-> InitialTasks]]
    /\ UNCHANGED <<projectStore, project, born, projectTasks>>

\* ... the tasks are created one by one, by the memory store also after the
\* project has gone; postgres may refuse one, which is only logged ...
DecomposeTask(c) ==
    LET p == projectCall[c].id IN
    /\ ProjectAt(c, "tasks") /\ projectCall[c].left > 0
    /\ \/ /\ projectStore = "memory" \/ ProjectExists(p)
          /\ projectTasks[p] < MaxProjectTasks
          /\ projectTasks' = [projectTasks EXCEPT ![p] = @ + 1]
       \/ projectStore = "postgres" /\ UNCHANGED projectTasks
    /\ projectCall' = [projectCall EXCEPT ![c].left = @ - 1]
    /\ UNCHANGED <<projectStore, project, born>>

\* ... the status is set on the row (without effect when it has gone) ...
DecomposeStatus(c) ==
    LET p == projectCall[c].id IN
    /\ ProjectAt(c, "tasks") /\ projectCall[c].left = 0
    /\ IF ProjectExists(p) THEN ProjectFieldsSet(p, Overlaid(project[p], None, "in_progress"))
                           ELSE project' = project
    /\ projectCall' = [projectCall EXCEPT ![c].pc = "status"]
    /\ UNCHANGED <<projectStore, born, projectTasks>>

\* ... and written back, an error being logged.
DecomposeWrite(c) ==
    /\ ProjectAt(c, "status")
    /\ StoreProjectUpdate(c)
    /\ ProjectAnswered(c)
    /\ UNCHANGED <<projectStore, born, projectTasks>>

ProjectsNext ==
    \E c \in ProjectClients :
        \/ \E p \in ProjectIds :
              \/ \E n \in ProjectNames : CreateProject(c, p, n)
              \/ \E n \in ProjectNames \cup {None}, s \in AskedStatuses \cup {None} :
                    UpdateProject(c, p, n, s)
              \/ DeleteProject(c, p) \/ DecomposeProject(c, p)
        \/ UpdateProjectWrite(c) \/ DecomposeTask(c) \/ DecomposeStatus(c) \/ DecomposeWrite(c)

ProjectsSpec == ProjectsInit /\ [][ProjectsNext]_projectVars

-----------------------------------------------------------------------------
\* Properties.

ProjectCalls ==
    [pc : {"idle", "put", "tasks", "status"}, id : ProjectIds \cup {None},
     read : ProjectRows \cup {None}, held : ProjectRows \cup {None}, name : ProjectNames \cup {None},
     status : AskedStatuses \cup {"in_progress", None}, left : 0..InitialTasks]

ProjectsTypeOK ==
    /\ projectStore \in {"memory", "postgres"}
    /\ project \in [ProjectIds -> ProjectRows \cup {None}]
    /\ born \subseteq ProjectIds
    /\ projectTasks \in [ProjectIds -> 0..MaxProjectTasks]
    /\ projectCall \in [ProjectClients -> ProjectCalls]

\* A request holds the row it read with what it was asked to change.
ProjectsInv ==
    /\ ProjectsTypeOK
    /\ \A c \in ProjectClients :
          LET call == projectCall[c] IN
          /\ call.pc # "idle" =>
                /\ call.id \in ProjectIds /\ call.read # None
                /\ call.held = Overlaid(call.read, call.name, call.status)
          /\ call.pc \in {"tasks", "status"} => call.name = None /\ call.status = "in_progress"

\* A request that writes a project changes what it was asked to change and
\* nothing else: the name stays through a decomposition, the status through a
\* renaming.  The one exception is a postgres row that another request wrote
\* since this one read it: that write is then undone.
OnlyStaleCopiesRevert ==
    [][\A p \in ProjectIds, c \in ProjectClients :
          ( /\ ProjectExists(p) /\ project'[p] # None
            /\ projectCall[c] # projectCall'[c]
            /\ p \in {projectCall[c].id, projectCall'[c].id} )
          => LET asked == IF ProjectAt(c, "idle") THEN projectCall'[c] ELSE projectCall[c] IN
             \/ /\ project'[p].name \in {project[p].name, asked.name}
                /\ project'[p].status \in {project[p].status, asked.status}
             \/ projectStore = "postgres" /\ asked.read # project[p]]_projectVars
=============================================================================
