------------------------------- MODULE Agents -------------------------------
(***************************************************************************)
(* The agent registry: internal/handler/agent.go over                      *)
(* internal/service/agent.go over one of the two stores (store/memory.go,  *)
(* store/postgres/agent_store.go).  A store call is one step: the memory   *)
(* store holds m.mu for it, postgres runs one statement.  SetCapabilities  *)
(* of postgres is a transaction of several statements at READ COMMITTED,   *)
(* and has two steps.                                                      *)
(*                                                                         *)
(* A client fetches an agent and later sends what it wants changed with    *)
(* the version it saw.  Role and metadata are one value, "details".  A row *)
(* is compared by what is in it; its id, times and runtime are left out.   *)
(***************************************************************************)
EXTENDS Naturals, Records

CONSTANTS
    AgentIds,           \* ids that uuid.New may give to agents
    AgentClients,       \* API clients, one request at a time each
    AgentProjects,      \* tenants
    AgentNames,
    AgentDetails,       \* role and metadata
    Catalog,            \* names in the capability catalog
    Unknown,            \* a capability that is not in the catalog
    Keep,               \* a field left out of a PUT body
    AgentPutStatuses,   \* statuses that PUT bodies carry
    MaxAgentVersion     \* bound: version up to which rows are written

VARIABLES
    agentStore,     \* which store main wired in
    agentRow,       \* per id its row, or None
    agentJoin,      \* postgres: the agent_capabilities rows of an agent
    projectsGone,   \* postgres: the deleted projects, whose agents went with them
    agentCall,      \* per client its request
    capsRaced       \* history: whose last SetCapabilities overlapped another one

agentVars == <<agentStore, agentRow, agentJoin, projectsGone, agentCall, capsRaced>>

AgentStatuses == {"initializing", "idle", "busy", "paused", "error", "retired"}
IsValidAgentStatus(s) == s \in AgentStatuses

Agent == [project : AgentProjects, name : AgentNames, details : AgentDetails,
          status : AgentStatuses, caps : (SUBSET Catalog) \ {{}},
          version : 1..MaxAgentVersion + 1, retired : BOOLEAN]

\* None is no row, and a field left out is told apart from every value of it.
ASSUME AgentsAssumption ==
    /\ MaxAgentVersion \in Nat
    /\ Unknown \notin Catalog
    /\ Keep \notin AgentDetails \cup AgentStatuses \cup AgentPutStatuses
    /\ \A names \in SUBSET (Catalog \cup {Unknown}) : Keep # names
    /\ None \notin AgentProjects
    /\ \A row \in Agent : None # row

AgentPut == [details : AgentDetails \cup {Keep}, status : AgentPutStatuses \cup {Keep},
             caps : (SUBSET (Catalog \cup {Unknown})) \cup {Keep}]

\* A call: where it is, on which agent, the row its client saw last, the
\* capabilities of the body and the row the handler holds; of a SetCapabilities
\* under way the join rows that it deletes, and whether nobody committed one
\* since it began.
IdleCall == [pc |-> "idle", id |-> None, saw |-> None, caps |-> None, held |-> None,
             sees |-> {}, alone |-> FALSE]

AgentsInit ==
    /\ agentStore \in {"memory", "postgres"}
    /\ agentRow = [a \in AgentIds |-> None]
    /\ agentJoin = [a \in AgentIds |-> {}]
    /\ projectsGone = {}
    /\ agentCall = [c \in AgentClients |-> IdleCall]
    /\ capsRaced = {}

-----------------------------------------------------------------------------
\* The stores.

\* The row of an agent that went with its project keeps its value here.
Exists(a) == agentRow[a] # None /\ agentRow[a].project \notin projectsGone

MemoryNameTaken(p, n) ==
    \E a \in AgentIds : /\ agentRow[a] # None /\ ~agentRow[a].retired
                        /\ agentRow[a].project = p /\ agentRow[a].name = n

\* The unique constraint of migration 016 counts retired agents too.
PostgresNameTaken(p, n) ==
    \E a \in AgentIds : /\ agentRow[a] # None
                        /\ agentRow[a].project = p /\ agentRow[a].name = n

NameTaken(p, n) == IF agentStore = "memory" THEN MemoryNameTaken(p, n)
                                            ELSE PostgresNameTaken(p, n)

\* Update of the memory store: the version must be the row's, and is bumped.
MemoryUpdates(a, new) == agentRow[a].version = new.version
\* Mistake: the version is left as it was.
MemoryWrittenSameVersion(a, new) == new

MemoryWritten(a, new) == [new EXCEPT !.version = @ + 1]

\* Update of postgres: also refuses a retired row; neither version nor
\* retired_at are among the columns it sets.
PostgresUpdates(a, new) ==
    Exists(a) /\ agentRow[a].version = new.version /\ ~agentRow[a].retired
PostgresWritten(a, new) ==
    [agentRow[a] EXCEPT !.details = new.details, !.status = new.status, !.caps = new.caps]

StoreUpdates(a, new) == IF agentStore = "memory" THEN MemoryUpdates(a, new)
                                                 ELSE PostgresUpdates(a, new)
StoreWritten(a, new) == IF agentStore = "memory" THEN MemoryWritten(a, new)
                                                 ELSE PostgresWritten(a, new)

Retired(row) == [row EXCEPT !.status = "retired", !.retired = TRUE, !.version = @ + 1]
MemorySoftDeletes(a) == TRUE
PostgresSoftDeletes(a) == Exists(a) /\ ~agentRow[a].retired
SoftDeletes(a) == IF agentStore = "memory" THEN MemorySoftDeletes(a)
                                           ELSE PostgresSoftDeletes(a)

\* The handler answers (respondError or c.JSON) and the call is over.
AgentAnswered(c) == agentCall' = [agentCall EXCEPT ![c] = IdleCall]

MemorySetCapabilities(c) ==
    LET a == agentCall[c].id IN
    /\ agentRow' = [agentRow EXCEPT ![a].caps = agentCall[c].caps, ![a].version = @ + 1]
    /\ agentCall' = [agentCall EXCEPT ![c].pc = "reread"]
    /\ UNCHANGED <<agentJoin, capsRaced>>

\* The transaction's first statement, a DELETE of the agent's join rows: it
\* deletes those that are committed when it begins, and no row inserted later.
PostgresDeleteGrants(c) ==
    /\ agentCall' = [agentCall EXCEPT ![c].pc = "replacing",
                         ![c].sees = agentJoin[agentCall[c].id], ![c].alone = TRUE]
    /\ UNCHANGED <<agentRow, agentJoin, capsRaced>>

\* Until its commit nobody sees the rows it inserts; row locks only make it wait
\* or fail.  The insertion of a join row that is there is refused.
InsertsCollide(c) ==
    agentCall[c].caps \cap Catalog \cap (agentJoin[agentCall[c].id] \ agentCall[c].sees) # {}

\* What a commit does to the transactions on the same agent: the rows it has
\* deleted are no longer theirs to delete.
CommitSeenBy(c) ==
    agentCall' = [d \in AgentClients |->
        IF d = c THEN [agentCall[c] EXCEPT !.pc = "reread", !.sees = {}, !.alone = FALSE]
        ELSE IF agentCall[d].pc = "replacing" /\ agentCall[d].id = agentCall[c].id
             THEN [agentCall[d] EXCEPT !.sees = @ \ agentCall[c].sees, !.alone = FALSE]
        ELSE agentCall[d]]

\* Mistake: the capabilities change and the version does not.
PostgresSetCapabilitiesUnversioned(c) ==
    LET call == agentCall[c]
        a == call.id
    IN  /\ Exists(a) /\ ~InsertsCollide(c)
        /\ agentJoin' = [agentJoin EXCEPT ![a] = (@ \ call.sees) \cup (call.caps \cap Catalog)]
        /\ agentRow' = [agentRow EXCEPT ![a].caps = call.caps]
        /\ capsRaced' = IF call.alone THEN capsRaced \ {a} ELSE capsRaced \cup {a}
        /\ CommitSeenBy(c)

\* The commit: the join rows, the cached list and the version.
PostgresSetCapabilities(c) ==
    LET call == agentCall[c]
        a == call.id
    IN  /\ Exists(a) /\ ~InsertsCollide(c)
        /\ agentJoin' = [agentJoin EXCEPT ![a] = (@ \ call.sees) \cup (call.caps \cap Catalog)]
        /\ agentRow' = [agentRow EXCEPT ![a].caps = call.caps, ![a].version = @ + 1]
        /\ capsRaced' = IF call.alone THEN capsRaced \ {a} ELSE capsRaced \cup {a}
        /\ CommitSeenBy(c)

\* A statement fails (the agent is gone, the inserts collide, a deadlock, a lost
\* connection): the transaction rolls back and the handler answers with an error.
PostgresRollback(c) ==
    AgentAnswered(c) /\ UNCHANGED <<agentRow, agentJoin, capsRaced>>

\* GET /agents/:id/capabilities: the row's list, or the join in postgres.
MemoryListCapabilitiesByAgent(a) == agentRow[a].caps
PostgresListCapabilitiesByAgent(a) == agentJoin[a]

-----------------------------------------------------------------------------
\* The service and the handlers.

\* GetAgent: 0 when the caller may have the row, else the status of the error.
GetAgent(a, p) == IF ~Exists(a) THEN 404
                  ELSE IF agentRow[a].project # p THEN 403 ELSE 0

validateCapabilitiesExist(names) == names \subseteq Catalog
AgentInBounds(a) == agentRow[a].version <= MaxAgentVersion

\* CreateAgent's early returns, and the store's refusal of a taken name and, in
\* postgres, of a project that is gone.
CreateRefusal(p, n, names) ==
    IF names = {} THEN 400
    ELSE IF ~validateCapabilitiesExist(names) THEN 422
    ELSE IF NameTaken(p, n) THEN 409
    ELSE IF p \in projectsGone THEN 500 ELSE 0

\* POST /agents.
CreateAgent(c, p, n, d, names) ==
    LET refusal == CreateRefusal(p, n, names) IN
    /\ agentCall[c].pc = "idle"
    /\ \/ refusal # 0 /\ AgentAnswered(c) /\ UNCHANGED agentRow
       \/ /\ refusal = 0
          /\ \E a \in AgentIds :
                /\ agentRow[a] = None
                /\ agentRow' = [agentRow EXCEPT ![a] =
                      [project |-> p, name |-> n, details |-> d, status |-> "initializing",
                       caps |-> names, version |-> 1, retired |-> FALSE]]
          /\ AgentAnswered(c)
    /\ UNCHANGED <<agentStore, agentJoin, projectsGone, capsRaced>>

\* GET /agents/:id: the client now knows the row and its version.
FetchAgent(c, a, p) ==
    /\ agentCall[c].pc = "idle"
    /\ \/ GetAgent(a, p) # 0 /\ AgentAnswered(c)
       \/ /\ GetAgent(a, p) = 0
          /\ agentCall' = [agentCall EXCEPT ![c] =
                [IdleCall EXCEPT !.pc = "seen", !.id = a,
                                 !.saw = agentRow[a]]]
    /\ UNCHANGED <<agentStore, agentRow, agentJoin, projectsGone, capsRaced>>

Merged(row, put) ==
    [row EXCEPT !.details = IF put.details = Keep THEN @ ELSE put.details,
                !.status = IF put.status = Keep THEN @ ELSE put.status]

\* Mistake: any status of the body is accepted.
UpdateRefusalAnyStatus(a, p, version, put) ==
    LET row == agentRow[a] IN
    IF GetAgent(a, p) # 0 THEN GetAgent(a, p)
    ELSE IF row.retired \/ row.version # version THEN 409
    ELSE IF put.caps = {} THEN 400
    ELSE IF put.caps # Keep /\ ~validateCapabilitiesExist(put.caps) THEN 422
    ELSE 0

\* Mistake: a retired agent is not refused.
UpdateRefusalNotRetired(a, p, version, put) ==
    LET row == agentRow[a] IN
    IF GetAgent(a, p) # 0 THEN GetAgent(a, p)
    ELSE IF row.version # version THEN 409
    ELSE IF put.status \notin AgentStatuses \cup {Keep} \/ put.caps = {} THEN 400
    ELSE IF put.caps # Keep /\ ~validateCapabilitiesExist(put.caps) THEN 422
    ELSE 0

\* UpdateAgent's early returns; 0 when it goes on to write.
UpdateRefusal(a, p, version, put) ==
    LET row == agentRow[a] IN
    IF GetAgent(a, p) # 0 THEN GetAgent(a, p)
    ELSE IF row.retired \/ row.version # version THEN 409
    ELSE IF put.status \notin AgentStatuses \cup {Keep} \/ put.caps = {} THEN 400
    ELSE IF put.caps # Keep /\ ~validateCapabilitiesExist(put.caps) THEN 422
    ELSE 0

\* PUT /agents/:id up to its first store write.  The body carries the version
\* that the client saw.
UpdateAgentRead(c, p, put) ==
    LET call == agentCall[c]
        refusal == UpdateRefusal(call.id, p, call.saw.version, put)
    IN  /\ call.pc = "seen"
        /\ \/ refusal # 0 /\ AgentAnswered(c)
           \/ /\ refusal = 0
              /\ agentCall' = [agentCall EXCEPT
                    ![c].pc = IF put.caps = Keep THEN "write" ELSE "setcaps",
                    ![c].caps = put.caps, ![c].held = Merged(agentRow[call.id], put)]
        /\ UNCHANGED <<agentStore, agentRow, agentJoin, projectsGone, capsRaced>>

\* The capabilities are replaced whatever the row's version is by now.
UpdateAgentCapabilities(c) ==
    /\ agentCall[c].pc \in {"setcaps", "replacing"} /\ AgentInBounds(agentCall[c].id)
    /\ \/ agentStore = "memory" /\ MemorySetCapabilities(c)
       \/ agentCall[c].pc = "setcaps" /\ agentStore = "postgres" /\ PostgresDeleteGrants(c)
       \/ agentCall[c].pc = "replacing" /\ (PostgresSetCapabilities(c) \/ PostgresRollback(c))
    /\ UNCHANGED <<agentStore, projectsGone>>

\* The second GetAgent, which may find the agent gone or another tenant's, and
\* the held role, status and metadata laid over what it read.
UpdateAgentReread(c) ==
    LET call == agentCall[c]
        refusal == GetAgent(call.id, call.held.project)
    IN  /\ call.pc = "reread"
        /\ \/ refusal # 0 /\ AgentAnswered(c)
           \/ /\ refusal = 0
              /\ agentCall' = [agentCall EXCEPT ![c].pc = "write",
                    ![c].held = [agentRow[call.id] EXCEPT !.details = call.held.details,
                                                          !.status = call.held.status]]
        /\ UNCHANGED <<agentStore, agentRow, agentJoin, projectsGone, capsRaced>>

UpdateAgentWrite(c) ==
    LET call == agentCall[c]
        a == call.id
    IN  /\ call.pc = "write" /\ AgentInBounds(a)
        /\ \/ /\ ~StoreUpdates(a, call.held)
              /\ AgentAnswered(c)
              /\ UNCHANGED agentRow
           \/ /\ StoreUpdates(a, call.held)
              /\ agentRow' = [agentRow EXCEPT ![a] = StoreWritten(a, call.held)]
              /\ agentCall' = [agentCall EXCEPT ![c].pc = "reply"]
        /\ UNCHANGED <<agentStore, agentJoin, projectsGone, capsRaced>>

\* The answer is read once more, which may be refused; the client goes on from it.
UpdateAgentReply(c) ==
    LET call == agentCall[c]
        refusal == GetAgent(call.id, call.held.project)
    IN  /\ call.pc = "reply"
        /\ \/ refusal # 0 /\ AgentAnswered(c)
           \/ /\ refusal = 0
              /\ agentCall' = [agentCall EXCEPT ![c] =
                    [IdleCall EXCEPT !.pc = "seen", !.id = call.id,
                                     !.saw = agentRow[call.id]]]
        /\ UNCHANGED <<agentStore, agentRow, agentJoin, projectsGone, capsRaced>>

\* DELETE /agents/:id: the check of RetireAgent, then SoftDelete.
RetireAgentRead(c, a, p) ==
    /\ agentCall[c].pc = "idle"
    /\ \/ GetAgent(a, p) # 0 /\ AgentAnswered(c)
       \/ /\ GetAgent(a, p) = 0
          /\ agentCall' = [agentCall EXCEPT ![c] =
                [IdleCall EXCEPT !.pc = "retire", !.id = a]]
    /\ UNCHANGED <<agentStore, agentRow, agentJoin, projectsGone, capsRaced>>

RetireAgentWrite(c) ==
    LET a == agentCall[c].id IN
    /\ agentCall[c].pc = "retire" /\ AgentInBounds(a)
    /\ \/ /\ SoftDeletes(a)
          /\ agentRow' = [agentRow EXCEPT ![a] = Retired(@)]
          /\ AgentAnswered(c)
       \/ /\ ~SoftDeletes(a)
          /\ AgentAnswered(c)
          /\ UNCHANGED agentRow
    /\ UNCHANGED <<agentStore, agentJoin, projectsGone, capsRaced>>

\* POST /projects with agents: CreateProject reads each of them, of whichever
\* tenant, retired or not ...
ClaimAgentRead(c, a, p) ==
    /\ agentCall[c].pc = "idle" /\ Exists(a)
    /\ agentCall' = [agentCall EXCEPT ![c] =
          [IdleCall EXCEPT !.pc = "claim", !.id = a,
                           !.held = [agentRow[a] EXCEPT !.project = p]]]
    /\ UNCHANGED <<agentStore, agentRow, agentJoin, projectsGone, capsRaced>>

\* ... and writes it back with the new project; a refusal is only logged, and
\* postgres does not set the project.
ClaimAgentWrite(c) ==
    LET a == agentCall[c].id
        held == agentCall[c].held
    IN  /\ agentCall[c].pc = "claim" /\ AgentInBounds(a)
        /\ agentRow' = IF StoreUpdates(a, held)
                       THEN [agentRow EXCEPT ![a] = StoreWritten(a, held)] ELSE agentRow
        /\ AgentAnswered(c)
        /\ UNCHANGED <<agentStore, agentJoin, projectsGone, capsRaced>>

\* A client that has seen a row turns to something else.
LeaveAgent(c) ==
    /\ agentCall[c].pc = "seen"
    /\ agentCall' = [agentCall EXCEPT ![c] = IdleCall]
    /\ UNCHANGED <<agentStore, agentRow, agentJoin, projectsGone, capsRaced>>

\* DELETE /projects/:id in postgres takes the project's agents and their join
\* rows along (ON DELETE CASCADE); the memory store leaves the agents.  The
\* deletion of a project that has none changes nothing here.
ProjectDeleted(p) ==
    /\ agentStore = "postgres"
    /\ \E a \in AgentIds : Exists(a) /\ agentRow[a].project = p
    /\ projectsGone' = projectsGone \cup {p}
    /\ agentJoin' = [a \in AgentIds |->
          IF agentRow[a] # None /\ agentRow[a].project = p THEN {} ELSE agentJoin[a]]
    /\ UNCHANGED <<agentStore, agentRow, agentCall, capsRaced>>

AgentsNext ==
    \/ \E p \in AgentProjects : ProjectDeleted(p)
    \/ \E c \in AgentClients :
        \/ \E p \in AgentProjects, n \in AgentNames, d \in AgentDetails,
              names \in SUBSET (Catalog \cup {Unknown}) : CreateAgent(c, p, n, d, names)
        \/ \E a \in AgentIds, p \in AgentProjects :
              FetchAgent(c, a, p) \/ RetireAgentRead(c, a, p) \/ ClaimAgentRead(c, a, p)
        \/ \E p \in AgentProjects, put \in AgentPut : UpdateAgentRead(c, p, put)
        \/ UpdateAgentCapabilities(c) \/ UpdateAgentReread(c) \/ UpdateAgentWrite(c)
        \/ UpdateAgentReply(c) \/ RetireAgentWrite(c) \/ ClaimAgentWrite(c)
        \/ LeaveAgent(c)

AgentsSpec == AgentsInit /\ [][AgentsNext]_agentVars

-----------------------------------------------------------------------------
\* Properties.

AgentPCs ==
    {"idle", "seen", "setcaps", "replacing", "reread", "write", "reply", "retire", "claim"}

AgentCalls == [pc : AgentPCs, id : AgentIds \cup {None}, saw : Agent \cup {None},
               caps : (SUBSET Catalog) \cup {Keep, None}, held : Agent \cup {None},
               sees : SUBSET Catalog, alone : BOOLEAN]

AgentsTypeOK ==
    /\ agentStore \in {"memory", "postgres"}
    /\ agentRow \in [AgentIds -> Agent \cup {None}]
    /\ agentJoin \in [AgentIds -> SUBSET Catalog]
    /\ projectsGone \in SUBSET AgentProjects /\ capsRaced \in SUBSET AgentIds
    /\ agentCall \in [AgentClients -> AgentCalls]
    /\ \A c \in AgentClients :
          agentCall[c].pc # "idle" => agentCall[c].id \in AgentIds /\ agentRow[agentCall[c].id] # None

\* In postgres every capability that an agent shows (the cached column, which
\* Update writes back from an old read) is granted by a row of the join table,
\* which the capabilities endpoint shows, from the first time that
\* SetCapabilities ran (CreateAgent writes no join rows).  The two lists are the
\* same unless the last SetCapabilities had overlapped another one: its DELETE
\* has not seen the other's rows, and the join is left with those of both.
CachedIsGranted ==
    agentStore = "postgres" =>
        \A a \in AgentIds :
            PostgresListCapabilitiesByAgent(a) # {} =>
                /\ agentRow[a].caps \subseteq PostgresListCapabilitiesByAgent(a)
                /\ a \notin capsRaced => agentRow[a].caps = PostgresListCapabilitiesByAgent(a)

\* What a call knows of the row by the version it read: in memory, where every
\* write bumps the version, all of it; in postgres what SetCapabilities and
\* SoftDelete write, since Update does not bump it.
SameAtVersion(read, row) ==
    /\ read.version <= row.version
    /\ read.version = row.version =>
          /\ read.caps = row.caps /\ read.retired = row.retired
          /\ agentStore = "memory" => read = row

\* What makes CachedIsGranted inductive, and what the action properties rest
\* on: the row a client saw and the row its call holds have gone stale only if
\* the version has; what was accepted for an update was not retired; a
\* transaction that nobody overtook has deleted every join row.
AgentCallInv(c) ==
    LET call == agentCall[c]
        row == agentRow[call.id]
    IN  /\ call.pc \in {"seen", "setcaps", "replacing", "reread", "write"} =>
              call.saw # None /\ SameAtVersion(call.saw, row)
        /\ call.pc \in {"setcaps", "replacing", "reread", "write"} => ~call.saw.retired
        /\ call.pc \in {"setcaps", "replacing", "reread"} => call.caps \in (SUBSET Catalog) \ {{}}
        /\ call.pc = "replacing" /\ call.alone => agentJoin[call.id] \subseteq call.sees
        /\ call.pc \in {"setcaps", "replacing", "reread", "write", "claim"} =>
              /\ call.held # None /\ call.held.version <= row.version
              /\ call.held.version = row.version =>
                    call.held.caps = row.caps /\ call.held.retired = row.retired
        /\ call.pc = "write" /\ call.caps = Keep => call.held.version = call.saw.version
        /\ call.pc = "claim" /\ agentStore = "memory" /\ call.held.version = row.version =>
              call.held.details = row.details /\ call.held.status = row.status

AgentsInv ==
    /\ AgentsTypeOK /\ CachedIsGranted
    /\ \A a \in AgentIds : agentRow[a] = None => agentJoin[a] = {}
    /\ \A c \in AgentClients : AgentCallInv(c)

WritesRow(c) == agentCall[c].pc = "write" /\ agentCall'[c].pc = "reply"

\* An update that leaves the capabilities alone overwrites nothing that its
\* client has not seen: in the memory store the row is the one that was fetched;
\* in postgres, where the write does not bump the version, at least the
\* capabilities and the retirement are.
NoUnseenOverwrite ==
    [][\A c \in AgentClients :
          (WritesRow(c) /\ agentCall[c].caps = Keep) =>
             LET row == agentRow[agentCall[c].id]
                 saw == agentCall[c].saw
             IN  IF agentStore = "memory"
                 THEN row = saw
                 ELSE row.caps = saw.caps /\ row.retired = saw.retired]_agentVars

\* Retirement is final: the role, status and metadata of a retired agent change
\* only in the memory store, by an update with capabilities that had read the
\* agent before it was retired (it re-reads the row and lays the old status
\* over it); postgres refuses that write.
RetirementIsFinal ==
    [][\A a \in AgentIds :
          (agentRow[a] # None /\ agentRow[a].retired) =>
             /\ agentRow'[a].retired
             /\ \/ /\ agentRow'[a].status = agentRow[a].status \/ agentRow'[a].status = "retired"
                   /\ agentRow'[a].details = agentRow[a].details
                \/ /\ agentStore = "memory"
                   /\ \E c \in AgentClients :
                         /\ WritesRow(c) /\ agentCall[c].id = a
                         /\ agentCall[c].caps # Keep /\ ~agentCall[c].saw.retired]_agentVars
=============================================================================
