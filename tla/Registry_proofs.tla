--------------------------- MODULE Registry_proofs --------------------------
(***************************************************************************)
(* Proofs about the agent registry, the projects and the deliverables, for *)
(* every set of agents, clients, tenants, capabilities and contents; those *)
(* of the agents over both stores.                                         *)
(*                                                                         *)
(* Agents: the inductive invariant AgentsInv says what the version that a  *)
(* call has read tells it about the row.  Every step lets a row only grow  *)
(* (Grown), so that what a call knows of it stays true.                    *)
(*                                                                         *)
(* Deliverables: HistoryInv says of the two tables what holds between the  *)
(* two writes of every request.                                            *)
(***************************************************************************)
EXTENDS Agents, Projects, Deliverables, FiniteSetTheorems, FunctionTheorems, TLAPS

-----------------------------------------------------------------------------
\* Rows and calls.

\* A step keeps a row, with a version that goes up unless what SameAtVersion
\* compares stays.
Grown(a) ==
    agentRow[a] # None => agentRow'[a] # None /\ SameAtVersion(agentRow[a], agentRow'[a])

\* What a row is.
LEMMA RowFields ==
    ASSUME NEW row \in Agent
    PROVE  /\ row.project \in AgentProjects /\ row.name \in AgentNames /\ row.details \in AgentDetails
           /\ row.status \in AgentStatuses /\ row.caps \in (SUBSET Catalog) \ {{}}
           /\ row.version \in 1..MaxAgentVersion + 1 /\ row.version \in Nat
           /\ row.retired \in BOOLEAN
           /\ row # None
  BY AgentsAssumption DEF Agent

\* A row that is written is the only one that changes.
LEMMA RowWrite ==
    ASSUME AgentsTypeOK, NEW a \in AgentIds, NEW new \in Agent,
           agentRow' = [agentRow EXCEPT ![a] = new],
           agentRow[a] # None => SameAtVersion(agentRow[a], new)
    PROVE  /\ agentRow' \in [AgentIds -> Agent \cup {None}]
           /\ agentRow'[a] = new
           /\ \A b \in AgentIds \ {a} : agentRow'[b] = agentRow[b]
           /\ \A b \in AgentIds : Grown(b)
  <1>1. agentRow \in [AgentIds -> Agent \cup {None}]
    BY DEF AgentsTypeOK
  <1>2. /\ agentRow' \in [AgentIds -> Agent \cup {None}] /\ agentRow'[a] = new
        /\ \A b \in AgentIds \ {a} : agentRow'[b] = agentRow[b]
    BY <1>1
  <1>3. ASSUME NEW b \in AgentIds, agentRow[b] # None
        PROVE  agentRow'[b] # None /\ SameAtVersion(agentRow[b], agentRow'[b])
    <2>1. CASE b = a
      BY <1>2, <1>3, <2>1, RowFields
    <2>2. CASE b # a
      <3>1. agentRow[b] \in Agent /\ agentRow'[b] = agentRow[b]
        BY <1>1, <1>2, <1>3, <2>2
      <3>2. QED
        BY <1>3, <3>1, RowFields DEF SameAtVersion
    <2>3. QED
      BY <2>1, <2>2
  <1>4. QED
    BY <1>2, <1>3 DEF Grown

\* So does a step that writes none.
LEMMA RowsStay ==
    ASSUME AgentsTypeOK, agentRow' = agentRow
    PROVE  \A b \in AgentIds : Grown(b)
  <1>1. ASSUME NEW b \in AgentIds, agentRow[b] # None PROVE SameAtVersion(agentRow[b], agentRow[b])
    <2>1. agentRow[b] \in Agent
      BY <1>1 DEF AgentsTypeOK
    <2>2. QED
      BY <2>1, RowFields DEF SameAtVersion
  <1>2. QED
    BY <1>1 DEF Grown

\* The fields of a call.
LEMMA CallFields ==
    ASSUME NEW call \in AgentCalls
    PROVE  /\ call.pc \in AgentPCs /\ call.id \in AgentIds \cup {None}
           /\ call.saw \in Agent \cup {None} /\ call.held \in Agent \cup {None}
           /\ call.caps \in (SUBSET Catalog) \cup {Keep, None}
           /\ call.sees \in SUBSET Catalog /\ call.alone \in BOOLEAN
  BY DEF AgentCalls

\* A call that has not begun.
LEMMA IdleFields == IdleCall \in AgentCalls /\ IdleCall.pc = "idle"
  BY DEF IdleCall, AgentCalls, AgentPCs

\* A client's call is the only one that a step of it changes.
LEMMA CallWrite ==
    ASSUME AgentsTypeOK, NEW c \in AgentClients, NEW call \in AgentCalls,
           agentCall' = [agentCall EXCEPT ![c] = call]
    PROVE  /\ agentCall' \in [AgentClients -> AgentCalls] /\ agentCall'[c] = call
           /\ \A d \in AgentClients \ {c} : agentCall'[d] = agentCall[d]
  BY DEF AgentsTypeOK

\* What tells a call from what a commit of another client may make of it.
SameRequest(call, next) ==
    /\ next.pc = call.pc /\ next.id = call.id /\ next.saw = call.saw
    /\ next.caps = call.caps /\ next.held = call.held

\* What a call in the middle of SetCapabilities has deleted.
DeletedAll(d) ==
    agentCall[d].pc = "replacing" /\ agentCall[d].alone =>
        agentJoin[agentCall[d].id] \subseteq agentCall[d].sees

\* What another call knows stays true while rows only grow.
LEMMA CallKeeps ==
    ASSUME AgentsInv, NEW d \in AgentClients, SameRequest(agentCall[d], agentCall'[d]),
           DeletedAll(d)', agentStore' = agentStore, \A b \in AgentIds : Grown(b),
           agentRow' \in [AgentIds -> Agent \cup {None}]
    PROVE  /\ AgentCallInv(d)'
           /\ agentCall'[d].pc # "idle" =>
                 agentCall'[d].id \in AgentIds /\ agentRow'[agentCall'[d].id] # None
  <1>1. PICK call \in AgentCalls : call = agentCall[d]
    BY DEF AgentsInv, AgentsTypeOK
  <1>a. PICK next : next = agentCall'[d] /\ SameRequest(call, next)
    BY <1>1
  <1>2. CASE call.pc = "idle"
    BY <1>1, <1>a, <1>2 DEF AgentCallInv, SameRequest
  <1>3. CASE call.pc # "idle"
    <2>1. call.id \in AgentIds /\ agentRow[call.id] # None
      BY <1>1, <1>3 DEF AgentsInv, AgentsTypeOK
    <2>2. PICK row \in Agent : row = agentRow[call.id]
      BY <2>1 DEF AgentsInv, AgentsTypeOK
    <2>3. PICK new \in Agent : new = agentRow'[call.id] /\ SameAtVersion(row, new)
      BY <2>1, <2>2 DEF Grown
    <2>4. AgentCallInv(d)
      BY DEF AgentsInv
    <2>5. /\ call.saw \in Agent \cup {None} /\ call.held \in Agent \cup {None}
      BY CallFields
    <2>6. row.version \in Nat /\ new.version \in Nat
      BY RowFields
    <2>7. ASSUME call.pc \in {"seen", "setcaps", "replacing", "reread", "write"}
          PROVE  call.saw # None /\ SameAtVersion(call.saw, new)
      <3>1. call.saw # None /\ SameAtVersion(call.saw, row)
        BY <1>1, <2>2, <2>4, <2>7 DEF AgentCallInv
      <3>2. call.saw.version \in Nat
        BY <2>5, <3>1, RowFields
      <3>3. QED
        BY <2>3, <2>6, <3>1, <3>2 DEF SameAtVersion
    <2>8. ASSUME call.pc \in {"setcaps", "replacing", "reread", "write", "claim"}
          PROVE  /\ call.held # None /\ call.held.version <= new.version
                 /\ call.held.version = new.version =>
                       /\ call.held.caps = new.caps /\ call.held.retired = new.retired
                       /\ row.version = new.version
      <3>1. /\ call.held # None /\ call.held.version <= row.version
            /\ call.held.version = row.version =>
                  call.held.caps = row.caps /\ call.held.retired = row.retired
        BY <1>1, <2>2, <2>4, <2>8 DEF AgentCallInv
      <3>2. call.held.version \in Nat
        BY <2>5, <3>1, RowFields
      <3>3. QED
        BY <2>3, <2>6, <3>1, <3>2 DEF SameAtVersion
    <2>9. call.pc = "claim" /\ agentStore = "memory" /\ call.held.version = new.version =>
              call.held.details = new.details /\ call.held.status = new.status
      <3>1. SUFFICES ASSUME call.pc = "claim", agentStore = "memory", call.held.version = new.version
                     PROVE  call.held.details = new.details /\ call.held.status = new.status
        OBVIOUS
      <3>2. row.version = new.version
        BY <2>8, <3>1
      <3>3. row = new
        BY <2>3, <3>1, <3>2 DEF SameAtVersion
      <3>4. QED
        BY <1>1, <2>2, <2>4, <3>1, <3>3 DEF AgentCallInv
    <2>10. /\ call.pc \in {"setcaps", "replacing", "reread", "write"} => ~call.saw.retired
           /\ call.pc \in {"setcaps", "replacing", "reread"} => call.caps \in (SUBSET Catalog) \ {{}}
           /\ call.pc = "write" /\ call.caps = Keep => call.held.version = call.saw.version
      BY <1>1, <2>4 DEF AgentCallInv
    <2>11. AgentCallInv(d)'
      <3>1. SameAtVersion(call.saw, new)' <=> SameAtVersion(call.saw, new)
        BY DEF SameAtVersion
      <3>2. agentCall'[d] = next /\ SameRequest(call, next) /\ agentRow'[next.id] = new
        BY <1>1, <1>a, <2>3 DEF SameRequest
      <3>3. next.pc = "replacing" /\ next.alone => agentJoin'[next.id] \subseteq next.sees
        BY <1>a DEF DeletedAll
      <3>4. QED
        BY <2>7, <2>8, <2>9, <2>10, <3>1, <3>2, <3>3 DEF AgentCallInv, SameAtVersion, SameRequest
    <2>12. QED
      BY <1>1, <1>a, <2>1, <2>3, <2>11, RowFields DEF SameRequest
  <1>4. QED
    BY <1>2, <1>3

\* The parts of a step of c that make up the invariant after it.
LEMMA AgentsAssemble ==
    ASSUME AgentsInv, NEW c \in AgentClients, NEW call \in AgentCalls,
           agentCall' = [agentCall EXCEPT ![c] = call],
           UNCHANGED <<agentStore, agentJoin, projectsGone, capsRaced>>,
           agentRow' \in [AgentIds -> Agent \cup {None}], \A b \in AgentIds : Grown(b),
           CachedIsGranted',
           call.pc # "idle" => call.id \in AgentIds /\ agentRow'[call.id] # None,
           AgentCallInv(c)'
    PROVE  AgentsInv'
  <1>1. /\ agentCall' \in [AgentClients -> AgentCalls] /\ agentCall'[c] = call
        /\ \A d \in AgentClients \ {c} : agentCall'[d] = agentCall[d]
    BY CallWrite DEF AgentsInv
  <1>2. ASSUME NEW d \in AgentClients
        PROVE  /\ AgentCallInv(d)'
               /\ agentCall'[d].pc # "idle" =>
                     agentCall'[d].id \in AgentIds /\ agentRow'[agentCall'[d].id] # None
    <2>1. CASE d = c
      BY <1>1, <2>1
    <2>2. CASE d # c
      <3>1. agentCall'[d] = agentCall[d]
        BY <1>1, <2>2
      <3>2. SameRequest(agentCall[d], agentCall'[d]) /\ DeletedAll(d)'
        BY <3>1 DEF SameRequest, DeletedAll, AgentsInv, AgentCallInv
      <3>3. QED
        BY <3>2, CallKeeps
    <2>3. QED
      BY <2>1, <2>2
  <1>3. AgentsTypeOK'
    BY <1>1, <1>2 DEF AgentsTypeOK, AgentsInv
  <1>4. \A b \in AgentIds : agentRow'[b] = None => agentJoin'[b] = {}
    BY DEF AgentsInv, Grown
  <1>5. QED
    BY <1>2, <1>3, <1>4 DEF AgentsInv

\* A step that leaves rows and join alone.
LEMMA AgentsReading ==
    ASSUME AgentsInv, NEW c \in AgentClients, NEW call \in AgentCalls,
           agentCall' = [agentCall EXCEPT ![c] = call],
           UNCHANGED <<agentStore, agentRow, agentJoin, projectsGone, capsRaced>>,
           call.pc # "idle" => call.id \in AgentIds /\ agentRow[call.id] # None,
           AgentCallInv(c)'
    PROVE  AgentsInv'
  <1>1. agentRow' \in [AgentIds -> Agent \cup {None}]
    BY DEF AgentsInv, AgentsTypeOK
  <1>2. \A b \in AgentIds : Grown(b)
    BY RowsStay DEF AgentsInv
  <1>3. CachedIsGranted'
    BY DEF AgentsInv, CachedIsGranted, PostgresListCapabilitiesByAgent
  <1>4. QED
    BY <1>1, <1>2, <1>3, AgentsAssemble

\* The call that has answered knows nothing.
LEMMA IdleInv ==
    ASSUME AgentsTypeOK, NEW c \in AgentClients, agentCall' = [agentCall EXCEPT ![c] = IdleCall]
    PROVE  IdleCall \in AgentCalls /\ IdleCall.pc = "idle" /\ AgentCallInv(c)'
  <1>1. IdleCall \in AgentCalls /\ IdleCall.pc = "idle"
    BY DEF IdleCall, AgentCalls, AgentPCs
  <1>2. agentCall'[c] = IdleCall
    BY <1>1, CallWrite
  <1>3. QED
    BY <1>1, <1>2 DEF AgentCallInv

\* A client that answers, or turns to something else.
LEMMA AnsweredStep ==
    ASSUME AgentsInv, NEW c \in AgentClients, agentCall' = [agentCall EXCEPT ![c] = IdleCall],
           UNCHANGED <<agentStore, agentRow, agentJoin, projectsGone, capsRaced>>
    PROVE  AgentsInv'
  BY IdleInv, AgentsReading DEF AgentsInv

\* A row is as its own reader sees it.
LEMMA SameReflexive ==
    ASSUME NEW row \in Agent PROVE SameAtVersion(row, row)
  BY RowFields DEF SameAtVersion

\* POST /agents.
LEMMA CreateAgentStep ==
    ASSUME AgentsInv, NEW c \in AgentClients, NEW p \in AgentProjects, NEW n \in AgentNames,
           NEW d \in AgentDetails, NEW names \in SUBSET (Catalog \cup {Unknown}),
           CreateAgent(c, p, n, d, names)
    PROVE  AgentsInv'
  <1>1. CASE CreateRefusal(p, n, names) # 0
    BY <1>1, AnsweredStep DEF CreateAgent, AgentAnswered
  <1>2. CASE CreateRefusal(p, n, names) = 0
    <2>1. names \in (SUBSET Catalog) \ {{}}
      BY <1>2 DEF CreateRefusal, validateCapabilitiesExist
    <2>2. PICK a \in AgentIds :
             /\ agentRow[a] = None
             /\ agentRow' = [agentRow EXCEPT ![a] =
                   [project |-> p, name |-> n, details |-> d, status |-> "initializing",
                    caps |-> names, version |-> 1, retired |-> FALSE]]
      BY <1>2 DEF CreateAgent
    <2>3. PICK new \in Agent : agentRow' = [agentRow EXCEPT ![a] = new]
      <3>1. [project |-> p, name |-> n, details |-> d, status |-> "initializing",
             caps |-> names, version |-> 1, retired |-> FALSE] \in Agent
        BY <2>1, AgentsAssumption DEF Agent, AgentStatuses
      <3>2. QED
        BY <2>2, <3>1
    <2>4. /\ agentCall' = [agentCall EXCEPT ![c] = IdleCall] /\ UNCHANGED <<agentStore, agentJoin, projectsGone, capsRaced>>
      BY <1>2 DEF CreateAgent, AgentAnswered
    <2>5. /\ agentRow' \in [AgentIds -> Agent \cup {None}] /\ agentRow'[a] = new /\ new # None
          /\ \A b \in AgentIds \ {a} : agentRow'[b] = agentRow[b]
          /\ \A b \in AgentIds : Grown(b)
      BY <2>2, <2>3, RowWrite, RowFields DEF AgentsInv
    <2>7. CachedIsGranted'
      <3>1. agentJoin'[a] = {}
        BY <2>2, <2>4 DEF AgentsInv
      <3>2. QED
        BY <2>4, <2>5, <3>1 DEF AgentsInv, CachedIsGranted, PostgresListCapabilitiesByAgent
    <2>8. IdleCall \in AgentCalls /\ IdleCall.pc = "idle" /\ AgentCallInv(c)'
      BY <2>4, IdleInv DEF AgentsInv
    <2>9. QED
      BY <2>4, <2>5, <2>7, <2>8, AgentsAssemble
  <1>3. QED
    BY <1>1, <1>2

\* GET /agents/:id, and the last read of a PUT.
LEMMA SeenStep ==
    ASSUME AgentsInv, NEW c \in AgentClients, NEW a \in AgentIds, agentRow[a] # None,
           agentCall' = [agentCall EXCEPT ![c] =
              [IdleCall EXCEPT !.pc = "seen", !.id = a, !.saw = agentRow[a]]],
           UNCHANGED <<agentStore, agentRow, agentJoin, projectsGone, capsRaced>>
    PROVE  AgentsInv'
  <1>1. PICK row \in Agent : row = agentRow[a]
    BY DEF AgentsInv, AgentsTypeOK
  <1>2. PICK call \in AgentCalls :
           /\ agentCall' = [agentCall EXCEPT ![c] = call]
           /\ call.pc = "seen" /\ call.id = a /\ call.saw = row
    <2>1. PICK call \in AgentCalls : call = [IdleCall EXCEPT !.pc = "seen", !.id = a, !.saw = row]
      BY IdleFields DEF AgentCalls, AgentPCs
    <2>a. call.pc = "seen" /\ call.id = a /\ call.saw = row
      BY <2>1, IdleFields DEF AgentCalls
    <2>2. agentCall' = [agentCall EXCEPT ![c] = call]
      BY <1>1, <2>1
    <2>3. QED
      BY <2>1, <2>a, <2>2
  <1>3. agentCall'[c] = call /\ agentRow'[a] = row
    BY <1>1, <1>2, CallWrite DEF AgentsInv
  <1>4. AgentCallInv(c)'
    <2>1. SameAtVersion(row, row)'
      BY RowFields DEF SameAtVersion
    <2>2. QED
      BY <1>2, <1>3, <2>1, RowFields DEF AgentCallInv
  <1>5. QED
    BY <1>1, <1>2, <1>4, AgentsReading, RowFields

\* FetchAgent, RetireAgentRead and ClaimAgentRead.
LEMMA FetchStep ==
    ASSUME AgentsInv, NEW c \in AgentClients, NEW a \in AgentIds, NEW p \in AgentProjects,
           FetchAgent(c, a, p)
    PROVE  AgentsInv'
  <1>1. CASE GetAgent(a, p) # 0
    BY <1>1, AnsweredStep DEF FetchAgent, AgentAnswered
  <1>2. CASE GetAgent(a, p) = 0
    <2>1. agentRow[a] # None
      BY <1>2 DEF GetAgent, Exists
    <2>2. QED
      BY <1>2, <2>1, SeenStep DEF FetchAgent
  <1>3. QED
    BY <1>1, <1>2

LEMMA RetireReadStep ==
    ASSUME AgentsInv, NEW c \in AgentClients, NEW a \in AgentIds, NEW p \in AgentProjects,
           RetireAgentRead(c, a, p)
    PROVE  AgentsInv'
  <1>1. CASE GetAgent(a, p) # 0
    BY <1>1, AnsweredStep DEF RetireAgentRead, AgentAnswered
  <1>2. CASE GetAgent(a, p) = 0
    <2>1. agentRow[a] # None
      BY <1>2 DEF GetAgent, Exists
    <2>2. PICK call \in AgentCalls :
             /\ agentCall' = [agentCall EXCEPT ![c] = call]
             /\ call.pc = "retire" /\ call.id = a
      <3>1. PICK call \in AgentCalls : call = [IdleCall EXCEPT !.pc = "retire", !.id = a]
        BY IdleFields DEF AgentCalls, AgentPCs
      <3>2. call.pc = "retire" /\ call.id = a
        BY <3>1, IdleFields DEF AgentCalls
      <3>3. agentCall' = [agentCall EXCEPT ![c] = call]
        BY <1>2, <3>1 DEF RetireAgentRead
      <3>4. QED
        BY <3>1, <3>2, <3>3
    <2>3. agentCall'[c] = call /\ UNCHANGED <<agentStore, agentRow, agentJoin, projectsGone, capsRaced>>
      BY <2>2, CallWrite DEF AgentsInv, RetireAgentRead
    <2>4. AgentCallInv(c)'
      BY <2>2, <2>3 DEF AgentCallInv
    <2>5. QED
      BY <2>1, <2>2, <2>3, <2>4, AgentsReading
  <1>3. QED
    BY <1>1, <1>2

LEMMA ClaimReadStep ==
    ASSUME AgentsInv, NEW c \in AgentClients, NEW a \in AgentIds, NEW p \in AgentProjects,
           ClaimAgentRead(c, a, p)
    PROVE  AgentsInv'
  <1>1. PICK row \in Agent : row = agentRow[a] /\ agentRow[a] # None
    BY DEF AgentsInv, AgentsTypeOK, ClaimAgentRead, Exists
  <1>2. PICK held \in Agent : /\ held = [agentRow[a] EXCEPT !.project = p]
                              /\ held.version = row.version /\ held.caps = row.caps
                              /\ held.retired = row.retired /\ held.details = row.details
                              /\ held.status = row.status
    <2>1. [row EXCEPT !.project = p] \in Agent
      BY DEF Agent
    <2>2. QED
      BY <1>1, <2>1 DEF Agent
  <1>3. PICK call \in AgentCalls :
           /\ agentCall' = [agentCall EXCEPT ![c] = call]
           /\ call.pc = "claim" /\ call.id = a /\ call.held = held
    <2>1. PICK call \in AgentCalls : call = [IdleCall EXCEPT !.pc = "claim", !.id = a, !.held = held]
      BY IdleFields DEF AgentCalls, AgentPCs
    <2>a. call.pc = "claim" /\ call.id = a /\ call.held = held
      BY <2>1, IdleFields DEF AgentCalls
    <2>2. agentCall' = [agentCall EXCEPT ![c] = call]
      BY <1>2, <2>1 DEF ClaimAgentRead
    <2>3. QED
      BY <2>1, <2>a, <2>2
  <1>4. agentCall'[c] = call /\ UNCHANGED <<agentStore, agentRow, agentJoin, projectsGone, capsRaced>> /\ agentRow'[a] = row
    BY <1>1, <1>3, CallWrite DEF AgentsInv, ClaimAgentRead
  <1>5. AgentCallInv(c)'
    <2>1. held # None /\ held.version <= row.version
      BY <1>2, RowFields
    <2>2. QED
      BY <1>2, <1>3, <1>4, <2>1 DEF AgentCallInv
  <1>6. QED
    BY <1>1, <1>3, <1>4, <1>5, AgentsReading

-----------------------------------------------------------------------------
\* The updates.

\* A step that writes one row and leaves the join alone.
LEMMA WritingStep ==
    ASSUME AgentsInv, NEW c \in AgentClients, NEW a \in AgentIds, agentRow[a] # None,
           NEW new \in Agent, agentRow' = [agentRow EXCEPT ![a] = new],
           SameAtVersion(agentRow[a], new), agentStore = "postgres" => new.caps = agentRow[a].caps,
           UNCHANGED <<agentStore, agentJoin, projectsGone, capsRaced>>,
           NEW call \in AgentCalls, agentCall' = [agentCall EXCEPT ![c] = call],
           call.pc # "idle" => call.id = a, AgentCallInv(c)'
    PROVE  AgentsInv'
  <1>1. /\ agentRow' \in [AgentIds -> Agent \cup {None}] /\ agentRow'[a] = new /\ new # None
        /\ \A b \in AgentIds \ {a} : agentRow'[b] = agentRow[b]
        /\ \A b \in AgentIds : Grown(b)
    BY RowWrite, RowFields DEF AgentsInv
  <1>2. CachedIsGranted'
    BY <1>1 DEF AgentsInv, CachedIsGranted, PostgresListCapabilitiesByAgent
  <1>3. QED
    BY <1>1, <1>2, AgentsAssemble

\* What Update of either store makes of a held row that it accepts.
LEMMA StoreWrites ==
    ASSUME AgentsTypeOK, NEW a \in AgentIds, NEW row \in Agent, row = agentRow[a],
           NEW held \in Agent, StoreUpdates(a, held), AgentInBounds(a),
           held.version = row.version => held.caps = row.caps /\ held.retired = row.retired
    PROVE  \E new \in Agent : /\ new = StoreWritten(a, held) /\ SameAtVersion(row, new)
                              /\ agentStore = "postgres" => new.caps = row.caps
  <1>1. row.version \in 1..MaxAgentVersion /\ held.version = row.version
    BY RowFields, AgentsAssumption DEF StoreUpdates, MemoryUpdates, PostgresUpdates, AgentInBounds
  <1>2. held.caps = row.caps
    BY <1>1
  <1>3. CASE agentStore = "memory"
    <2>1. [held EXCEPT !.version = @ + 1] \in Agent
      BY <1>1, AgentsAssumption DEF Agent
    <2>2. PICK new \in Agent : new = [held EXCEPT !.version = @ + 1] /\ new.version = row.version + 1
      BY <1>1, <2>1 DEF Agent
    <2>3. SameAtVersion(row, new)
      BY <1>1, <2>2 DEF SameAtVersion
    <2>4. QED
      BY <1>3, <2>2, <2>3 DEF StoreWritten, MemoryWritten
  <1>4. CASE agentStore = "postgres"
    <2>1. [row EXCEPT !.details = held.details, !.status = held.status, !.caps = held.caps] \in Agent
      BY RowFields DEF Agent
    <2>2. PICK new \in Agent :
             /\ new = [row EXCEPT !.details = held.details, !.status = held.status, !.caps = held.caps]
             /\ new.version = row.version /\ new.caps = row.caps /\ new.retired = row.retired
      BY <1>2, <2>1 DEF Agent
    <2>3. SameAtVersion(row, new)
      BY <1>1, <1>4, <2>2 DEF SameAtVersion
    <2>4. QED
      BY <1>4, <2>2, <2>3 DEF StoreWritten, PostgresWritten
  <1>5. QED
    BY <1>3, <1>4 DEF AgentsTypeOK

\* Where a client is, and what it knows.
LEMMA CallKnows ==
    ASSUME AgentsInv, NEW c \in AgentClients, agentCall[c].pc # "idle"
    PROVE  \E call \in AgentCalls, row \in Agent :
              /\ call = agentCall[c] /\ row = agentRow[call.id] /\ row # None
              /\ call.id \in AgentIds /\ AgentCallInv(c)
              /\ call.pc \in {"setcaps", "replacing", "reread", "write", "claim"} => call.held \in Agent
              /\ call.pc \in {"seen", "setcaps", "replacing", "reread", "write"} => call.saw \in Agent
  <1>1. PICK call \in AgentCalls : call = agentCall[c]
    BY DEF AgentsInv, AgentsTypeOK
  <1>2. call.id \in AgentIds /\ agentRow[call.id] # None
    BY <1>1 DEF AgentsInv, AgentsTypeOK
  <1>3. PICK row \in Agent : row = agentRow[call.id]
    BY <1>2 DEF AgentsInv, AgentsTypeOK
  <1>4. AgentCallInv(c)
    BY DEF AgentsInv
  <1>5. /\ call.pc \in {"setcaps", "replacing", "reread", "write", "claim"} => call.held \in Agent
        /\ call.pc \in {"seen", "setcaps", "replacing", "reread", "write"} => call.saw \in Agent
    BY <1>1, <1>4, CallFields DEF AgentCallInv
  <1>6. QED
    BY <1>1, <1>2, <1>3, <1>4, <1>5

LEMMA UpdateReadStep ==
    ASSUME AgentsInv, NEW c \in AgentClients, NEW p \in AgentProjects, NEW put \in AgentPut,
           UpdateAgentRead(c, p, put)
    PROVE  AgentsInv'
  <1>1. PICK call \in AgentCalls, row \in Agent :
           /\ call = agentCall[c] /\ call.id \in AgentIds /\ row = agentRow[call.id] /\ row # None
           /\ call.pc = "seen" /\ call.saw \in Agent /\ AgentCallInv(c)
    BY CallKnows DEF UpdateAgentRead
  <1>2. CASE UpdateRefusal(call.id, p, call.saw.version, put) # 0
    BY <1>1, <1>2, AnsweredStep DEF UpdateAgentRead, AgentAnswered
  <1>3. CASE UpdateRefusal(call.id, p, call.saw.version, put) = 0
    <2>1. /\ ~row.retired /\ row.version = call.saw.version
          /\ put.status \in AgentStatuses \cup {Keep} /\ put.caps # {}
          /\ put.caps # Keep => put.caps \subseteq Catalog
      BY <1>1, <1>3 DEF UpdateRefusal, validateCapabilitiesExist
    <2>2. /\ put.details \in AgentDetails \cup {Keep}
          /\ put.caps \in (SUBSET (Catalog \cup {Unknown})) \cup {Keep}
      BY DEF AgentPut
    <2>3. PICK held \in Agent :
             /\ held = Merged(row, put)
             /\ held.version = row.version /\ held.caps = row.caps /\ held.retired = row.retired
      <3>1. PICK details \in AgentDetails : details = IF put.details = Keep THEN row.details ELSE put.details
        BY <2>2, RowFields
      <3>2. PICK status \in AgentStatuses : status = IF put.status = Keep THEN row.status ELSE put.status
        BY <2>1, RowFields
      <3>3. PICK held \in Agent :
               /\ held = [row EXCEPT !.details = details, !.status = status]
               /\ held.version = row.version /\ held.caps = row.caps /\ held.retired = row.retired
        <4>1. [row EXCEPT !.details = details, !.status = status] \in Agent
          BY DEF Agent
        <4>2. QED
          BY <4>1 DEF Agent
      <3>4. held = Merged(row, put)
        BY <3>1, <3>2, <3>3 DEF Merged
      <3>5. QED
        BY <3>3, <3>4
    <2>4. PICK pc \in {"write", "setcaps"} :
             pc = (IF put.caps = Keep THEN "write" ELSE "setcaps")
      OBVIOUS
    <2>5. PICK caps \in (SUBSET Catalog) \cup {Keep} : caps = put.caps
      BY <2>1, <2>2
    <2>6. PICK new \in AgentCalls :
             /\ agentCall' = [agentCall EXCEPT ![c] = new]
             /\ new.pc = pc /\ new.caps = caps /\ new.held = held
             /\ new.id = call.id /\ new.saw = call.saw
      <3>1. PICK new \in AgentCalls : new = [call EXCEPT !.pc = pc, !.caps = caps, !.held = held]
        <4>1. [call EXCEPT !.pc = pc, !.caps = caps, !.held = held] \in AgentCalls
          BY DEF AgentCalls, AgentPCs
        <4>2. QED
          BY <4>1
      <3>2. /\ new.pc = pc /\ new.caps = caps /\ new.held = held
            /\ new.id = call.id /\ new.saw = call.saw
        BY <3>1 DEF AgentCalls
      <3>3. agentCall' = [agentCall EXCEPT ![c].pc = pc, ![c].caps = caps, ![c].held = held]
        BY <1>1, <1>3, <2>3, <2>4, <2>5 DEF UpdateAgentRead
      <3>4. agentCall' = [agentCall EXCEPT ![c] = new]
        BY <1>1, <3>1, <3>3 DEF AgentsInv, AgentsTypeOK
      <3>5. QED
        BY <3>1, <3>2, <3>4
    <2>7. agentCall'[c] = new /\ UNCHANGED <<agentStore, agentRow, agentJoin, projectsGone, capsRaced>>
      BY <2>6, CallWrite DEF AgentsInv, UpdateAgentRead
    <2>8. SameAtVersion(call.saw, row) /\ ~call.saw.retired
      BY <1>1, <2>1 DEF AgentCallInv, SameAtVersion
    <2>9. AgentCallInv(c)'
      <3>1. SameAtVersion(call.saw, row)' <=> SameAtVersion(call.saw, row)
        BY <2>7 DEF SameAtVersion
      <3>2. /\ call.saw # None /\ held # None /\ held.version <= row.version
        BY <1>1, <2>3, RowFields
      <3>3. pc = "setcaps" => caps \in (SUBSET Catalog) \ {{}}
        BY <2>1, <2>4, <2>5
      <3>4. agentRow'[new.id] = row
        BY <1>1, <2>6, <2>7
      <3>5. pc # "claim" /\ pc # "seen" /\ pc # "reread" /\ pc # "replacing"
        BY <2>4
      <3>6. /\ SameAtVersion(call.saw, row)' /\ held.version = call.saw.version
        BY <2>1, <2>3, <2>8, <3>1
      <3>7. QED
        BY <2>3, <2>6, <2>7, <2>8, <3>2, <3>3, <3>4, <3>5, <3>6 DEF AgentCallInv
    <2>10. QED
      BY <1>1, <2>6, <2>7, <2>9, AgentsReading
  <1>4. QED
    BY <1>2, <1>3

\* SetCapabilities of either store gives the row the names and a new version.
WritesNames(a, row, names) ==
    /\ row = agentRow[a] /\ AgentInBounds(a)
    /\ agentRow' = [agentRow EXCEPT ![a].caps = names, ![a].version = @ + 1]

HasNames(a, row, names, new) ==
    /\ new.caps = names /\ new.version = row.version + 1 /\ agentRow'[a] = new
    /\ agentRow' \in [AgentIds -> Agent \cup {None}]
    /\ \A b \in AgentIds \ {a} : agentRow'[b] = agentRow[b]
    /\ \A b \in AgentIds : Grown(b)

LEMMA NamesWritten ==
    ASSUME AgentsInv, NEW a \in AgentIds, NEW row \in Agent,
           NEW names \in (SUBSET Catalog) \ {{}}, WritesNames(a, row, names)
    PROVE  \E new \in Agent : HasNames(a, row, names, new)
  <1>1. row.version \in 1..MaxAgentVersion
    BY RowFields, AgentsAssumption DEF AgentInBounds, WritesNames
  <1>2. PICK new \in Agent : /\ new = [row EXCEPT !.caps = names, !.version = @ + 1]
                             /\ new.caps = names /\ new.version = row.version + 1
    <2>1. PICK next \in 1..MaxAgentVersion + 1 : next = row.version + 1
      BY <1>1, AgentsAssumption
    <2>2. [row EXCEPT !.caps = names, !.version = next] \in Agent
      BY DEF Agent
    <2>3. [row EXCEPT !.caps = names, !.version = @ + 1] = [row EXCEPT !.caps = names, !.version = next]
      BY <2>1 DEF Agent
    <2>4. QED
      BY <2>1, <2>2, <2>3 DEF Agent
  <1>3. agentRow' = [agentRow EXCEPT ![a] = new]
    BY <1>2 DEF AgentsInv, AgentsTypeOK, WritesNames
  <1>4. SameAtVersion(agentRow[a], new)
    BY <1>1, <1>2 DEF SameAtVersion, WritesNames
  <1>5. /\ agentRow' \in [AgentIds -> Agent \cup {None}] /\ agentRow'[a] = new
        /\ \A b \in AgentIds \ {a} : agentRow'[b] = agentRow[b]
        /\ \A b \in AgentIds : Grown(b)
    BY <1>3, <1>4, RowWrite DEF AgentsInv
  <1>6. QED
    BY <1>2, <1>5 DEF HasNames

\* Where a client is that has replaced the capabilities.
HasReplaced(c, call, next, row, new) ==
    /\ call = agentCall[c] /\ call.pc \in {"setcaps", "replacing"} /\ next = agentCall'[c]
    /\ next = [call EXCEPT !.pc = "reread", !.sees = next.sees, !.alone = next.alone]
    /\ row = agentRow[call.id] /\ new = agentRow'[call.id] /\ new.version = row.version + 1

LEMMA ReplacedInv ==
    ASSUME AgentsInv, NEW c \in AgentClients, NEW call \in AgentCalls, NEW next \in AgentCalls,
           NEW row \in Agent, NEW new \in Agent, HasReplaced(c, call, next, row, new)
    PROVE  AgentCallInv(c)'
  <1>0. /\ call = agentCall[c] /\ call.pc \in {"setcaps", "replacing"} /\ next = agentCall'[c]
        /\ row = agentRow[call.id] /\ new = agentRow'[call.id] /\ new.version = row.version + 1
    BY DEF HasReplaced
  <1>1. /\ next.pc = "reread" /\ next.id = call.id /\ next.caps = call.caps
        /\ next.saw = call.saw /\ next.held = call.held
    BY DEF AgentCalls, HasReplaced
  <1>2. /\ call.saw # None /\ call.saw.version <= row.version /\ ~call.saw.retired
        /\ call.held # None /\ call.held.version <= row.version
        /\ call.caps \in (SUBSET Catalog) \ {{}}
    BY <1>0 DEF AgentsInv, AgentCallInv, SameAtVersion
  <1>3. call.saw \in Agent /\ call.held \in Agent
    BY <1>2, CallFields
  <1>4. /\ row.version \in Nat /\ new.version \in Nat
        /\ call.saw.version \in Nat /\ call.held.version \in Nat
    BY <1>3, RowFields
  <1>5. call.saw.version < new.version /\ call.held.version < new.version
    BY <1>0, <1>2, <1>4
  <1>6. SameAtVersion(call.saw, new)'
    BY <1>4, <1>5 DEF SameAtVersion
  <1>7. call.held.version <= new.version /\ call.held.version # new.version
    BY <1>4, <1>5
  <1>8. agentCall'[c] = next /\ agentRow'[next.id] = new
    BY <1>0, <1>1
  <1>9. QED
    BY <1>1, <1>2, <1>6, <1>7, <1>8 DEF AgentCallInv

LEMMA MemoryCapabilitiesStep ==
    ASSUME AgentsInv, NEW c \in AgentClients, agentCall[c].pc \in {"setcaps", "replacing"},
           AgentInBounds(agentCall[c].id), agentStore = "memory", MemorySetCapabilities(c),
           UNCHANGED <<agentStore, projectsGone>>
    PROVE  AgentsInv'
  <1>1. PICK call \in AgentCalls, row \in Agent :
           /\ call = agentCall[c] /\ call.id \in AgentIds /\ row = agentRow[call.id] /\ AgentCallInv(c)
    BY CallKnows
  <1>2. PICK names \in (SUBSET Catalog) \ {{}} : names = call.caps
    BY <1>1 DEF AgentCallInv
  <1>3. agentRow' = [agentRow EXCEPT ![call.id].caps = names, ![call.id].version = @ + 1]
    BY <1>1, <1>2 DEF MemorySetCapabilities
  <1>4. PICK new \in Agent :
           /\ new.version = row.version + 1 /\ agentRow'[call.id] = new
           /\ agentRow' \in [AgentIds -> Agent \cup {None}]
           /\ \A b \in AgentIds : Grown(b)
    <2>1. WritesNames(call.id, row, names)
      BY <1>1, <1>3 DEF WritesNames
    <2>2. PICK new \in Agent : HasNames(call.id, row, names, new)
      BY <1>1, <2>1, NamesWritten
    <2>3. QED
      BY <2>2 DEF HasNames
  <1>5. PICK next \in AgentCalls : /\ next = [call EXCEPT !.pc = "reread"]
                                   /\ next.pc = "reread" /\ next.id = call.id
    <2>1. PICK next \in AgentCalls : next = [call EXCEPT !.pc = "reread"]
      BY DEF AgentCalls, AgentPCs
    <2>2. QED
      BY <2>1 DEF AgentCalls
  <1>6. agentCall' = [agentCall EXCEPT ![c] = next]
    <2>1. agentCall' = [agentCall EXCEPT ![c].pc = "reread"]
      BY DEF MemorySetCapabilities
    <2>2. QED
      BY <1>1, <1>5, <2>1 DEF AgentsInv, AgentsTypeOK
  <1>7. AgentCallInv(c)'
    <2>1. agentCall'[c] = next
      BY <1>6, CallWrite DEF AgentsInv
    <2>2. next = [call EXCEPT !.pc = "reread", !.sees = next.sees, !.alone = next.alone]
      BY <1>5 DEF AgentCalls
    <2>3. HasReplaced(c, call, next, row, new)
      BY <1>1, <1>4, <2>1, <2>2 DEF HasReplaced
    <2>4. QED
      BY <2>3, ReplacedInv
  <1>8. CachedIsGranted' /\ UNCHANGED <<agentStore, agentJoin, projectsGone, capsRaced>>
    BY DEF CachedIsGranted, MemorySetCapabilities
  <1>9. QED
    BY <1>1, <1>4, <1>5, <1>6, <1>7, <1>8, RowFields, AgentsAssemble

\* The DELETE of the transaction.
LEMMA DeleteGrantsStep ==
    ASSUME AgentsInv, NEW c \in AgentClients, agentCall[c].pc = "setcaps", PostgresDeleteGrants(c),
           UNCHANGED <<agentStore, projectsGone>>
    PROVE  AgentsInv'
  <1>1. PICK call \in AgentCalls, row \in Agent :
           /\ call = agentCall[c] /\ call.id \in AgentIds /\ row = agentRow[call.id] /\ row # None
           /\ call.saw \in Agent /\ call.held \in Agent /\ AgentCallInv(c)
    BY CallKnows
  <1>2. PICK sees \in SUBSET Catalog : sees = agentJoin[call.id]
    BY <1>1 DEF AgentsInv, AgentsTypeOK
  <1>3. PICK next \in AgentCalls :
           next = [call EXCEPT !.pc = "replacing", !.sees = sees, !.alone = TRUE]
    BY DEF AgentCalls, AgentPCs
  <1>4. /\ next.pc = "replacing" /\ next.id = call.id /\ next.caps = call.caps
        /\ next.saw = call.saw /\ next.held = call.held /\ next.sees = sees
    BY <1>3 DEF AgentCalls
  <1>5. agentCall' = [agentCall EXCEPT ![c] = next]
    <2>1. agentCall' = [agentCall EXCEPT ![c].pc = "replacing", ![c].sees = sees, ![c].alone = TRUE]
      BY <1>1, <1>2 DEF PostgresDeleteGrants
    <2>2. QED
      BY <1>1, <1>3, <2>1 DEF AgentsInv, AgentsTypeOK
  <1>6. /\ UNCHANGED <<agentStore, agentRow, agentJoin, projectsGone, capsRaced>>
        /\ agentCall'[c] = next
    BY <1>5, CallWrite DEF AgentsInv, PostgresDeleteGrants
  <1>7. AgentCallInv(c)'
    <2>1. /\ call.saw # None /\ SameAtVersion(call.saw, row) /\ ~call.saw.retired
          /\ call.caps \in (SUBSET Catalog) \ {{}}
          /\ call.held # None /\ call.held.version <= row.version
          /\ call.held.version = row.version => call.held.caps = row.caps /\ call.held.retired = row.retired
      BY <1>1 DEF AgentCallInv
    <2>2. SameAtVersion(call.saw, row)' /\ agentRow'[next.id] = row /\ agentJoin'[next.id] = sees
      BY <1>1, <1>2, <1>4, <1>6, <2>1 DEF SameAtVersion
    <2>3. QED
      BY <1>4, <1>6, <2>1, <2>2 DEF AgentCallInv
  <1>8. QED
    BY <1>1, <1>4, <1>5, <1>6, <1>7, AgentsReading

\* What a commit makes of the calls: those that race with it are no longer
\* alone.
LEMMA CommitCalls ==
    ASSUME AgentsTypeOK, NEW c \in AgentClients, CommitSeenBy(c)
    PROVE  /\ agentCall' \in [AgentClients -> AgentCalls]
           /\ agentCall'[c] = [agentCall[c] EXCEPT !.pc = "reread", !.sees = {}, !.alone = FALSE]
           /\ \A d \in AgentClients \ {c} :
                 /\ SameRequest(agentCall[d], agentCall'[d])
                 /\ agentCall'[d].pc = "replacing" /\ agentCall'[d].alone =>
                       agentCall[d].id # agentCall[c].id /\ agentCall'[d] = agentCall[d]
  <1>1. agentCall \in [AgentClients -> AgentCalls]
    BY DEF AgentsTypeOK
  <1>2. PICK mine \in AgentCalls : mine = agentCall[c]
    BY <1>1
  <1>3. /\ agentCall'[c] = [mine EXCEPT !.pc = "reread", !.sees = {}, !.alone = FALSE]
        /\ agentCall'[c] \in AgentCalls
    <2>1. agentCall'[c] = [mine EXCEPT !.pc = "reread", !.sees = {}, !.alone = FALSE]
      BY <1>2 DEF CommitSeenBy
    <2>2. [mine EXCEPT !.pc = "reread", !.sees = {}, !.alone = FALSE] \in AgentCalls
      BY DEF AgentCalls, AgentPCs
    <2>3. QED
      BY <2>1, <2>2
  <1>4. ASSUME NEW d \in AgentClients \ {c}
        PROVE  /\ agentCall'[d] \in AgentCalls
               /\ SameRequest(agentCall[d], agentCall'[d])
               /\ agentCall'[d].pc = "replacing" /\ agentCall'[d].alone =>
                     agentCall[d].id # agentCall[c].id /\ agentCall'[d] = agentCall[d]
    <2>1. PICK call \in AgentCalls : call = agentCall[d]
      BY <1>1
    <2>2. CASE call.pc = "replacing" /\ call.id = mine.id
      <3>1. agentCall'[d] = [call EXCEPT !.sees = @ \ mine.sees, !.alone = FALSE]
        BY <1>2, <2>1, <2>2 DEF CommitSeenBy
      <3>2. PICK next \in AgentCalls : next = [call EXCEPT !.sees = @ \ mine.sees, !.alone = FALSE]
        BY <1>2, CallFields DEF AgentCalls
      <3>3. SameRequest(call, next) /\ ~next.alone
        BY <3>2 DEF AgentCalls, SameRequest
      <3>4. QED
        BY <2>1, <3>1, <3>2, <3>3
    <2>3. CASE ~(call.pc = "replacing" /\ call.id = mine.id)
      <3>1. agentCall'[d] = call
        BY <1>2, <2>1, <2>3 DEF CommitSeenBy
      <3>2. QED
        BY <1>2, <2>1, <2>3, <3>1 DEF SameRequest
    <2>4. QED
      BY <2>2, <2>3
  <1>5. agentCall' \in [AgentClients -> AgentCalls]
    <2>1. agentCall' = [d \in AgentClients |-> agentCall'[d]]
      BY DEF CommitSeenBy
    <2>2. \A d \in AgentClients : agentCall'[d] \in AgentCalls
      BY <1>3, <1>4
    <2>3. QED
      BY <2>1, <2>2
  <1>6. QED
    BY <1>2, <1>3, <1>4, <1>5

\* The commit: the join is the new list when nobody overtook the transaction,
\* and has all of it in any case.
LEMMA CommitStep ==
    ASSUME AgentsInv, NEW c \in AgentClients, agentCall[c].pc = "replacing",
           AgentInBounds(agentCall[c].id), PostgresSetCapabilities(c),
           UNCHANGED <<agentStore, projectsGone>>
    PROVE  AgentsInv'
  <1>1. PICK call \in AgentCalls, row \in Agent :
           /\ call = agentCall[c] /\ call.id \in AgentIds /\ row = agentRow[call.id] /\ row # None
           /\ call.pc = "replacing" /\ AgentCallInv(c)
    BY CallKnows
  <1>2. PICK a \in AgentIds : a = call.id
    BY <1>1
  <1>3. PICK names \in (SUBSET Catalog) \ {{}} : names = call.caps
    BY <1>1 DEF AgentCallInv
  <1>4. agentRow' = [agentRow EXCEPT ![a].caps = names, ![a].version = @ + 1]
    BY <1>1, <1>2, <1>3 DEF PostgresSetCapabilities
  <1>5. PICK new \in Agent :
           /\ new.caps = names /\ new.version = row.version + 1 /\ agentRow'[a] = new
           /\ agentRow' \in [AgentIds -> Agent \cup {None}]
           /\ \A b \in AgentIds \ {a} : agentRow'[b] = agentRow[b]
           /\ \A b \in AgentIds : Grown(b)
    <2>1. WritesNames(a, row, names)
      BY <1>1, <1>2, <1>4 DEF WritesNames
    <2>2. PICK new \in Agent : HasNames(a, row, names, new)
      BY <2>1, NamesWritten
    <2>3. QED
      BY <2>2 DEF HasNames
  <1>6. /\ agentJoin' \in [AgentIds -> SUBSET Catalog]
        /\ agentJoin'[a] = (agentJoin[a] \ call.sees) \cup names
        /\ \A b \in AgentIds \ {a} : agentJoin'[b] = agentJoin[b]
    <2>1. agentJoin \in [AgentIds -> SUBSET Catalog]
      BY DEF AgentsInv, AgentsTypeOK
    <2>2. agentJoin' = [agentJoin EXCEPT ![a] = (@ \ call.sees) \cup names]
      <3>1. call.caps \cap Catalog = names
        BY <1>3
      <3>2. QED
        BY <1>1, <1>2, <3>1 DEF PostgresSetCapabilities
    <2>3. (agentJoin[a] \ call.sees) \cup names \in SUBSET Catalog
      BY <2>1
    <2>4. QED
      BY <2>1, <2>2, <2>3
  <1>7. /\ capsRaced' \in SUBSET AgentIds /\ capsRaced' \ {a} = capsRaced \ {a}
        /\ a \notin capsRaced' => call.alone
    BY <1>1, <1>2 DEF PostgresSetCapabilities, AgentsInv, AgentsTypeOK
  <1>8. CachedIsGranted'
    <2>1. SUFFICES ASSUME agentStore = "postgres", NEW b \in AgentIds, agentJoin'[b] # {}
                   PROVE  /\ agentRow'[b].caps \subseteq agentJoin'[b]
                          /\ b \notin capsRaced' => agentRow'[b].caps = agentJoin'[b]
      BY DEF CachedIsGranted, PostgresListCapabilitiesByAgent
    <2>2. CASE b = a
      <3>1. names \subseteq agentJoin'[a]
        BY <1>6
      <3>2. call.alone => agentJoin'[a] = names
        BY <1>1, <1>2, <1>6 DEF AgentCallInv
      <3>3. QED
        BY <1>5, <1>7, <2>2, <3>1, <3>2
    <2>3. CASE b # a
      BY <1>5, <1>6, <1>7, <2>1, <2>3 DEF AgentsInv, CachedIsGranted, PostgresListCapabilitiesByAgent
    <2>4. QED
      BY <2>2, <2>3
  <1>9. /\ agentCall' \in [AgentClients -> AgentCalls]
        /\ agentCall'[c] = [call EXCEPT !.pc = "reread", !.sees = {}, !.alone = FALSE]
        /\ \A d \in AgentClients \ {c} :
              /\ SameRequest(agentCall[d], agentCall'[d])
              /\ agentCall'[d].pc = "replacing" /\ agentCall'[d].alone =>
                    agentCall[d].id # a /\ agentCall'[d] = agentCall[d]
    BY <1>1, <1>2, CommitCalls DEF PostgresSetCapabilities, AgentsInv
  <1>10. AgentCallInv(c)' /\ agentCall'[c].id = a
    <2>1. PICK next \in AgentCalls :
             /\ next = agentCall'[c]
             /\ next = [call EXCEPT !.pc = "reread", !.sees = {}, !.alone = FALSE]
      BY <1>9
    <2>2. /\ next = [call EXCEPT !.pc = "reread", !.sees = next.sees, !.alone = next.alone]
          /\ next.id = a
      BY <1>2, <2>1 DEF AgentCalls
    <2>3. HasReplaced(c, call, next, row, new)
      BY <1>1, <1>2, <1>5, <2>1, <2>2 DEF HasReplaced
    <2>4. QED
      BY <2>1, <2>2, <2>3, ReplacedInv
  <1>11. ASSUME NEW d \in AgentClients
         PROVE  /\ AgentCallInv(d)'
                /\ agentCall'[d].pc # "idle" =>
                      agentCall'[d].id \in AgentIds /\ agentRow'[agentCall'[d].id] # None
    <2>1. CASE d = c
      BY <1>2, <1>5, <1>10, <2>1, RowFields
    <2>2. CASE d # c
      <3>1. DeletedAll(d)'
        <4>1. SUFFICES ASSUME agentCall'[d].pc = "replacing", agentCall'[d].alone
                       PROVE  agentJoin'[agentCall'[d].id] \subseteq agentCall'[d].sees
          BY DEF DeletedAll
        <4>2. agentCall[d].id # a /\ agentCall'[d] = agentCall[d]
          BY <1>9, <2>2, <4>1
        <4>3. agentCall[d].id \in AgentIds
          BY <4>1, <4>2 DEF AgentsInv, AgentsTypeOK
        <4>4. QED
          BY <1>6, <4>1, <4>2, <4>3 DEF AgentsInv, AgentCallInv
      <3>2. QED
        BY <1>5, <1>9, <2>2, <3>1, CallKeeps
    <2>3. QED
      BY <2>1, <2>2
  <1>12. \A b \in AgentIds : agentRow'[b] = None => agentJoin'[b] = {}
    BY <1>5, <1>6, RowFields DEF AgentsInv
  <1>13. QED
    BY <1>5, <1>6, <1>7, <1>8, <1>9, <1>11, <1>12 DEF AgentsInv, AgentsTypeOK

\* SetCapabilities of either store.
LEMMA UpdateCapabilitiesStep ==
    ASSUME AgentsInv, NEW c \in AgentClients, UpdateAgentCapabilities(c)
    PROVE  AgentsInv'
  <1>1. /\ agentCall[c].pc \in {"setcaps", "replacing"} /\ AgentInBounds(agentCall[c].id)
        /\ UNCHANGED <<agentStore, projectsGone>>
    BY DEF UpdateAgentCapabilities
  <1>2. CASE agentStore = "memory" /\ MemorySetCapabilities(c)
    BY <1>1, <1>2, MemoryCapabilitiesStep
  <1>3. CASE agentCall[c].pc = "setcaps" /\ PostgresDeleteGrants(c)
    BY <1>1, <1>3, DeleteGrantsStep
  <1>4. CASE agentCall[c].pc = "replacing" /\ PostgresSetCapabilities(c)
    BY <1>1, <1>4, CommitStep
  <1>5. CASE PostgresRollback(c)
    BY <1>1, <1>5, AnsweredStep DEF PostgresRollback, AgentAnswered
  <1>6. QED
    BY <1>2, <1>3, <1>4, <1>5 DEF UpdateAgentCapabilities

\* ON DELETE CASCADE: an agent shows none of its grants, and the transactions on
\* it have none left to delete.
LEMMA ProjectDeletedStep ==
    ASSUME AgentsInv, NEW p \in AgentProjects, ProjectDeleted(p)
    PROVE  AgentsInv'
  <1>1. UNCHANGED <<agentStore, agentRow, agentCall, capsRaced>>
    BY DEF ProjectDeleted
  <1>2. /\ agentJoin' \in [AgentIds -> SUBSET Catalog]
        /\ \A b \in AgentIds : agentJoin'[b] \in {{}, agentJoin[b]}
    BY DEF ProjectDeleted, AgentsInv, AgentsTypeOK
  <1>3. /\ \A b \in AgentIds : Grown(b)
        /\ agentRow' \in [AgentIds -> Agent \cup {None}]
    BY <1>1, RowsStay DEF AgentsInv, AgentsTypeOK
  <1>4. CachedIsGranted' /\ \A b \in AgentIds : agentRow'[b] = None => agentJoin'[b] = {}
    BY <1>1, <1>2 DEF AgentsInv, CachedIsGranted, PostgresListCapabilitiesByAgent
  <1>5. ASSUME NEW d \in AgentClients
        PROVE  /\ AgentCallInv(d)'
               /\ agentCall'[d].pc # "idle" =>
                     agentCall'[d].id \in AgentIds /\ agentRow'[agentCall'[d].id] # None
    <2>1. SameRequest(agentCall[d], agentCall'[d])
      BY <1>1 DEF SameRequest
    <2>2. DeletedAll(d)'
      <3>1. SUFFICES ASSUME agentCall[d].pc = "replacing", agentCall[d].alone
                     PROVE  agentJoin'[agentCall[d].id] \subseteq agentCall[d].sees
        BY <1>1 DEF DeletedAll
      <3>2. /\ agentJoin[agentCall[d].id] \subseteq agentCall[d].sees
            /\ agentCall[d].id \in AgentIds
        BY <3>1 DEF AgentsInv, AgentCallInv, AgentsTypeOK
      <3>3. QED
        BY <1>2, <3>2
    <2>3. QED
      BY <1>1, <1>3, <2>1, <2>2, CallKeeps
  <1>6. projectsGone' \in SUBSET AgentProjects
    BY DEF ProjectDeleted, AgentsInv, AgentsTypeOK
  <1>7. QED
    BY <1>1, <1>2, <1>3, <1>4, <1>5, <1>6 DEF AgentsInv, AgentsTypeOK

LEMMA UpdateRereadStep ==
    ASSUME AgentsInv, NEW c \in AgentClients, UpdateAgentReread(c)
    PROVE  AgentsInv'
  <1>1. PICK call \in AgentCalls, row \in Agent :
           /\ call = agentCall[c] /\ call.id \in AgentIds /\ row = agentRow[call.id] /\ row # None
           /\ call.pc = "reread" /\ call.saw \in Agent /\ call.held \in Agent /\ AgentCallInv(c)
    BY CallKnows DEF UpdateAgentReread
  <1>0. CASE GetAgent(call.id, call.held.project) # 0
    BY <1>1, <1>0, AnsweredStep DEF UpdateAgentReread, AgentAnswered
  <1>a. SUFFICES ASSUME GetAgent(call.id, call.held.project) = 0 PROVE AgentsInv'
    BY <1>0
  <1>2. PICK held \in Agent :
           /\ held = [row EXCEPT !.details = call.held.details, !.status = call.held.status]
           /\ held.version = row.version /\ held.caps = row.caps /\ held.retired = row.retired
    <2>1. [row EXCEPT !.details = call.held.details, !.status = call.held.status] \in Agent
      BY <1>1, RowFields DEF Agent
    <2>2. QED
      BY <2>1 DEF Agent
  <1>3. PICK next \in AgentCalls :
           /\ agentCall' = [agentCall EXCEPT ![c] = next]
           /\ next.pc = "write" /\ next.id = call.id /\ next.caps = call.caps
           /\ next.saw = call.saw /\ next.held = held
    <2>1. PICK next \in AgentCalls : next = [call EXCEPT !.pc = "write", !.held = held]
      BY DEF AgentCalls, AgentPCs
    <2>2. /\ next.pc = "write" /\ next.id = call.id /\ next.caps = call.caps
          /\ next.saw = call.saw /\ next.held = held
      BY <2>1 DEF AgentCalls
    <2>3. agentCall' = [agentCall EXCEPT ![c].pc = "write", ![c].held = held]
      BY <1>1, <1>a, <1>2 DEF UpdateAgentReread
    <2>4. agentCall' = [agentCall EXCEPT ![c] = next]
      BY <1>1, <2>1, <2>3 DEF AgentsInv, AgentsTypeOK
    <2>5. QED
      BY <2>1, <2>2, <2>4
  <1>4. agentCall'[c] = next /\ UNCHANGED <<agentStore, agentRow, agentJoin, projectsGone, capsRaced>>
    BY <1>3, CallWrite DEF AgentsInv, UpdateAgentReread
  <1>5. AgentCallInv(c)'
    <2>1. /\ call.saw # None /\ SameAtVersion(call.saw, row) /\ ~call.saw.retired
          /\ call.caps \in (SUBSET Catalog) \ {{}}
      BY <1>1 DEF AgentCallInv
    <2>2. SameAtVersion(call.saw, row)' /\ agentRow'[next.id] = row
      BY <1>1, <1>3, <1>4, <2>1 DEF SameAtVersion
    <2>3. call.caps # Keep
      BY <2>1, AgentsAssumption
    <2>4. held # None /\ held.version <= row.version
      BY <1>2, RowFields
    <2>5. QED
      BY <1>2, <1>3, <1>4, <2>1, <2>2, <2>3, <2>4 DEF AgentCallInv
  <1>6. QED
    BY <1>1, <1>3, <1>4, <1>5, AgentsReading

LEMMA UpdateWriteStep ==
    ASSUME AgentsInv, NEW c \in AgentClients, UpdateAgentWrite(c)
    PROVE  AgentsInv'
  <1>1. PICK call \in AgentCalls, row \in Agent :
           /\ call = agentCall[c] /\ call.id \in AgentIds /\ row = agentRow[call.id] /\ row # None
           /\ call.pc = "write" /\ call.held \in Agent /\ AgentCallInv(c)
    BY CallKnows DEF UpdateAgentWrite
  <1>2. CASE ~StoreUpdates(call.id, call.held)
    BY <1>1, <1>2, AnsweredStep DEF UpdateAgentWrite, AgentAnswered
  <1>3. CASE StoreUpdates(call.id, call.held)
    <2>1. call.held.version = row.version => call.held.caps = row.caps /\ call.held.retired = row.retired
      BY <1>1 DEF AgentCallInv
    <2>2. PICK new \in Agent : /\ new = StoreWritten(call.id, call.held) /\ SameAtVersion(row, new)
                               /\ agentStore = "postgres" => new.caps = row.caps
      <3>1. AgentInBounds(call.id)
        BY <1>1 DEF UpdateAgentWrite
      <3>2. QED
        BY <1>1, <1>3, <2>1, <3>1, StoreWrites DEF AgentsInv
    <2>3. agentRow' = [agentRow EXCEPT ![call.id] = new]
      BY <1>1, <1>3, <2>2 DEF UpdateAgentWrite
    <2>4. PICK next \in AgentCalls : /\ agentCall' = [agentCall EXCEPT ![c] = next]
                                     /\ next.pc = "reply" /\ next.id = call.id
      <3>1. PICK next \in AgentCalls : next = [call EXCEPT !.pc = "reply"]
        BY DEF AgentCalls, AgentPCs
      <3>2. next.pc = "reply" /\ next.id = call.id
        BY <3>1 DEF AgentCalls
      <3>3. agentCall' = [agentCall EXCEPT ![c].pc = "reply"]
        BY <1>1, <1>3 DEF UpdateAgentWrite
      <3>4. agentCall' = [agentCall EXCEPT ![c] = next]
        BY <1>1, <3>1, <3>3 DEF AgentsInv, AgentsTypeOK
      <3>5. QED
        BY <3>1, <3>2, <3>4
    <2>5. AgentCallInv(c)'
      <3>1. agentCall'[c] = next
        BY <2>4, CallWrite DEF AgentsInv
      <3>2. QED
        BY <2>4, <3>1 DEF AgentCallInv
    <2>6. UNCHANGED <<agentStore, agentJoin, projectsGone, capsRaced>>
      BY DEF UpdateAgentWrite
    <2>7. QED
      BY <1>1, <2>2, <2>3, <2>4, <2>5, <2>6, WritingStep
  <1>4. QED
    BY <1>2, <1>3

LEMMA UpdateReplyStep ==
    ASSUME AgentsInv, NEW c \in AgentClients, UpdateAgentReply(c)
    PROVE  AgentsInv'
  <1>1. PICK call \in AgentCalls, row \in Agent :
           call = agentCall[c] /\ call.id \in AgentIds /\ row = agentRow[call.id] /\ row # None
    BY CallKnows DEF UpdateAgentReply
  <1>2. CASE GetAgent(call.id, call.held.project) # 0
    BY <1>1, <1>2, AnsweredStep DEF UpdateAgentReply, AgentAnswered
  <1>3. CASE GetAgent(call.id, call.held.project) = 0
    BY <1>1, <1>3, SeenStep DEF UpdateAgentReply
  <1>4. QED
    BY <1>2, <1>3

\* SoftDelete, and the write of CreateProject.
LEMMA RetireWriteStep ==
    ASSUME AgentsInv, NEW c \in AgentClients, RetireAgentWrite(c)
    PROVE  AgentsInv'
  <1>1. PICK call \in AgentCalls, row \in Agent :
           call = agentCall[c] /\ call.id \in AgentIds /\ row = agentRow[call.id] /\ row # None
    BY CallKnows DEF RetireAgentWrite
  <1>2. CASE ~SoftDeletes(call.id)
    BY <1>1, <1>2, AnsweredStep DEF RetireAgentWrite, AgentAnswered
  <1>3. CASE SoftDeletes(call.id)
    <2>1. row.version \in 1..MaxAgentVersion
      BY <1>1, RowFields, AgentsAssumption DEF RetireAgentWrite, AgentInBounds
    <2>2. PICK new \in Agent : /\ new = Retired(row)
                               /\ new.version = row.version + 1 /\ new.caps = row.caps
      <3>1. PICK next \in 1..MaxAgentVersion + 1 : next = row.version + 1
        BY <2>1, AgentsAssumption
      <3>2. [row EXCEPT !.status = "retired", !.retired = TRUE, !.version = next] \in Agent
        BY DEF Agent, AgentStatuses
      <3>3. Retired(row) = [row EXCEPT !.status = "retired", !.retired = TRUE, !.version = next]
        BY <3>1 DEF Agent, Retired
      <3>4. QED
        BY <3>1, <3>2, <3>3 DEF Agent
    <2>3. SameAtVersion(row, new)
      BY <2>1, <2>2 DEF SameAtVersion
    <2>4. agentRow' = [agentRow EXCEPT ![call.id] = new]
      BY <1>1, <1>3, <2>2 DEF RetireAgentWrite
    <2>5. agentCall' = [agentCall EXCEPT ![c] = IdleCall] /\ UNCHANGED <<agentStore, agentJoin, projectsGone, capsRaced>>
      BY <1>3 DEF RetireAgentWrite, AgentAnswered
    <2>6. IdleCall \in AgentCalls /\ IdleCall.pc = "idle" /\ AgentCallInv(c)'
      BY <2>5, IdleInv DEF AgentsInv
    <2>7. QED
      BY <1>1, <2>2, <2>3, <2>4, <2>5, <2>6, WritingStep
  <1>4. QED
    BY <1>2, <1>3

LEMMA ClaimWriteStep ==
    ASSUME AgentsInv, NEW c \in AgentClients, ClaimAgentWrite(c)
    PROVE  AgentsInv'
  <1>1. PICK call \in AgentCalls, row \in Agent :
           /\ call = agentCall[c] /\ call.id \in AgentIds /\ row = agentRow[call.id] /\ row # None
           /\ call.pc = "claim" /\ call.held \in Agent /\ AgentCallInv(c)
    BY CallKnows DEF ClaimAgentWrite
  <1>2. agentCall' = [agentCall EXCEPT ![c] = IdleCall] /\ UNCHANGED <<agentStore, agentJoin, projectsGone, capsRaced>>
    BY DEF ClaimAgentWrite, AgentAnswered
  <1>3. CASE ~StoreUpdates(call.id, call.held)
    BY <1>1, <1>2, <1>3, AnsweredStep DEF ClaimAgentWrite
  <1>4. CASE StoreUpdates(call.id, call.held)
    <2>1. call.held.version = row.version => call.held.caps = row.caps /\ call.held.retired = row.retired
      BY <1>1 DEF AgentCallInv
    <2>2. PICK new \in Agent : /\ new = StoreWritten(call.id, call.held) /\ SameAtVersion(row, new)
                               /\ agentStore = "postgres" => new.caps = row.caps
      <3>1. AgentInBounds(call.id)
        BY <1>1 DEF ClaimAgentWrite
      <3>2. QED
        BY <1>1, <1>4, <2>1, <3>1, StoreWrites DEF AgentsInv
    <2>3. agentRow' = [agentRow EXCEPT ![call.id] = new]
      BY <1>1, <1>4, <2>2 DEF ClaimAgentWrite
    <2>4. IdleCall \in AgentCalls /\ IdleCall.pc = "idle" /\ AgentCallInv(c)'
      BY <1>2, IdleInv DEF AgentsInv
    <2>5. QED
      BY <1>1, <1>2, <2>2, <2>3, <2>4, WritingStep
  <1>5. QED
    BY <1>3, <1>4

-----------------------------------------------------------------------------
\* The registry's theorems.

LEMMA AgentsInitially == AgentsInit => AgentsInv
  <1>1. SUFFICES ASSUME AgentsInit PROVE AgentsInv
    OBVIOUS
  <1>2. \A c \in AgentClients : agentCall[c] = IdleCall
    BY <1>1 DEF AgentsInit
  <1>3. AgentsTypeOK
    BY <1>1, <1>2, IdleFields DEF AgentsInit, AgentsTypeOK
  <1>4. CachedIsGranted /\ \A a \in AgentIds : agentRow[a] = None => agentJoin[a] = {}
    BY <1>1 DEF AgentsInit, CachedIsGranted, PostgresListCapabilitiesByAgent
  <1>5. \A c \in AgentClients : AgentCallInv(c)
    BY <1>2, IdleFields DEF AgentCallInv
  <1>6. QED
    BY <1>3, <1>4, <1>5 DEF AgentsInv

\* A step of a client.
ClientStep(c) ==
    \/ \E p \in AgentProjects, n \in AgentNames, d \in AgentDetails,
          names \in SUBSET (Catalog \cup {Unknown}) : CreateAgent(c, p, n, d, names)
    \/ \E a \in AgentIds, p \in AgentProjects :
          FetchAgent(c, a, p) \/ RetireAgentRead(c, a, p) \/ ClaimAgentRead(c, a, p)
    \/ \E p \in AgentProjects, put \in AgentPut : UpdateAgentRead(c, p, put)
    \/ UpdateAgentCapabilities(c) \/ UpdateAgentReread(c) \/ UpdateAgentWrite(c)
    \/ UpdateAgentReply(c) \/ RetireAgentWrite(c) \/ ClaimAgentWrite(c)
    \/ LeaveAgent(c)

LEMMA AgentsStepInv == AgentsInv /\ [AgentsNext]_agentVars => AgentsInv'
  <1>1. SUFFICES ASSUME AgentsInv, [AgentsNext]_agentVars PROVE AgentsInv'
    OBVIOUS
  <1>2. CASE UNCHANGED agentVars
    BY <1>1, <1>2 DEF agentVars, AgentsInv, AgentsTypeOK, CachedIsGranted, AgentCallInv,
       SameAtVersion, PostgresListCapabilitiesByAgent
  <1>a. ASSUME NEW p \in AgentProjects, ProjectDeleted(p) PROVE AgentsInv'
    BY <1>1, <1>a, ProjectDeletedStep
  <1>3. CASE \E c \in AgentClients : ClientStep(c)
    <2>1. PICK c \in AgentClients : ClientStep(c)
      BY <1>3
    <2>2. LeaveAgent(c) => AgentsInv'
      BY <1>1, AnsweredStep DEF LeaveAgent
    <2>3. QED
      BY <1>1, <2>1, <2>2, CreateAgentStep, FetchStep, RetireReadStep, ClaimReadStep, UpdateReadStep,
         UpdateCapabilitiesStep, UpdateRereadStep, UpdateWriteStep, UpdateReplyStep,
         RetireWriteStep, ClaimWriteStep DEF ClientStep
  <1>4. QED
    BY <1>1, <1>2, <1>a, <1>3 DEF AgentsNext, ClientStep

\* What a call knows of a row by the version it read holds in every reachable
\* state, whichever store main wired in.
THEOREM AgentsInvariant == AgentsSpec => []AgentsInv
  BY AgentsInitially, AgentsStepInv, PTL DEF AgentsSpec

\* Every capability that an agent of postgres shows is granted in the join
\* table, however the transactions of SetCapabilities overlap; the two lists are
\* the same when the last of them had not overlapped another.
THEOREM CacheIsGranted == AgentsSpec => []CachedIsGranted
  <1>1. AgentsInv => CachedIsGranted
    BY DEF AgentsInv
  <1>2. QED
    BY <1>1, AgentsInvariant, PTL

\* A step of one client leaves the requests of the others alone.
LEMMA OthersCalls ==
    ASSUME AgentsInv, NEW c \in AgentClients, NEW d \in AgentClients, c # d, ClientStep(d)
    PROVE  agentCall'[c].pc = agentCall[c].pc
  <1>1. agentCall \in [AgentClients -> AgentCalls]
    BY DEF AgentsInv, AgentsTypeOK
  <1>2. ASSUME NEW p, NEW n, NEW t, NEW names, CreateAgent(d, p, n, t, names)
        PROVE  agentCall'[c] = agentCall[c]
    BY <1>1, <1>2 DEF CreateAgent, AgentAnswered
  <1>3. ASSUME NEW a, NEW p, FetchAgent(d, a, p) \/ RetireAgentRead(d, a, p) \/ ClaimAgentRead(d, a, p)
        PROVE  agentCall'[c] = agentCall[c]
    BY <1>1, <1>3 DEF FetchAgent, RetireAgentRead, ClaimAgentRead, AgentAnswered
  <1>4. ASSUME NEW p, NEW put, UpdateAgentRead(d, p, put)
        PROVE  agentCall'[c] = agentCall[c]
    BY <1>1, <1>4 DEF UpdateAgentRead, AgentAnswered
  <1>5. ASSUME UpdateAgentCapabilities(d) PROVE agentCall'[c].pc = agentCall[c].pc
    <2>1. CASE PostgresSetCapabilities(d)
      <3>1. AgentsTypeOK /\ CommitSeenBy(d) /\ c \in AgentClients \ {d}
        BY <2>1 DEF PostgresSetCapabilities, AgentsInv
      <3>2. SameRequest(agentCall[c], agentCall'[c])
        BY <3>1, CommitCalls
      <3>3. QED
        BY <3>2 DEF SameRequest
    <2>2. CASE MemorySetCapabilities(d) \/ PostgresDeleteGrants(d) \/ PostgresRollback(d)
      BY <1>1, <2>2 DEF MemorySetCapabilities, PostgresDeleteGrants, PostgresRollback, AgentAnswered
    <2>3. QED
      BY <1>5, <2>1, <2>2 DEF UpdateAgentCapabilities
  <1>6. ASSUME UpdateAgentReread(d) \/ UpdateAgentWrite(d) \/ UpdateAgentReply(d)
        PROVE  agentCall'[c] = agentCall[c]
    BY <1>1, <1>6 DEF UpdateAgentReread, UpdateAgentWrite, UpdateAgentReply, AgentAnswered
  <1>7. ASSUME RetireAgentWrite(d) \/ ClaimAgentWrite(d) \/ LeaveAgent(d)
        PROVE  agentCall'[c] = agentCall[c]
    BY <1>1, <1>7 DEF RetireAgentWrite, ClaimAgentWrite, LeaveAgent, AgentAnswered
  <1>8. QED
    BY <1>2, <1>3, <1>4, <1>5, <1>6, <1>7 DEF ClientStep

\* Who writes a row back is UpdateAgent, when the store accepts it.
LEMMA WriterUpdates ==
    ASSUME AgentsInv, AgentsNext, NEW c \in AgentClients, WritesRow(c)
    PROVE  UpdateAgentWrite(c) /\ StoreUpdates(agentCall[c].id, agentCall[c].held)
  <1>1. agentCall[c].pc = "write" /\ agentCall'[c].pc = "reply"
    BY DEF WritesRow
  <1>2. \A p \in AgentProjects : ~ProjectDeleted(p)
    BY <1>1 DEF ProjectDeleted
  <1>3. PICK d \in AgentClients : ClientStep(d)
    BY <1>2 DEF AgentsNext, ClientStep
  <1>4. d = c
    BY <1>1, <1>3, OthersCalls
  <1>5. UpdateAgentWrite(c)
    BY <1>1, <1>3, <1>4 DEF ClientStep, CreateAgent, FetchAgent, RetireAgentRead, ClaimAgentRead,
       UpdateAgentRead, UpdateAgentCapabilities, UpdateAgentReread, UpdateAgentReply,
       RetireAgentWrite, ClaimAgentWrite, LeaveAgent
  <1>6. AgentAnswered(c) => agentCall'[c].pc = "idle"
    BY IdleFields DEF AgentAnswered, AgentsInv, AgentsTypeOK
  <1>7. QED
    BY <1>1, <1>5, <1>6 DEF UpdateAgentWrite

\* What such a write finds: a row of the version it holds.
LEMMA WriterSees ==
    ASSUME AgentsInv, AgentsNext, NEW c \in AgentClients, WritesRow(c)
    PROVE  \E saw, row, held \in Agent :
              /\ saw = agentCall[c].saw /\ row = agentRow[agentCall[c].id] /\ held = agentCall[c].held
              /\ held.version = row.version /\ held.retired = row.retired
              /\ SameAtVersion(saw, row) /\ ~saw.retired
              /\ agentCall[c].caps = Keep => saw.version = row.version
  <1>1. PICK call \in AgentCalls, row \in Agent :
           /\ call = agentCall[c] /\ row = agentRow[call.id] /\ call.pc = "write"
           /\ call.held \in Agent /\ call.saw \in Agent /\ AgentCallInv(c)
    BY CallKnows DEF WritesRow
  <1>2. call.held.version = row.version
    BY <1>1, WriterUpdates DEF StoreUpdates, MemoryUpdates, PostgresUpdates
  <1>3. /\ SameAtVersion(call.saw, row) /\ ~call.saw.retired
        /\ call.held.retired = row.retired
        /\ call.caps = Keep => call.saw.version = row.version
    BY <1>1, <1>2 DEF AgentCallInv
  <1>4. QED
    BY <1>1, <1>2, <1>3

\* An update that leaves the capabilities alone overwrites nothing that its
\* client has not seen.
THEOREM NothingUnseenOverwritten == AgentsSpec => NoUnseenOverwrite
  <1> DEFINE Seen ==
        \A c \in AgentClients :
          (WritesRow(c) /\ agentCall[c].caps = Keep) =>
             LET row == agentRow[agentCall[c].id]
                 saw == agentCall[c].saw
             IN  IF agentStore = "memory"
                 THEN row = saw
                 ELSE row.caps = saw.caps /\ row.retired = saw.retired
  <1>1. ASSUME AgentsInv, [AgentsNext]_agentVars PROVE [Seen]_agentVars
    <2>1. SUFFICES ASSUME AgentsNext, NEW c \in AgentClients, WritesRow(c), agentCall[c].caps = Keep
                   PROVE  LET row == agentRow[agentCall[c].id]
                              saw == agentCall[c].saw
                          IN  IF agentStore = "memory"
                              THEN row = saw
                              ELSE row.caps = saw.caps /\ row.retired = saw.retired
      BY <1>1
    <2>2. PICK saw, row \in Agent :
             /\ saw = agentCall[c].saw /\ row = agentRow[agentCall[c].id]
             /\ SameAtVersion(saw, row) /\ saw.version = row.version
      BY <1>1, <2>1, WriterSees
    <2>3. QED
      BY <2>2 DEF SameAtVersion
  <1>2. QED
    BY <1>1, AgentsInvariant, PTL DEF AgentsSpec, NoUnseenOverwrite

\* What RetirementIsFinal says of one retired agent.
StaysRetired(a) ==
    /\ agentRow'[a].retired
    /\ \/ /\ agentRow'[a].status = agentRow[a].status \/ agentRow'[a].status = "retired"
          /\ agentRow'[a].details = agentRow[a].details
       \/ /\ agentStore = "memory"
          /\ \E c \in AgentClients :
                /\ WritesRow(c) /\ agentCall[c].id = a
                /\ agentCall[c].caps # Keep /\ ~agentCall[c].saw.retired

\* No write of a retired agent's row brings it back.
LEMMA RetiredWrites ==
    ASSUME AgentsInv, AgentsNext, NEW a \in AgentIds, agentRow[a] # None, agentRow[a].retired,
           NEW c \in AgentClients,
           \/ UpdateAgentCapabilities(c) \/ UpdateAgentWrite(c)
           \/ RetireAgentWrite(c) \/ ClaimAgentWrite(c)
    PROVE  StaysRetired(a)
  <1>1. agentCall[c].pc # "idle"
    BY DEF UpdateAgentCapabilities, UpdateAgentWrite, RetireAgentWrite, ClaimAgentWrite
  <1>2. PICK call \in AgentCalls, row \in Agent :
           /\ call = agentCall[c] /\ row = agentRow[call.id] /\ call.id \in AgentIds /\ AgentCallInv(c)
           /\ call.pc \in {"setcaps", "replacing", "reread", "write", "claim"} => call.held \in Agent
           /\ call.pc \in {"seen", "setcaps", "replacing", "reread", "write"} => call.saw \in Agent
    BY <1>1, CallKnows
  <1>3. agentRow \in [AgentIds -> Agent \cup {None}] /\ agentStore \in {"memory", "postgres"}
    BY DEF AgentsInv, AgentsTypeOK
  <1>4. CASE agentRow'[a] = agentRow[a]
    BY <1>4 DEF StaysRetired
  <1>5. CASE agentRow'[a] # agentRow[a]
    <2>1. call.id = a
      BY <1>2, <1>3, <1>5 DEF UpdateAgentCapabilities, UpdateAgentWrite, RetireAgentWrite, ClaimAgentWrite,
         MemorySetCapabilities, PostgresDeleteGrants, PostgresSetCapabilities, PostgresRollback
    <2>2. row = agentRow[a] /\ row.retired
      BY <1>2, <2>1
    <2>3. CASE UpdateAgentCapabilities(c)
      <3>1. agentRow' = [agentRow EXCEPT ![a].caps = call.caps, ![a].version = @ + 1]
        BY <1>2, <1>5, <2>1, <2>3 DEF UpdateAgentCapabilities, MemorySetCapabilities,
           PostgresDeleteGrants, PostgresSetCapabilities, PostgresRollback
      <3>2. agentRow'[a] = [row EXCEPT !.caps = call.caps, !.version = @ + 1]
        BY <1>3, <2>2, <3>1
      <3>3. QED
        BY <2>2, <3>2 DEF StaysRetired, Agent
    <2>4. CASE RetireAgentWrite(c)
      <3>1. agentRow'[a] = Retired(row)
        BY <1>2, <1>3, <1>5, <2>1, <2>2, <2>4 DEF RetireAgentWrite
      <3>2. QED
        BY <2>2, <3>1 DEF StaysRetired, Retired, Agent
    <2>5. CASE UpdateAgentWrite(c)
      <3>1. StoreUpdates(a, call.held) /\ agentRow'[a] = StoreWritten(a, call.held)
        BY <1>2, <1>3, <1>5, <2>1, <2>5 DEF UpdateAgentWrite
      <3>2. agentStore = "memory"
        BY <1>3, <2>2, <3>1 DEF StoreUpdates, PostgresUpdates
      <3>3. WritesRow(c)
        <4>1. call.pc = "write" /\ agentCall' = [agentCall EXCEPT ![c].pc = "reply"]
          BY <1>2, <1>5, <2>1, <2>5 DEF UpdateAgentWrite
        <4>2. agentCall'[c].pc = "reply"
          BY <1>2, <4>1 DEF AgentsInv, AgentsTypeOK, AgentCalls
        <4>3. QED
          BY <1>2, <4>1, <4>2 DEF WritesRow
      <3>4. PICK saw, held \in Agent :
               /\ saw = call.saw /\ held = call.held
               /\ held.version = row.version /\ held.retired = row.retired
               /\ SameAtVersion(saw, row) /\ ~saw.retired
               /\ call.caps = Keep => saw.version = row.version
        BY <1>2, <2>1, <3>3, WriterSees
      <3>5. agentRow'[a].retired
        <4>1. agentRow'[a] = [held EXCEPT !.version = @ + 1]
          BY <3>1, <3>2, <3>4 DEF StoreWritten, MemoryWritten
        <4>2. QED
          BY <2>2, <3>4, <4>1 DEF Agent
      <3>6. call.caps # Keep
        BY <2>2, <3>4 DEF SameAtVersion
      <3>7. QED
        BY <1>2, <2>1, <3>2, <3>3, <3>4, <3>5, <3>6 DEF StaysRetired
    <2>6. CASE ClaimAgentWrite(c)
      <3>1. call.pc = "claim" /\ call.held \in Agent
        BY <1>2, <2>6 DEF ClaimAgentWrite
      <3>2. StoreUpdates(a, call.held) /\ agentRow'[a] = StoreWritten(a, call.held)
        BY <1>2, <1>3, <1>5, <2>1, <2>6 DEF ClaimAgentWrite
      <3>3. agentStore = "memory"
        BY <1>3, <2>2, <3>2 DEF StoreUpdates, PostgresUpdates
      <3>4. call.held.version = row.version
        BY <2>2, <3>2, <3>3 DEF StoreUpdates, MemoryUpdates
      <3>5. /\ call.held.retired = row.retired
            /\ call.held.details = row.details /\ call.held.status = row.status
        BY <1>2, <3>1, <3>3, <3>4 DEF AgentCallInv
      <3>6. PICK held \in Agent : held = call.held
        BY <3>1
      <3>7. agentRow'[a] = [held EXCEPT !.version = @ + 1]
        BY <3>2, <3>3, <3>6 DEF StoreWritten, MemoryWritten
      <3>8. /\ agentRow'[a].retired = held.retired /\ agentRow'[a].status = held.status
            /\ agentRow'[a].details = held.details
        BY <3>7 DEF Agent
      <3>9. QED
        BY <2>2, <3>5, <3>6, <3>8 DEF StaysRetired
    <2>7. QED
      BY <2>3, <2>4, <2>5, <2>6
  <1>6. QED
    BY <1>4, <1>5

\* Retirement is final, but for the one update that the memory store lets by.
THEOREM RetiredForGood == AgentsSpec => RetirementIsFinal
  <1> DEFINE Final == \A a \in AgentIds : (agentRow[a] # None /\ agentRow[a].retired) => StaysRetired(a)
  <1>1. ASSUME AgentsInv, [AgentsNext]_agentVars PROVE [Final]_agentVars
    <2>1. SUFFICES ASSUME AgentsNext, NEW a \in AgentIds, agentRow[a] # None, agentRow[a].retired
                   PROVE  StaysRetired(a)
      BY <1>1
    <2>2. CASE agentRow'[a] = agentRow[a]
      BY <2>1, <2>2 DEF StaysRetired
    <2>3. CASE agentRow'[a] # agentRow[a]
      <3>1. PICK c \in AgentClients :
               \/ \E p \in AgentProjects, n \in AgentNames, d \in AgentDetails,
                     names \in SUBSET (Catalog \cup {Unknown}) : CreateAgent(c, p, n, d, names)
               \/ UpdateAgentCapabilities(c) \/ UpdateAgentWrite(c)
               \/ RetireAgentWrite(c) \/ ClaimAgentWrite(c)
        BY <2>1, <2>3 DEF AgentsNext, ProjectDeleted, FetchAgent, RetireAgentRead, ClaimAgentRead,
           UpdateAgentRead, UpdateAgentReread, UpdateAgentReply, LeaveAgent
      <3>2. ASSUME NEW p, NEW n, NEW d, NEW names, CreateAgent(c, p, n, d, names) PROVE FALSE
        <4>1. agentRow \in [AgentIds -> Agent \cup {None}]
          BY <1>1 DEF AgentsInv, AgentsTypeOK
        <4>2. QED
          BY <2>1, <2>3, <3>2, <4>1 DEF CreateAgent
      <3>3. QED
        BY <1>1, <2>1, <3>1, <3>2, RetiredWrites
    <2>4. QED
      BY <2>2, <2>3
  <1>2. QED
    BY <1>1, AgentsInvariant, PTL DEF AgentsSpec, RetirementIsFinal, StaysRetired

-----------------------------------------------------------------------------
\* Projects.

\* A row with the fields of a body laid over it is one, whatever is left out.
LEMMA OverlaidRow ==
    ASSUME NEW row \in ProjectRows, NEW n \in ProjectNames \cup {None},
           NEW s \in AskedStatuses \cup {"in_progress", None}
    PROVE  /\ Overlaid(row, n, s) \in ProjectRows
           /\ Overlaid(row, n, s).name \in {row.name, n}
           /\ Overlaid(row, n, s).status \in {row.status, s}
  <1>1. PICK name \in ProjectNames :
           name = (IF n = None THEN row.name ELSE n) /\ name \in {row.name, n}
    BY DEF ProjectRows
  <1>2. PICK status \in ProjectStatuses \cup AskedStatuses :
           status = (IF s = None THEN row.status ELSE s) /\ status \in {row.status, s}
    BY DEF ProjectRows, ProjectStatuses
  <1>3. Overlaid(row, n, s) = [name |-> name, status |-> status]
    BY <1>1, <1>2 DEF Overlaid, ProjectRow
  <1>4. QED
    BY <1>1, <1>2, <1>3 DEF ProjectRows

\* What a request holds and was asked.
HeldAsAsked(call) ==
    /\ call.pc # "idle" =>
          /\ call.id \in ProjectIds /\ call.read # None
          /\ call.held = Overlaid(call.read, call.name, call.status)
    /\ call.pc \in {"tasks", "status"} => call.name = None /\ call.status = "in_progress"

LEMMA ProjectsInvDef == ProjectsInv <=> ProjectsTypeOK /\ \A c \in ProjectClients : HeldAsAsked(projectCall[c])
  BY DEF ProjectsInv, HeldAsAsked

\* A step of one request: the others hold what they held.
LEMMA ProjectCallWrite ==
    ASSUME ProjectsInv, NEW c \in ProjectClients, NEW call \in ProjectCalls, HeldAsAsked(call),
           projectCall' = [projectCall EXCEPT ![c] = call], projectStore' = projectStore,
           project' \in [ProjectIds -> ProjectRows \cup {None}], born' \subseteq ProjectIds,
           projectTasks' \in [ProjectIds -> 0..MaxProjectTasks]
    PROVE  ProjectsInv'
  <1>1. ProjectsTypeOK /\ \A d \in ProjectClients : HeldAsAsked(projectCall[d])
    BY ProjectsInvDef
  <1>2. /\ projectCall' \in [ProjectClients -> ProjectCalls] /\ projectCall'[c] = call
        /\ \A d \in ProjectClients \ {c} : projectCall'[d] = projectCall[d]
    BY <1>1 DEF ProjectsTypeOK
  <1>3. \A d \in ProjectClients : HeldAsAsked(projectCall'[d])
    BY <1>1, <1>2
  <1>4. QED
    BY <1>1, <1>2, <1>3 DEF ProjectsTypeOK, ProjectsInv, HeldAsAsked

\* The request that has answered.
LEMMA IdleProject == IdleProjectCall \in ProjectCalls /\ IdleProjectCall.pc = "idle" /\ HeldAsAsked(IdleProjectCall)
  <1>1. IdleProjectCall \in ProjectCalls /\ IdleProjectCall.pc = "idle"
    BY ProjectsAssumption DEF IdleProjectCall, ProjectCalls
  <1>2. QED
    BY <1>1 DEF HeldAsAsked

\* Update of either store writes what the request holds, or nothing.
LEMMA ProjectUpdateWrites ==
    ASSUME ProjectsInv, NEW c \in ProjectClients, projectCall[c].pc # "idle", StoreProjectUpdate(c)
    PROVE  /\ project' \in [ProjectIds -> ProjectRows \cup {None}]
           /\ \/ project' = project
              \/ /\ projectStore = "postgres"
                 /\ project' = [project EXCEPT ![projectCall[c].id] = projectCall[c].held]
  <1>1. /\ project \in [ProjectIds -> ProjectRows \cup {None}] /\ projectCall[c] \in ProjectCalls
        /\ projectCall[c].id \in ProjectIds
    BY DEF ProjectsInv, ProjectsTypeOK
  <1>2. projectCall[c].held \in ProjectRows \cup {None}
    BY <1>1 DEF ProjectCalls
  <1>3. QED
    BY <1>1, <1>2 DEF StoreProjectUpdate, MemoryProjectUpdate, PostgresProjectUpdate

LEMMA ProjectsStepInv == ProjectsInv /\ [ProjectsNext]_projectVars => ProjectsInv'
  <1> SUFFICES ASSUME ProjectsInv, [ProjectsNext]_projectVars PROVE ProjectsInv'
    OBVIOUS
  <1>1. /\ projectStore \in {"memory", "postgres"} /\ project \in [ProjectIds -> ProjectRows \cup {None}]
        /\ born \subseteq ProjectIds /\ projectTasks \in [ProjectIds -> 0..MaxProjectTasks]
        /\ projectCall \in [ProjectClients -> ProjectCalls]
    BY DEF ProjectsInv, ProjectsTypeOK
  <1>2. CASE UNCHANGED projectVars
    BY <1>2 DEF projectVars, ProjectsInv, ProjectsTypeOK
  <1>3. ASSUME NEW c \in ProjectClients, NEW p \in ProjectIds, NEW n \in ProjectNames, CreateProject(c, p, n)
        PROVE  ProjectsInv'
    <2>1. ProjectRow(n, "initializing") \in ProjectRows
      BY DEF ProjectRow, ProjectRows, ProjectStatuses
    <2>2. project' \in [ProjectIds -> ProjectRows \cup {None}] /\ born' \subseteq ProjectIds
      BY <1>1, <1>3, <2>1 DEF CreateProject
    <2>3. UNCHANGED <<projectStore, projectTasks, projectCall>>
      BY <1>3 DEF CreateProject
    <2>4. QED
      BY <2>2, <2>3 DEF ProjectsInv, ProjectsTypeOK
  <1>4. ASSUME NEW c \in ProjectClients, NEW p \in ProjectIds, DeleteProject(c, p)
        PROVE  ProjectsInv'
    <2>1. /\ project' \in [ProjectIds -> ProjectRows \cup {None}]
          /\ projectTasks' \in [ProjectIds -> 0..MaxProjectTasks]
      BY <1>1, <1>4, ProjectsAssumption DEF DeleteProject, MemoryProjectDelete, PostgresProjectDelete
    <2>2. UNCHANGED <<projectStore, born, projectCall>>
      BY <1>4 DEF DeleteProject
    <2>3. QED
      BY <2>1, <2>2 DEF ProjectsInv, ProjectsTypeOK
  <1>5. ASSUME NEW c \in ProjectClients, NEW p \in ProjectIds, NEW n \in ProjectNames \cup {None},
               NEW s \in AskedStatuses \cup {None}, UpdateProject(c, p, n, s)
        PROVE  ProjectsInv'
    <2>1. PICK read \in ProjectRows : read = project[p]
      BY <1>1, <1>5 DEF UpdateProject, ProjectExists
    <2>2. PICK held \in ProjectRows : held = Overlaid(read, n, s)
      BY OverlaidRow
    <2>3. PICK call \in ProjectCalls :
             /\ projectCall' = [projectCall EXCEPT ![c] = call]
             /\ call.pc = "put" /\ call.id = p /\ call.read = read /\ call.held = held
             /\ call.name = n /\ call.status = s
      <3>1. PICK call \in ProjectCalls :
               call = [pc |-> "put", id |-> p, read |-> read, held |-> held,
                       name |-> n, status |-> s, left |-> 0]
        <4>1. 0 \in 0..InitialTasks
          BY ProjectsAssumption
        <4>2. [pc |-> "put", id |-> p, read |-> read, held |-> held,
               name |-> n, status |-> s, left |-> 0] \in ProjectCalls
          BY <4>1 DEF ProjectCalls
        <4>3. QED
          BY <4>2
      <3>2. projectCall' = [projectCall EXCEPT ![c] = call]
        BY <1>5, <2>1, <2>2, <3>1 DEF UpdateProject
      <3>3. QED
        BY <3>1, <3>2
    <2>4. HeldAsAsked(call)
      BY <2>2, <2>3, ProjectsAssumption DEF HeldAsAsked
    <2>5. project' \in [ProjectIds -> ProjectRows \cup {None}]
      BY <1>1, <1>5, <2>1, <2>2 DEF UpdateProject, ProjectFieldsSet
    <2>6. QED
      BY <1>1, <1>5, <2>3, <2>4, <2>5, ProjectCallWrite DEF UpdateProject
  <1>6. ASSUME NEW c \in ProjectClients, NEW p \in ProjectIds, DecomposeProject(c, p)
        PROVE  ProjectsInv'
    <2>1. PICK read \in ProjectRows : read = project[p]
      BY <1>1, <1>6 DEF DecomposeProject, ProjectExists
    <2>2. PICK held \in ProjectRows : held = Overlaid(read, None, "in_progress")
      BY OverlaidRow
    <2>3. PICK call \in ProjectCalls :
             /\ projectCall' = [projectCall EXCEPT ![c] = call]
             /\ call.pc = "tasks" /\ call.id = p /\ call.read = read /\ call.held = held
             /\ call.name = None /\ call.status = "in_progress"
      <3>1. PICK call \in ProjectCalls :
               call = [pc |-> "tasks", id |-> p, read |-> read, held |-> held,
                       name |-> None, status |-> "in_progress", left |-> InitialTasks]
        <4>1. InitialTasks \in 0..InitialTasks
          BY ProjectsAssumption
        <4>2. [pc |-> "tasks", id |-> p, read |-> read, held |-> held,
               name |-> None, status |-> "in_progress", left |-> InitialTasks] \in ProjectCalls
          BY <4>1 DEF ProjectCalls
        <4>3. QED
          BY <4>2
      <3>2. projectCall' = [projectCall EXCEPT ![c] = call]
        BY <1>6, <2>1, <2>2, <3>1 DEF DecomposeProject
      <3>3. QED
        BY <3>1, <3>2
    <2>4. HeldAsAsked(call)
      BY <2>2, <2>3, ProjectsAssumption DEF HeldAsAsked
    <2>5. QED
      BY <1>1, <1>6, <2>3, <2>4, ProjectCallWrite DEF DecomposeProject
  <1>7. ASSUME NEW c \in ProjectClients, UpdateProjectWrite(c) \/ DecomposeWrite(c)
        PROVE  ProjectsInv'
    <2>1. /\ StoreProjectUpdate(c) /\ projectCall[c].pc # "idle"
          /\ projectCall' = [projectCall EXCEPT ![c] = IdleProjectCall]
          /\ UNCHANGED <<projectStore, born, projectTasks>>
      BY <1>7 DEF UpdateProjectWrite, DecomposeWrite, ProjectAt, ProjectAnswered
    <2>2. project' \in [ProjectIds -> ProjectRows \cup {None}]
      BY <2>1, ProjectUpdateWrites
    <2>3. QED
      BY <1>1, <2>1, <2>2, IdleProject, ProjectCallWrite
  <1>8. ASSUME NEW c \in ProjectClients, DecomposeTask(c)
        PROVE  ProjectsInv'
    <2>1. PICK call \in ProjectCalls : call = projectCall[c] /\ call.id \in ProjectIds /\ call.left > 0
      BY <1>1, <1>8 DEF DecomposeTask, ProjectAt, ProjectsInv
    <2>2. PICK next \in ProjectCalls :
             /\ projectCall' = [projectCall EXCEPT ![c] = next]
             /\ next = [call EXCEPT !.left = @ - 1]
      <3>1. PICK left \in 0..InitialTasks : left = call.left - 1
        BY <2>1, ProjectsAssumption DEF ProjectCalls
      <3>2. [call EXCEPT !.left = left] \in ProjectCalls
        BY DEF ProjectCalls
      <3>3. [call EXCEPT !.left = left] = [call EXCEPT !.left = @ - 1]
        BY <3>1 DEF ProjectCalls
      <3>4. projectCall' = [projectCall EXCEPT ![c].left = @ - 1]
        BY <1>8 DEF DecomposeTask
      <3>5. QED
        BY <1>1, <2>1, <3>2, <3>3, <3>4
    <2>3. HeldAsAsked(next)
      <3>1. HeldAsAsked(call)
        BY <2>1, ProjectsInvDef
      <3>2. /\ next.pc = call.pc /\ next.id = call.id /\ next.read = call.read /\ next.held = call.held
            /\ next.name = call.name /\ next.status = call.status
        BY <2>2 DEF ProjectCalls
      <3>3. QED
        BY <3>1, <3>2 DEF HeldAsAsked
    <2>4. projectTasks' \in [ProjectIds -> 0..MaxProjectTasks]
      BY <1>1, <1>8, <2>1, ProjectsAssumption DEF DecomposeTask
    <2>5. QED
      BY <1>1, <1>8, <2>2, <2>3, <2>4, ProjectCallWrite DEF DecomposeTask
  <1>9. ASSUME NEW c \in ProjectClients, DecomposeStatus(c)
        PROVE  ProjectsInv'
    <2>1. PICK call \in ProjectCalls : call = projectCall[c] /\ call.id \in ProjectIds /\ call.pc = "tasks"
      BY <1>1, <1>9 DEF DecomposeStatus, ProjectAt, ProjectsInv
    <2>2. PICK next \in ProjectCalls :
             /\ projectCall' = [projectCall EXCEPT ![c] = next]
             /\ next = [call EXCEPT !.pc = "status"]
      <3>1. [call EXCEPT !.pc = "status"] \in ProjectCalls
        BY DEF ProjectCalls
      <3>2. projectCall' = [projectCall EXCEPT ![c].pc = "status"]
        BY <1>9 DEF DecomposeStatus
      <3>3. QED
        BY <1>1, <2>1, <3>1, <3>2
    <2>3. HeldAsAsked(next)
      <3>1. HeldAsAsked(call)
        BY <2>1, ProjectsInvDef
      <3>2. /\ next.pc = "status" /\ next.id = call.id /\ next.read = call.read /\ next.held = call.held
            /\ next.name = call.name /\ next.status = call.status
        BY <2>2 DEF ProjectCalls
      <3>3. QED
        BY <2>1, <3>1, <3>2 DEF HeldAsAsked
    <2>4. project' \in [ProjectIds -> ProjectRows \cup {None}]
      <3>1. ASSUME project[call.id] # None
            PROVE  Overlaid(project[call.id], None, "in_progress") \in ProjectRows
        BY <1>1, <2>1, <3>1, OverlaidRow
      <3>2. QED
        BY <1>1, <1>9, <2>1, <3>1 DEF DecomposeStatus, ProjectExists, ProjectFieldsSet
    <2>5. QED
      BY <1>1, <1>9, <2>2, <2>3, <2>4, ProjectCallWrite DEF DecomposeStatus
  <1>10. QED
    BY <1>2, <1>3, <1>4, <1>5, <1>6, <1>7, <1>8, <1>9 DEF ProjectsNext

\* A request holds the row it read with what it was asked to change.
THEOREM ProjectsInvariant == ProjectsSpec => []ProjectsInv
  <1>1. ProjectsInit => ProjectsInv
    BY IdleProject, ProjectsAssumption DEF ProjectsInit, ProjectsInv, ProjectsTypeOK
  <1>2. QED
    BY <1>1, ProjectsStepInv, PTL DEF ProjectsSpec

\* What OnlyStaleCopiesRevert says of one request and one project.
Asked(c) == IF ProjectAt(c, "idle") THEN projectCall'[c] ELSE projectCall[c]
OnlyAsked(p, c) ==
    \/ /\ project'[p].name \in {project[p].name, Asked(c).name}
       /\ project'[p].status \in {project[p].status, Asked(c).status}
    \/ projectStore = "postgres" /\ Asked(c).read # project[p]

LEMMA OnlyAskedStep ==
    ASSUME ProjectsInv, ProjectsNext, NEW p \in ProjectIds, NEW c \in ProjectClients,
           ProjectExists(p), project'[p] # None, projectCall[c] # projectCall'[c],
           p \in {projectCall[c].id, projectCall'[c].id}
    PROVE  OnlyAsked(p, c)
  <1>1. /\ project \in [ProjectIds -> ProjectRows \cup {None}] /\ projectStore \in {"memory", "postgres"}
        /\ projectCall \in [ProjectClients -> ProjectCalls]
    BY DEF ProjectsInv, ProjectsTypeOK
  <1>2. PICK row \in ProjectRows : row = project[p]
    BY <1>1 DEF ProjectExists
  <1>3. CASE project'[p] = project[p]
    BY <1>3 DEF OnlyAsked
  <1>4. CASE project'[p] # project[p]
    <2>1. PICK d \in ProjectClients :
             \/ \E q \in ProjectIds, n \in ProjectNames \cup {None}, s \in AskedStatuses \cup {None} :
                   UpdateProject(d, q, n, s)
             \/ UpdateProjectWrite(d) \/ DecomposeStatus(d) \/ DecomposeWrite(d)
      BY <1>4 DEF ProjectsNext, CreateProject, DeleteProject, DecomposeProject, DecomposeTask
    <2>2. d = c
      BY <1>1, <2>1 DEF UpdateProject, UpdateProjectWrite, DecomposeStatus, DecomposeWrite, ProjectAnswered
    <2>3. ASSUME NEW q \in ProjectIds, NEW n \in ProjectNames \cup {None}, NEW s \in AskedStatuses \cup {None},
                 UpdateProject(c, q, n, s)
          PROVE  OnlyAsked(p, c)
      <3>1. projectStore = "memory" /\ q = p /\ project'[p] = Overlaid(project[p], n, s)
        BY <1>1, <1>4, <2>3 DEF UpdateProject, ProjectFieldsSet
      <3>2. projectCall'[c].name = n /\ projectCall'[c].status = s /\ ProjectAt(c, "idle")
        BY <1>1, <2>3 DEF UpdateProject
      <3>3. project'[p].name \in {row.name, n} /\ project'[p].status \in {row.status, s}
        BY <1>2, <3>1, OverlaidRow
      <3>4. QED
        BY <1>2, <3>2, <3>3 DEF OnlyAsked, Asked
    <2>4. ASSUME UpdateProjectWrite(c) \/ DecomposeWrite(c)
          PROVE  OnlyAsked(p, c)
      <3>1. StoreProjectUpdate(c) /\ projectCall[c].pc \in {"put", "status"} /\ ~ProjectAt(c, "idle")
        BY <2>4 DEF UpdateProjectWrite, DecomposeWrite, ProjectAt
      <3>2. PICK call \in ProjectCalls : /\ call = projectCall[c] /\ call.id \in ProjectIds /\ call.read # None
                                         /\ call.held = Overlaid(call.read, call.name, call.status)
        BY <1>1, <3>1 DEF ProjectsInv
      <3>3. projectStore = "postgres" /\ call.id = p /\ project'[p] = call.held
        BY <1>1, <1>4, <3>1, <3>2, ProjectUpdateWrites
      <3>4. CASE call.read = row
        <4>1. call.name \in ProjectNames \cup {None} /\ call.status \in AskedStatuses \cup {"in_progress", None}
          BY DEF ProjectCalls
        <4>2. project'[p].name \in {row.name, call.name} /\ project'[p].status \in {row.status, call.status}
          BY <3>2, <3>3, <3>4, <4>1, OverlaidRow
        <4>3. QED
          BY <1>2, <3>1, <3>2, <4>2 DEF OnlyAsked, Asked
      <3>5. CASE call.read # row
        BY <1>2, <3>1, <3>2, <3>3, <3>5 DEF OnlyAsked, Asked
      <3>6. QED
        BY <3>4, <3>5
    <2>5. ASSUME DecomposeStatus(c)
          PROVE  OnlyAsked(p, c)
      <3>1. /\ projectCall[c].name = None /\ projectCall[c].status = "in_progress" /\ ~ProjectAt(c, "idle")
            /\ projectCall[c].id \in ProjectIds
        BY <2>5 DEF DecomposeStatus, ProjectAt, ProjectsInv
      <3>2. projectCall[c].id = p /\ project'[p] = Overlaid(row, None, "in_progress")
        BY <1>1, <1>2, <1>4, <2>5, <3>1 DEF DecomposeStatus, ProjectFieldsSet
      <3>3. project'[p].name \in {row.name, None} /\ project'[p].status \in {row.status, "in_progress"}
        BY <3>2, OverlaidRow
      <3>4. QED
        BY <1>2, <3>1, <3>3 DEF OnlyAsked, Asked
    <2>6. QED
      BY <2>1, <2>2, <2>3, <2>4, <2>5
  <1>5. QED
    BY <1>3, <1>4

\* A request changes what it was asked to change, or writes back a stale copy
\* in postgres; nothing else moves a project's name or status.
THEOREM OnlyStaleReverts == ProjectsSpec => OnlyStaleCopiesRevert
  <1> DEFINE Only == \A p \in ProjectIds, c \in ProjectClients :
                        ( /\ ProjectExists(p) /\ project'[p] # None
                          /\ projectCall[c] # projectCall'[c]
                          /\ p \in {projectCall[c].id, projectCall'[c].id} )
                        => OnlyAsked(p, c)
  <1>1. ASSUME ProjectsInv, [ProjectsNext]_projectVars PROVE [Only]_projectVars
    BY <1>1, OnlyAskedStep
  <1>2. QED
    BY <1>1, ProjectsInvariant, PTL DEF ProjectsSpec, OnlyStaleCopiesRevert, OnlyAsked, Asked

-----------------------------------------------------------------------------
\* Deliverables: writers and version rows.

\* A request between its writes.
BusyWriters ==
    [pc : {"first", "insert", "main"}, id : DeliverableIds, row : DeliverableRows]

\* The fields of a row.
LEMMA DeliverableFields ==
    ASSUME NEW row \in DeliverableRows
    PROVE  row.version \in 1..MaxVersion /\ row.version \in Nat /\ row # None
  BY DeliverablesAssumption DEF DeliverableRows

\* What a request at one of its writes holds.
LEMMA WriterFields ==
    ASSUME DeliverablesTypeOK, NEW w \in Writers, writer[w].pc # "idle"
    PROVE  /\ writer[w] \in BusyWriters /\ writer[w].id \in DeliverableIds
           /\ writer[w].row \in DeliverableRows
<1>1. writer[w] \in BusyWriters
  BY DEF DeliverablesTypeOK, BusyWriters, IdleWriter
<1> QED
  BY <1>1 DEF BusyWriters

\* A request moves, and no other.
LEMMA WriterMoves ==
    ASSUME DeliverablesTypeOK, NEW w \in Writers, NEW new \in {IdleWriter} \cup BusyWriters,
           writer' = [writer EXCEPT ![w] = new]
    PROVE  /\ writer' \in [Writers -> {IdleWriter} \cup BusyWriters]
           /\ writer'[w] = new
           /\ \A v \in Writers \ {w} : writer'[v] = writer[v]
  BY DEF DeliverablesTypeOK, BusyWriters

\* Who is at a write after that.
LEMMA BusyMoves ==
    ASSUME NEW w \in Writers, \A v \in Writers \ {w} : writer'[v] = writer[v], NEW e, NEW pc
    PROVE  /\ Busy(e, pc)' \ {w} = Busy(e, pc) \ {w}
           /\ w \in Busy(e, pc)' <=> (writer'[w].pc = pc /\ writer'[w].id = e)
           /\ w \in Busy(e, pc) <=> (writer[w].pc = pc /\ writer[w].id = e)
           /\ \A v \in Busy(e, pc) \ {w} : writer'[v] = writer[v]
  BY DEF Busy, WriterAt

\* A row is added to a history.
LEMMA VersionsAppend ==
    ASSUME DeliverablesTypeOK, NEW d \in DeliverableIds, NEW row \in DeliverableRows,
           versionRows' = [versionRows EXCEPT ![d] = Append(@, row)]
    PROVE  /\ versionRows' \in [DeliverableIds -> Seq(DeliverableRows)]
           /\ \A e \in DeliverableIds \ {d} : versionRows'[e] = versionRows[e]
           /\ Len(versionRows'[d]) = Len(versionRows[d]) + 1 /\ Len(versionRows[d]) \in Nat
           /\ versionRows'[d][Len(versionRows[d]) + 1] = row
           /\ \A i \in 1..Len(versionRows[d]) : versionRows'[d][i] = versionRows[d][i]
           /\ VersionNumbers(d)' = VersionNumbers(d) \cup {row.version}
<1>1. versionRows \in [DeliverableIds -> Seq(DeliverableRows)] /\ versionRows[d] \in Seq(DeliverableRows)
  BY DEF DeliverablesTypeOK
<1>2. versionRows'[d] = Append(versionRows[d], row) /\ Append(versionRows[d], row) \in Seq(DeliverableRows)
  BY <1>1
<1>3. /\ versionRows' \in [DeliverableIds -> Seq(DeliverableRows)]
      /\ \A e \in DeliverableIds \ {d} : versionRows'[e] = versionRows[e]
  BY <1>1, <1>2
<1>4. PICK m \in Nat : m = Len(versionRows[d])
  BY <1>1
<1>5. Len(versionRows'[d]) = m + 1 /\ versionRows'[d][m + 1] = row
      /\ \A i \in 1..m : versionRows'[d][i] = versionRows[d][i]
  BY <1>1, <1>2, <1>4
<1>6. VersionNumbers(d) = {versionRows[d][i].version : i \in 1..m}
      /\ VersionNumbers(d)' = {versionRows'[d][i].version : i \in 1..(m + 1)}
  BY <1>4, <1>5 DEF VersionNumbers
<1>7. ASSUME NEW n PROVE n \in VersionNumbers(d)' <=> n \in VersionNumbers(d) \/ n = row.version
  <2>1. ASSUME n \in VersionNumbers(d)' PROVE n \in VersionNumbers(d) \/ n = row.version
    <3>1. PICK i \in 1..(m + 1) : n = versionRows'[d][i].version
      BY <1>6, <2>1
    <3>2. CASE i = m + 1
      BY <1>5, <3>1, <3>2
    <3>3. CASE i # m + 1
      <4>1. i \in 1..m
        BY <3>3
      <4> QED
        BY <1>5, <1>6, <3>1, <4>1
    <3> QED
      BY <3>2, <3>3
  <2>2. ASSUME n \in VersionNumbers(d) PROVE n \in VersionNumbers(d)'
    <3>1. PICK i \in 1..m : n = versionRows[d][i].version
      BY <1>6, <2>2
    <3>2. i \in 1..(m + 1) /\ n = versionRows'[d][i].version
      BY <1>5, <3>1
    <3> QED
      BY <1>6, <3>2
  <2>3. ASSUME n = row.version PROVE n \in VersionNumbers(d)'
    <3>1. m + 1 \in 1..(m + 1)
      OBVIOUS
    <3> QED
      BY <1>5, <1>6, <2>3, <3>1
  <2> QED
    BY <2>1, <2>2, <2>3
<1> QED
  BY <1>3, <1>4, <1>5, <1>7

\* A deliverable no request of which moved keeps its history.
LEMMA HistoryElsewhere ==
    ASSUME NEW e \in DeliverableIds, HistoryInv(e),
           deliverable'[e] = deliverable[e], versionRows'[e] = versionRows[e],
           \A pc \in {"first", "insert", "main"} :
              /\ Busy(e, pc)' = Busy(e, pc)
              /\ \A w \in Busy(e, pc) : writer'[w] = writer[w]
    PROVE  HistoryInv(e)'
<1>1. VersionNumbers(e)' = VersionNumbers(e)
  BY DEF VersionNumbers
<1>2. /\ Busy(e, "first")' = Busy(e, "first") /\ Busy(e, "insert")' = Busy(e, "insert")
      /\ Busy(e, "main")' = Busy(e, "main")
      /\ \A w \in Busy(e, "first") : writer'[w] = writer[w]
      /\ \A w \in Busy(e, "insert") : writer'[w] = writer[w]
      /\ \A w \in Busy(e, "main") : writer'[w] = writer[w]
  OBVIOUS
<1> QED
  BY <1>1, <1>2 DEF HistoryInv

\* So a step that moves one request at one deliverable has to be looked at there.
LEMMA OthersHistories ==
    ASSUME DeliverablesInv, NEW d \in DeliverableIds, NEW w \in Writers,
           NEW new \in {IdleWriter} \cup BusyWriters, new.pc = "idle" \/ new.id = d,
           writer' = [writer EXCEPT ![w] = new],
           writer[w].pc = "idle" \/ writer[w].id = d,
           \A e \in DeliverableIds \ {d} :
              deliverable'[e] = deliverable[e] /\ versionRows'[e] = versionRows[e]
    PROVE  \A e \in DeliverableIds \ {d} : HistoryInv(e)'
<1> SUFFICES ASSUME NEW e \in DeliverableIds, e # d PROVE HistoryInv(e)'
  OBVIOUS
<1>1. DeliverablesTypeOK /\ HistoryInv(e)
  BY DEF DeliverablesInv
<1>2. ASSUME NEW pc \in {"first", "insert", "main"}
      PROVE  /\ Busy(e, pc)' = Busy(e, pc)
             /\ \A v \in Busy(e, pc) : writer'[v] = writer[v]
  <2>1. w \notin Busy(e, pc)
    BY DEF Busy, WriterAt
  <2>2. /\ Busy(e, pc)' \ {w} = Busy(e, pc) \ {w}
        /\ w \in Busy(e, pc)' <=> (new.pc = pc /\ new.id = e)
        /\ \A v \in Busy(e, pc) \ {w} : writer'[v] = writer[v]
    <3>1. writer'[w] = new /\ \A v \in Writers \ {w} : writer'[v] = writer[v]
      BY <1>1, WriterMoves
    <3> QED
      BY <3>1, BusyMoves
  <2>3. w \notin Busy(e, pc)'
    BY <1>1, <2>2
  <2> QED
    BY <2>1, <2>2, <2>3
<1> QED
  BY <1>1, <1>2, HistoryElsewhere

\* What the invariant knows of the deliverable of a request at one of its
\* writes.
LEMMA BusyAt ==
    ASSUME DeliverablesInv, NEW w \in Writers, writer[w].pc # "idle"
    PROVE  /\ writer[w].id \in DeliverableIds /\ writer[w].row \in DeliverableRows
           /\ w \in Busy(writer[w].id, writer[w].pc)
           /\ HistoryInv(writer[w].id)
           /\ deliverable[writer[w].id] # None
           /\ deliverable[writer[w].id] \in DeliverableRows
<1>1. DeliverablesTypeOK /\ writer[w] \in BusyWriters /\ writer[w].id \in DeliverableIds
      /\ writer[w].row \in DeliverableRows
  BY WriterFields DEF DeliverablesInv
<1>2. w \in Busy(writer[w].id, writer[w].pc) /\ HistoryInv(writer[w].id)
  BY <1>1 DEF DeliverablesInv, Busy, WriterAt
<1>3. writer[w].pc \in {"first", "insert", "main"}
  BY <1>1 DEF BusyWriters
<1>4. deliverable[writer[w].id] # None
  BY <1>2, <1>3 DEF HistoryInv
<1> QED
  BY <1>1, <1>2, <1>4 DEF DeliverablesTypeOK

\* POST: the main row is there, its version row not yet.
LEMMA PostStep ==
    ASSUME DeliverablesInv, NEW w \in Writers, NEW d \in DeliverableIds, NEW x \in Contents,
           PostDeliverable(w, d, x)
    PROVE  DeliverablesInv'
<1>1. DeliverablesTypeOK /\ HistoryInv(d) /\ deliverable[d] = None /\ writer[w].pc = "idle"
  BY DEF DeliverablesInv, PostDeliverable, CreateDeliverable, GetDeliverable, WriterAt
<1>2. PICK row : row = VersionRow(1, x)
  OBVIOUS
<1>3. row \in DeliverableRows /\ row.version = 1
  BY <1>2, DeliverablesAssumption DEF VersionRow, DeliverableRows
<1>4. PICK new : new = [pc |-> "first", id |-> d, row |-> row]
  OBVIOUS
<1>5. new \in BusyWriters /\ new.pc = "first" /\ new.id = d /\ new.row = row
  BY <1>3, <1>4 DEF BusyWriters
<1>6. /\ deliverable' = [deliverable EXCEPT ![d] = row]
      /\ writer' = [writer EXCEPT ![w] = new] /\ versionRows' = versionRows
  BY <1>2, <1>4 DEF PostDeliverable, CreateDeliverable, MemoryDeliverableCreate
<1>7. /\ deliverable' \in [DeliverableIds -> DeliverableRows \cup {None}] /\ deliverable'[d] = row
      /\ \A e \in DeliverableIds \ {d} : deliverable'[e] = deliverable[e]
  BY <1>1, <1>3, <1>6 DEF DeliverablesTypeOK
<1>8. /\ writer' \in [Writers -> {IdleWriter} \cup BusyWriters] /\ writer'[w] = new
      /\ \A pc \in {"first", "insert", "main"} :
            /\ Busy(d, pc)' \ {w} = Busy(d, pc) \ {w}
            /\ w \in Busy(d, pc)' <=> (new.pc = pc /\ new.id = d)
  <2>1. /\ writer' \in [Writers -> {IdleWriter} \cup BusyWriters] /\ writer'[w] = new
        /\ \A v \in Writers \ {w} : writer'[v] = writer[v]
    BY <1>1, <1>5, <1>6, WriterMoves
  <2> QED
    BY <2>1, BusyMoves
<1>9. DeliverablesTypeOK'
  BY <1>1, <1>6, <1>7, <1>8 DEF DeliverablesTypeOK, BusyWriters
<1>10. \A e \in DeliverableIds \ {d} : HistoryInv(e)'
  BY <1>1, <1>5, <1>6, <1>7, OthersHistories
<1>11. HistoryInv(d)'
  <2>1. versionRows[d] = <<>> /\ \A pc \in {"first", "insert", "main"} : Busy(d, pc) = {}
    BY <1>1 DEF HistoryInv
  <2>2. Busy(d, "first")' = {w} /\ Busy(d, "insert")' = {} /\ Busy(d, "main")' = {}
    BY <1>5, <1>8, <2>1
  <2>3. Len(versionRows'[d]) = 0 /\ VersionNumbers(d)' = {}
    BY <1>6, <2>1 DEF VersionNumbers
  <2>4. deliverable'[d] = row /\ row # None /\ writer'[w].row = row
    BY <1>3, <1>5, <1>7, <1>8, DeliverableFields
  <2>5. VersionNumbers(d)' = {n \in 1..(row.version + 1) :
           (n = 1 => Busy(d, "first")' = {}) /\ (n = row.version + 1 => Busy(d, "main")' # {})}
    BY <1>3, <2>2, <2>3
  <2> QED
    BY <1>3, <2>2, <2>3, <2>4, <2>5 DEF HistoryInv
<1> QED
  BY <1>9, <1>10, <1>11 DEF DeliverablesInv

\* What HistoryInv says of a deliverable that exists, over its rows and the
\* requests at its three writes.
History(main, rows, nums, first, insert, open, held) ==
    /\ nums = {n \in 1..(main.version + 1) :
          (n = 1 => first = {}) /\ (n = main.version + 1 => open # {})}
    /\ \A i, j \in 1..Len(rows) : rows[i].version = rows[j].version => i = j
    /\ main.version \in nums => \E i \in 1..Len(rows) : rows[i] = main
    /\ \A w \in first : held[w].row.version = 1 /\ (main.version = 1 => held[w].row = main)
    /\ \A w \in insert : held[w].row.version \in 2..(main.version + 1)
    /\ \A w \in open : /\ held[w].row.version = main.version + 1
                       /\ \E i \in 1..Len(rows) : rows[i] = held[w].row
    /\ \A v, w \in first : v = w
    /\ \A v, w \in open : v = w

LEMMA HistoryIs ==
    ASSUME NEW d \in DeliverableIds, deliverable[d] # None
    PROVE  HistoryInv(d) <=> History(deliverable[d], versionRows[d], VersionNumbers(d),
              Busy(d, "first"), Busy(d, "insert"), Busy(d, "main"), writer)
  BY DEF HistoryInv, History

\* The same of the next state.
LEMMA HistoryNext ==
    ASSUME NEW d \in DeliverableIds, NEW main, NEW rows, NEW nums, NEW first, NEW insert, NEW open,
           History(main, rows, nums, first, insert, open, writer'), main # None,
           deliverable'[d] = main, versionRows'[d] = rows, VersionNumbers(d)' = nums,
           Busy(d, "first")' = first, Busy(d, "insert")' = insert, Busy(d, "main")' = open
    PROVE  HistoryInv(d)'
  BY DEF HistoryInv, History

\* A row with a new version is added: no version is repeated, and no row is lost.
LEMMA RowAdded ==
    ASSUME DeliverablesTypeOK, NEW d \in DeliverableIds, NEW row \in DeliverableRows,
           versionRows' = [versionRows EXCEPT ![d] = Append(@, row)],
           row.version \notin VersionNumbers(d),
           \A i, j \in 1..Len(versionRows[d]) :
              versionRows[d][i].version = versionRows[d][j].version => i = j
    PROVE  /\ versionRows' \in [DeliverableIds -> Seq(DeliverableRows)]
           /\ \A e \in DeliverableIds \ {d} : versionRows'[e] = versionRows[e]
           /\ VersionNumbers(d)' = VersionNumbers(d) \cup {row.version}
           /\ \A i, j \in 1..Len(versionRows'[d]) :
                 versionRows'[d][i].version = versionRows'[d][j].version => i = j
           /\ \A x : (\E i \in 1..Len(versionRows[d]) : versionRows[d][i] = x) =>
                 \E i \in 1..Len(versionRows'[d]) : versionRows'[d][i] = x
           /\ \E i \in 1..Len(versionRows'[d]) : versionRows'[d][i] = row
<1>1. /\ versionRows' \in [DeliverableIds -> Seq(DeliverableRows)]
      /\ \A e \in DeliverableIds \ {d} : versionRows'[e] = versionRows[e]
      /\ Len(versionRows'[d]) = Len(versionRows[d]) + 1 /\ Len(versionRows[d]) \in Nat
      /\ versionRows'[d][Len(versionRows[d]) + 1] = row
      /\ \A i \in 1..Len(versionRows[d]) : versionRows'[d][i] = versionRows[d][i]
      /\ VersionNumbers(d)' = VersionNumbers(d) \cup {row.version}
  BY VersionsAppend
<1>2. PICK rows, more : rows = versionRows[d] /\ more = versionRows'[d]
  OBVIOUS
<1>3. PICK m \in Nat : m = Len(rows)
  BY <1>1, <1>2
<1>4. /\ Len(more) = m + 1 /\ more[m + 1] = row /\ \A i \in 1..m : more[i] = rows[i]
      /\ \A i, j \in 1..m : rows[i].version = rows[j].version => i = j
  BY <1>1, <1>2, <1>3
<1>5. \A i \in 1..m : rows[i].version # row.version
  BY <1>2, <1>3 DEF VersionNumbers
<1>6. /\ \A i, j \in 1..(m + 1) : more[i].version = more[j].version => i = j
      /\ \A x : (\E i \in 1..m : rows[i] = x) => \E i \in 1..(m + 1) : more[i] = x
      /\ \E i \in 1..(m + 1) : more[i] = row
  <2>1. m + 1 \in 1..(m + 1) /\ \A i \in 1..(m + 1) : i = m + 1 \/ i \in 1..m
    BY ONLY m \in Nat
  <2>2. \A i \in 1..m : i \in 1..(m + 1)
    BY ONLY m \in Nat
  <2>3. more[m + 1] = row /\ \A i \in 1..m : more[i] = rows[i]
    BY <1>4
  <2>4. \A i, j \in 1..m : rows[i].version = rows[j].version => i = j
    BY <1>4
  <2>5. ASSUME NEW i \in 1..(m + 1), NEW j \in 1..(m + 1), more[i].version = more[j].version
        PROVE  i = j
    <3>1. CASE i = m + 1 /\ j # m + 1
      BY ONLY <1>5, <2>1, <2>3, <2>5, <3>1
    <3>2. CASE i # m + 1 /\ j = m + 1
      BY ONLY <1>5, <2>1, <2>3, <2>5, <3>2
    <3>3. CASE i # m + 1 /\ j # m + 1
      BY ONLY <2>1, <2>3, <2>4, <2>5, <3>3
    <3> QED
      BY <3>1, <3>2, <3>3
  <2>6. ASSUME NEW x, NEW i \in 1..m, rows[i] = x PROVE \E j \in 1..(m + 1) : more[j] = x
    BY ONLY i \in 1..m, <2>2, <2>3, <2>6
  <2>7. \A x : (\E i \in 1..m : rows[i] = x) => \E i \in 1..(m + 1) : more[i] = x
    BY ONLY <2>6
  <2>8. \E i \in 1..(m + 1) : more[i] = row
    BY ONLY <2>1, <2>3
  <2> QED
    BY ONLY <2>5, <2>7, <2>8
<1>7. /\ \A i, j \in 1..Len(more) : more[i].version = more[j].version => i = j
      /\ \A x : (\E i \in 1..Len(rows) : rows[i] = x) => \E i \in 1..Len(more) : more[i] = x
      /\ \E i \in 1..Len(more) : more[i] = row
  BY <1>3, <1>4, <1>6
<1> QED
  BY <1>1, <1>2, <1>7

\* Sets that agree but for an element neither has are the same.
LEMMA SameBut ==
    ASSUME NEW S, NEW T, NEW x, S \ {x} = T \ {x}, x \notin S, x \notin T
    PROVE  S = T
  OBVIOUS

\* A request is answered after its last write to d, or without one: it leaves
\* the place where it was.
LEMMA AnsweredBusy ==
    ASSUME DeliverablesTypeOK, NEW w \in Writers, NEW d \in DeliverableIds,
           writer[w].pc \in {"first", "insert", "main"}, writer[w].id = d,
           writer' = [writer EXCEPT ![w] = IdleWriter]
    PROVE  /\ writer' \in [Writers -> {IdleWriter} \cup BusyWriters]
           /\ \A pc \in {"first", "insert", "main"} :
                 /\ Busy(d, pc)' = Busy(d, pc) \ {w}
                 /\ pc # writer[w].pc => Busy(d, pc)' = Busy(d, pc)
                 /\ \A v \in Busy(d, pc)' : writer'[v] = writer[v]
<1>1. IdleWriter.pc = "idle" /\ IdleWriter \in {IdleWriter} \cup BusyWriters
  BY DEF IdleWriter
<1>2. /\ writer' \in [Writers -> {IdleWriter} \cup BusyWriters] /\ writer'[w] = IdleWriter
      /\ \A v \in Writers \ {w} : writer'[v] = writer[v]
  BY <1>1, WriterMoves
<1>3. ASSUME NEW pc \in {"first", "insert", "main"}
      PROVE  /\ Busy(d, pc)' = Busy(d, pc) \ {w}
             /\ pc # writer[w].pc => Busy(d, pc)' = Busy(d, pc)
             /\ \A v \in Busy(d, pc)' : writer'[v] = writer[v]
  <2>1. /\ Busy(d, pc)' \ {w} = Busy(d, pc) \ {w}
        /\ w \in Busy(d, pc)' <=> (writer'[w].pc = pc /\ writer'[w].id = d)
        /\ w \in Busy(d, pc) <=> (writer[w].pc = pc /\ writer[w].id = d)
        /\ \A v \in Busy(d, pc) \ {w} : writer'[v] = writer[v]
    BY <1>2, BusyMoves
  <2>2. w \notin Busy(d, pc)'
    BY <1>1, <1>2, <2>1
  <2>3. Busy(d, pc)' = Busy(d, pc) \ {w}
    BY <2>1, <2>2
  <2>4. pc # writer[w].pc => Busy(d, pc)' = Busy(d, pc)
    BY <2>1, <2>2, SameBut
  <2> QED
    BY <2>1, <2>3, <2>4
<1> QED
  BY <1>2, <1>3

\* A step of a request at d that has no effect elsewhere.
LEMMA AnsweredElsewhere ==
    ASSUME DeliverablesInv, NEW w \in Writers, NEW d \in DeliverableIds, writer[w].id = d,
           writer' = [writer EXCEPT ![w] = IdleWriter],
           \A e \in DeliverableIds \ {d} :
              deliverable'[e] = deliverable[e] /\ versionRows'[e] = versionRows[e]
    PROVE  \A e \in DeliverableIds \ {d} : HistoryInv(e)'
<1>1. IdleWriter.pc = "idle" /\ IdleWriter \in {IdleWriter} \cup BusyWriters
  BY DEF IdleWriter
<1> QED
  BY <1>1, OthersHistories

\* The first version row.
LEMMA CreateVersionStep ==
    ASSUME DeliverablesInv, NEW w \in Writers, CreateDeliverableVersion(w)
    PROVE  DeliverablesInv'
<1>1. DeliverablesTypeOK /\ writer[w].pc = "first"
  BY DEF DeliverablesInv, CreateDeliverableVersion, WriterAt
<1>2. PICK d \in DeliverableIds, row \in DeliverableRows, main \in DeliverableRows :
         /\ d = writer[w].id /\ row = writer[w].row /\ main = deliverable[d]
         /\ w \in Busy(d, "first") /\ HistoryInv(d)
  BY <1>1, BusyAt
<1>3. /\ versionRows' = [versionRows EXCEPT ![d] = Append(@, row)]
      /\ writer' = [writer EXCEPT ![w] = IdleWriter] /\ deliverable' = deliverable
      /\ 1 \notin VersionNumbers(d)
  BY <1>2 DEF CreateDeliverableVersion, MemoryVersionInsert, WriterAnswered, MemoryVersionTaken
<1>4. main # None /\ main.version \in Nat /\ main.version >= 1
  BY DeliverableFields, DeliverablesAssumption
<1>5. PICK rows, more, nums, first, insert, open :
         /\ rows = versionRows[d] /\ more = versionRows'[d] /\ nums = VersionNumbers(d) /\ first = Busy(d, "first")
         /\ insert = Busy(d, "insert") /\ open = Busy(d, "main")
  OBVIOUS
<1>6. History(main, rows, nums, first, insert, open, writer)
  BY <1>2, <1>4, <1>5, HistoryIs
<1>7. row.version = 1 /\ (main.version = 1 => row = main) /\ \A v \in first : v = w
  BY <1>2, <1>5, <1>6 DEF History
<1>8. /\ VersionNumbers(d)' = nums \cup {1}
      /\ versionRows' \in [DeliverableIds -> Seq(DeliverableRows)]
      /\ \A e \in DeliverableIds \ {d} : versionRows'[e] = versionRows[e]
      /\ \A i, j \in 1..Len(more) : more[i].version = more[j].version => i = j
      /\ \A x : (\E i \in 1..Len(rows) : rows[i] = x) => \E i \in 1..Len(more) : more[i] = x
      /\ \E i \in 1..Len(more) : more[i] = row
  <2>1. /\ row.version \notin VersionNumbers(d)
        /\ \A i, j \in 1..Len(versionRows[d]) :
              versionRows[d][i].version = versionRows[d][j].version => i = j
    BY <1>3, <1>5, <1>6, <1>7 DEF History
  <2>2. /\ versionRows' \in [DeliverableIds -> Seq(DeliverableRows)]
        /\ \A e \in DeliverableIds \ {d} : versionRows'[e] = versionRows[e]
        /\ VersionNumbers(d)' = VersionNumbers(d) \cup {row.version}
        /\ \A i, j \in 1..Len(versionRows'[d]) :
              versionRows'[d][i].version = versionRows'[d][j].version => i = j
        /\ \A x : (\E i \in 1..Len(versionRows[d]) : versionRows[d][i] = x) =>
              \E i \in 1..Len(versionRows'[d]) : versionRows'[d][i] = x
        /\ \E i \in 1..Len(versionRows'[d]) : versionRows'[d][i] = row
    BY <1>1, <1>3, <2>1, RowAdded
  <2>3. /\ \A i, j \in 1..Len(more) : more[i].version = more[j].version => i = j
        /\ \A x : (\E i \in 1..Len(rows) : rows[i] = x) => \E i \in 1..Len(more) : more[i] = x
        /\ \E i \in 1..Len(more) : more[i] = row
    BY <1>5, <2>2
  <2>4. VersionNumbers(d)' = nums \cup {1}
    BY <1>5, <1>7, <2>2
  <2> QED
    BY <2>2, <2>3, <2>4
<1>9. /\ writer' \in [Writers -> {IdleWriter} \cup BusyWriters]
      /\ Busy(d, "first")' = {} /\ Busy(d, "insert")' = insert /\ Busy(d, "main")' = open
      /\ \A v \in insert : writer'[v] = writer[v]
      /\ \A v \in open : writer'[v] = writer[v]
  <2>1. /\ writer' \in [Writers -> {IdleWriter} \cup BusyWriters]
        /\ Busy(d, "first")' = first \ {w} /\ Busy(d, "insert")' = insert /\ Busy(d, "main")' = open
        /\ \A v \in Busy(d, "insert")' : writer'[v] = writer[v]
        /\ \A v \in Busy(d, "main")' : writer'[v] = writer[v]
    BY <1>1, <1>2, <1>3, <1>5, AnsweredBusy
  <2> QED
    BY <1>7, <2>1
<1>10. DeliverablesTypeOK'
  BY <1>1, <1>3, <1>8, <1>9 DEF DeliverablesTypeOK, BusyWriters
<1>11. \A e \in DeliverableIds \ {d} : HistoryInv(e)'
  <2>1. \A e \in DeliverableIds \ {d} :
           deliverable'[e] = deliverable[e] /\ versionRows'[e] = versionRows[e]
    BY <1>3, <1>8
  <2> QED
    BY <1>2, <1>3, <2>1, AnsweredElsewhere
<1>12. History(main, more, nums \cup {1}, {}, insert, open, writer')
  <2>1. nums \cup {1} = {n \in 1..(main.version + 1) :
           (n = 1 => {} = {}) /\ (n = main.version + 1 => open # {})}
    <3>1. nums = {n \in 1..(main.version + 1) :
             (n = 1 => first = {}) /\ (n = main.version + 1 => open # {})}
      BY <1>6 DEF History
    <3>2. first # {} /\ 1 \in 1..(main.version + 1) /\ 1 # main.version + 1
      BY <1>2, <1>4, <1>5
    <3> QED
      BY <3>1, <3>2
  <2>2. main.version \in nums \cup {1} => \E i \in 1..Len(more) : more[i] = main
    BY <1>6, <1>7, <1>8 DEF History
  <2>3. /\ \A v \in insert : writer'[v].row.version \in 2..(main.version + 1)
        /\ \A v \in open : writer'[v].row.version = main.version + 1
        /\ \A u, v \in open : u = v
    BY <1>6, <1>9 DEF History
  <2>4. \A v \in open : \E i \in 1..Len(more) : more[i] = writer'[v].row
    <3>1. \A v \in open : \E i \in 1..Len(rows) : rows[i] = writer'[v].row
      BY <1>6, <1>9 DEF History
    <3> QED
      BY <1>8, <3>1
  <2> QED
    BY <1>8, <2>1, <2>2, <2>3, <2>4 DEF History
<1>13. HistoryInv(d)'
  BY <1>2, <1>3, <1>4, <1>5, <1>8, <1>9, <1>12, HistoryNext
<1> QED
  BY <1>10, <1>11, <1>13 DEF DeliverablesInv

\* A request goes on to its next write of d: what that does to the three sets.
LEMMA MovedBusy ==
    ASSUME DeliverablesTypeOK, NEW w \in Writers, NEW d \in DeliverableIds,
           NEW new \in BusyWriters, new.id = d, new.pc # writer[w].pc,
           writer' = [writer EXCEPT ![w] = new]
    PROVE  /\ writer' \in [Writers -> {IdleWriter} \cup BusyWriters] /\ writer'[w] = new
           /\ \A pc \in {"first", "insert", "main"} :
                 /\ pc = new.pc => Busy(d, pc)' = Busy(d, pc) \cup {w} /\ w \notin Busy(d, pc)
                 /\ pc = writer[w].pc => Busy(d, pc)' = Busy(d, pc) \ {w}
                 /\ pc # new.pc /\ pc # writer[w].pc => Busy(d, pc)' = Busy(d, pc)
                 /\ \A v \in Busy(d, pc)' \ {w} : writer'[v] = writer[v]
<1>1. /\ writer' \in [Writers -> {IdleWriter} \cup BusyWriters] /\ writer'[w] = new
      /\ \A v \in Writers \ {w} : writer'[v] = writer[v]
  BY WriterMoves
<1>2. ASSUME NEW pc \in {"first", "insert", "main"}
      PROVE  /\ pc = new.pc => Busy(d, pc)' = Busy(d, pc) \cup {w} /\ w \notin Busy(d, pc)
             /\ pc = writer[w].pc => Busy(d, pc)' = Busy(d, pc) \ {w}
             /\ pc # new.pc /\ pc # writer[w].pc => Busy(d, pc)' = Busy(d, pc)
             /\ \A v \in Busy(d, pc)' \ {w} : writer'[v] = writer[v]
  <2>1. /\ Busy(d, pc)' \ {w} = Busy(d, pc) \ {w}
        /\ w \in Busy(d, pc)' <=> pc = new.pc
        /\ w \in Busy(d, pc) <=> (writer[w].pc = pc /\ writer[w].id = d)
        /\ \A v \in Busy(d, pc) \ {w} : writer'[v] = writer[v]
    BY <1>1, BusyMoves
  <2>2. pc = new.pc => Busy(d, pc)' = Busy(d, pc) \cup {w} /\ w \notin Busy(d, pc)
    BY <2>1
  <2>3. pc = writer[w].pc => Busy(d, pc)' = Busy(d, pc) \ {w}
    BY <2>1
  <2>4. pc # new.pc /\ pc # writer[w].pc => Busy(d, pc)' = Busy(d, pc)
    BY <2>1, SameBut
  <2> QED
    BY <2>1, <2>2, <2>3, <2>4
<1> QED
  BY <1>1, <1>2

\* PUT: the request holds the next version.
LEMMA PutStep ==
    ASSUME DeliverablesInv, NEW w \in Writers, NEW d \in DeliverableIds, NEW x \in Contents,
           PutDeliverable(w, d, x)
    PROVE  DeliverablesInv'
<1>1. DeliverablesTypeOK /\ HistoryInv(d) /\ deliverable[d] # None /\ writer[w].pc = "idle"
  BY DEF DeliverablesInv, PutDeliverable, UpdateDeliverable, GetDeliverable, WriterAt
<1>2. PICK main \in DeliverableRows : main = deliverable[d] /\ main # None /\ main.version < MaxVersion
  BY <1>1 DEF DeliverablesTypeOK, PutDeliverable, UpdateDeliverable, GetDeliverable
<1>3. PICK k \in Nat : k = main.version /\ k >= 1 /\ k < MaxVersion
  BY <1>2, DeliverableFields, DeliverablesAssumption
<1>4. PICK row : row = VersionRow(k + 1, x)
  OBVIOUS
<1>5. row \in DeliverableRows /\ row.version = k + 1
  BY <1>3, <1>4, DeliverablesAssumption DEF VersionRow, DeliverableRows
<1>6. PICK new : new = [pc |-> "insert", id |-> d, row |-> row]
  OBVIOUS
<1>7. new \in BusyWriters /\ new.pc = "insert" /\ new.id = d /\ new.row = row
  BY <1>5, <1>6 DEF BusyWriters
<1>8. writer' = [writer EXCEPT ![w] = new] /\ deliverable' = deliverable /\ versionRows' = versionRows
  BY <1>2, <1>3, <1>4, <1>6 DEF PutDeliverable, UpdateDeliverable, GetDeliverable
<1>9. PICK rows, nums, first, insert, open :
         /\ rows = versionRows[d] /\ nums = VersionNumbers(d) /\ first = Busy(d, "first")
         /\ insert = Busy(d, "insert") /\ open = Busy(d, "main")
  OBVIOUS
<1>10. History(main, rows, nums, first, insert, open, writer)
  BY <1>1, <1>2, <1>9, HistoryIs
<1>11. /\ writer' \in [Writers -> {IdleWriter} \cup BusyWriters] /\ writer'[w] = new
       /\ Busy(d, "first")' = first /\ Busy(d, "insert")' = insert \cup {w} /\ Busy(d, "main")' = open
       /\ \A v \in first \cup insert \cup open : v # w /\ writer'[v] = writer[v]
  <2>1. w \notin first /\ w \notin insert /\ w \notin open
    BY <1>1, <1>9 DEF Busy, WriterAt
  <2>2. /\ writer' \in [Writers -> {IdleWriter} \cup BusyWriters] /\ writer'[w] = new
        /\ Busy(d, "first")' = first /\ Busy(d, "insert")' = insert \cup {w} /\ Busy(d, "main")' = open
        /\ \A v \in Busy(d, "first")' \ {w} : writer'[v] = writer[v]
        /\ \A v \in Busy(d, "insert")' \ {w} : writer'[v] = writer[v]
        /\ \A v \in Busy(d, "main")' \ {w} : writer'[v] = writer[v]
    <3>1. /\ writer' \in [Writers -> {IdleWriter} \cup BusyWriters] /\ writer'[w] = new
          /\ \A v \in Writers \ {w} : writer'[v] = writer[v]
      BY <1>1, <1>7, <1>8, WriterMoves
    <3>2. ASSUME NEW pc PROVE /\ Busy(d, pc)' \ {w} = Busy(d, pc) \ {w}
                              /\ w \in Busy(d, pc)' <=> pc = "insert"
                              /\ \A v \in Busy(d, pc) \ {w} : writer'[v] = writer[v]
      BY <1>7, <3>1, BusyMoves
    <3>3. Busy(d, "first")' = first /\ Busy(d, "main")' = open
      BY <1>9, <2>1, <3>2, SameBut
    <3>4. Busy(d, "insert")' = insert \cup {w}
      BY <1>9, <3>2
    <3> QED
      BY <1>9, <3>1, <3>2, <3>3, <3>4
  <2> QED
    BY <2>1, <2>2
<1>12. DeliverablesTypeOK'
  BY <1>1, <1>8, <1>11 DEF DeliverablesTypeOK, BusyWriters
<1>13. \A e \in DeliverableIds \ {d} : HistoryInv(e)'
  BY <1>1, <1>7, <1>8, OthersHistories
<1>14. History(main, rows, nums, first, insert \cup {w}, open, writer')
  <2>1. k + 1 \in 2..(main.version + 1)
    BY <1>3
  <2>2. \A v \in insert \cup {w} : writer'[v].row.version \in 2..(main.version + 1)
    BY <1>5, <1>7, <1>10, <1>11, <2>1 DEF History
  <2> QED
    BY <1>10, <1>11, <2>2 DEF History
<1>15. HistoryInv(d)'
  <2>1. VersionNumbers(d)' = nums
    BY <1>8, <1>9 DEF VersionNumbers
  <2> QED
    BY <1>2, <1>8, <1>9, <1>11, <1>14, <2>1, HistoryNext
<1> QED
  BY <1>12, <1>13, <1>15 DEF DeliverablesInv

\* The insert of an update: refused when the version is taken; otherwise it is
\* the one after the main row, which no other request holds at its last write.
LEMMA InsertStep ==
    ASSUME DeliverablesInv, NEW w \in Writers, UpdateDeliverableInsert(w)
    PROVE  DeliverablesInv'
<1>1. DeliverablesTypeOK /\ writer[w].pc = "insert" /\ deliverable' = deliverable
  BY DEF DeliverablesInv, UpdateDeliverableInsert, WriterAt
<1>2. PICK d \in DeliverableIds, row \in DeliverableRows, main \in DeliverableRows :
         /\ d = writer[w].id /\ row = writer[w].row /\ main = deliverable[d]
         /\ w \in Busy(d, "insert") /\ HistoryInv(d)
  BY <1>1, BusyAt
<1>3. main # None
  BY DeliverableFields
<1>4. PICK k \in Nat : k = main.version /\ k >= 1
  BY DeliverableFields, DeliverablesAssumption
<1>5. PICK rows, more, nums, first, insert, open :
         /\ rows = versionRows[d] /\ more = versionRows'[d] /\ nums = VersionNumbers(d)
         /\ first = Busy(d, "first") /\ insert = Busy(d, "insert") /\ open = Busy(d, "main")
  OBVIOUS
<1>6. History(main, rows, nums, first, insert, open, writer)
  BY <1>2, <1>3, <1>5, HistoryIs
<1>7. w \notin first /\ w \notin open
  BY <1>1, <1>5 DEF Busy, WriterAt
<1>8. CASE row.version \in nums /\ writer' = [writer EXCEPT ![w] = IdleWriter] /\ versionRows' = versionRows
  <2>1. /\ writer' \in [Writers -> {IdleWriter} \cup BusyWriters]
        /\ Busy(d, "first")' = first /\ Busy(d, "insert")' = insert \ {w} /\ Busy(d, "main")' = open
        /\ \A v \in Busy(d, "first")' : writer'[v] = writer[v]
        /\ \A v \in Busy(d, "insert")' : writer'[v] = writer[v]
        /\ \A v \in Busy(d, "main")' : writer'[v] = writer[v]
    BY <1>1, <1>2, <1>5, <1>8, AnsweredBusy
  <2>2. DeliverablesTypeOK'
    BY <1>1, <1>8, <2>1 DEF DeliverablesTypeOK, BusyWriters
  <2>3. \A e \in DeliverableIds \ {d} : HistoryInv(e)'
    <3>1. \A e \in DeliverableIds \ {d} :
             deliverable'[e] = deliverable[e] /\ versionRows'[e] = versionRows[e]
      BY <1>1, <1>8
    <3> QED
      BY <1>2, <1>8, <3>1, AnsweredElsewhere
  <2>4. History(main, rows, nums, first, insert \ {w}, open, writer')
    BY <1>6, <2>1 DEF History
  <2>5. VersionNumbers(d)' = nums
    BY <1>5, <1>8 DEF VersionNumbers
  <2>6. HistoryInv(d)'
    BY <1>1, <1>2, <1>3, <1>5, <1>8, <2>1, <2>4, <2>5, HistoryNext
  <2> QED
    BY <2>2, <2>3, <2>6 DEF DeliverablesInv
<1>9. CASE /\ row.version \notin nums /\ writer' = [writer EXCEPT ![w].pc = "main"]
           /\ versionRows' = [versionRows EXCEPT ![d] = Append(@, row)]
  <2>1. PICK new : new = [writer[w] EXCEPT !.pc = "main"]
    OBVIOUS
  <2>2. new \in BusyWriters /\ new.pc = "main" /\ new.id = d /\ new.row = row
    <3>1. writer[w] \in BusyWriters
      BY <1>1, WriterFields
    <3> QED
      BY <1>2, <2>1, <3>1 DEF BusyWriters
  <2>3. writer' = [writer EXCEPT ![w] = new]
    BY <1>9, <2>1
  <2>4. row.version = k + 1 /\ open = {}
    <3>1. row.version \in 2..(k + 1)
      BY <1>2, <1>4, <1>5, <1>6 DEF History
    <3>2. PICK n \in Nat : n = row.version /\ n >= 2 /\ n <= k + 1
      BY <1>4, <3>1
    <3>3. n \in 1..(k + 1) /\ n # 1
      BY <3>2
    <3>4. \A m \in 1..(k + 1) : m # 1 /\ (m = k + 1 => open # {}) => m \in nums
      BY <1>4, <1>6 DEF History
    <3> QED
      BY <1>9, <3>2, <3>3, <3>4
  <2>5. /\ versionRows' \in [DeliverableIds -> Seq(DeliverableRows)]
        /\ \A e \in DeliverableIds \ {d} : versionRows'[e] = versionRows[e]
        /\ VersionNumbers(d)' = nums \cup {row.version}
        /\ \A i, j \in 1..Len(more) : more[i].version = more[j].version => i = j
        /\ \A x : (\E i \in 1..Len(rows) : rows[i] = x) => \E i \in 1..Len(more) : more[i] = x
        /\ \E i \in 1..Len(more) : more[i] = row
    <3>1. /\ row.version \notin VersionNumbers(d)
          /\ \A i, j \in 1..Len(versionRows[d]) :
                versionRows[d][i].version = versionRows[d][j].version => i = j
      BY <1>5, <1>6, <1>9 DEF History
    <3>2. /\ versionRows' \in [DeliverableIds -> Seq(DeliverableRows)]
          /\ \A e \in DeliverableIds \ {d} : versionRows'[e] = versionRows[e]
          /\ VersionNumbers(d)' = VersionNumbers(d) \cup {row.version}
          /\ \A i, j \in 1..Len(versionRows'[d]) :
                versionRows'[d][i].version = versionRows'[d][j].version => i = j
          /\ \A x : (\E i \in 1..Len(versionRows[d]) : versionRows[d][i] = x) =>
                \E i \in 1..Len(versionRows'[d]) : versionRows'[d][i] = x
          /\ \E i \in 1..Len(versionRows'[d]) : versionRows'[d][i] = row
      BY <1>1, <1>9, <3>1, RowAdded
    <3> QED
      BY <1>5, <3>2
  <2>6. /\ writer' \in [Writers -> {IdleWriter} \cup BusyWriters] /\ writer'[w] = new
        /\ \A pc \in {"first", "insert", "main"} :
              /\ pc = new.pc => Busy(d, pc)' = Busy(d, pc) \cup {w} /\ w \notin Busy(d, pc)
              /\ pc = writer[w].pc => Busy(d, pc)' = Busy(d, pc) \ {w}
              /\ pc # new.pc /\ pc # writer[w].pc => Busy(d, pc)' = Busy(d, pc)
              /\ \A v \in Busy(d, pc)' \ {w} : writer'[v] = writer[v]
    <3>1. new.pc # writer[w].pc
      BY <1>1, <2>2
    <3> QED
      BY <1>1, <1>2, <2>2, <2>3, <3>1, MovedBusy
  <2>7. /\ Busy(d, "first")' = first /\ Busy(d, "insert")' = insert \ {w} /\ Busy(d, "main")' = {w}
        /\ \A v \in first : writer'[v] = writer[v]
        /\ \A v \in insert \ {w} : writer'[v] = writer[v]
    <3>1. /\ Busy(d, "first")' = first /\ Busy(d, "insert")' = insert \ {w}
          /\ Busy(d, "main")' = open \cup {w}
          /\ \A v \in Busy(d, "first")' \ {w} : writer'[v] = writer[v]
          /\ \A v \in Busy(d, "insert")' \ {w} : writer'[v] = writer[v]
      BY <1>1, <1>5, <2>2, <2>6
    <3> QED
      BY <1>7, <2>4, <3>1
  <2>8. DeliverablesTypeOK'
    BY <1>1, <2>5, <2>6 DEF DeliverablesTypeOK, BusyWriters
  <2>9. \A e \in DeliverableIds \ {d} : HistoryInv(e)'
    <3>1. \A e \in DeliverableIds \ {d} :
             deliverable'[e] = deliverable[e] /\ versionRows'[e] = versionRows[e]
      BY <1>1, <2>5
    <3> QED
      BY <1>2, <2>2, <2>3, <3>1, OthersHistories
  <2>10. History(main, more, nums \cup {k + 1}, first, insert \ {w}, {w}, writer')
    <3>1. nums \cup {k + 1} = {n \in 1..(k + 1) : (n = 1 => first = {}) /\ (n = k + 1 => {w} # {})}
      <4>1. nums = {n \in 1..(k + 1) : (n = 1 => first = {}) /\ (n = k + 1 => open # {})}
        BY <1>4, <1>6 DEF History
      <4>2. k + 1 \in 1..(k + 1) /\ k + 1 # 1
        BY <1>4
      <4> QED
        BY <2>4, <4>1, <4>2
    <3>2. main.version \in nums \cup {k + 1} => \E i \in 1..Len(more) : more[i] = main
      <4>1. k # k + 1
        OBVIOUS
      <4>2. main.version \in nums => \E i \in 1..Len(rows) : rows[i] = main
        BY <1>6 DEF History
      <4> QED
        BY <1>4, <2>5, <4>1, <4>2
    <3>3. \A v \in first : writer'[v].row.version = 1 /\ (main.version = 1 => writer'[v].row = main)
      BY <1>6, <2>7 DEF History
    <3>4. \A v \in insert \ {w} : writer'[v].row.version \in 2..(main.version + 1)
      BY <1>6, <2>7 DEF History
    <3>5. \A v \in {w} : /\ writer'[v].row.version = main.version + 1
                         /\ \E i \in 1..Len(more) : more[i] = writer'[v].row
      BY <1>4, <2>2, <2>4, <2>5, <2>6
    <3>6. \A u, v \in first : u = v
      BY <1>6 DEF History
    <3>7. \A u, v \in {w} : u = v
      OBVIOUS
    <3> QED
      BY <1>4, <2>5, <3>1, <3>2, <3>3, <3>4, <3>5, <3>6, <3>7 DEF History
  <2>11. HistoryInv(d)'
    <3>1. VersionNumbers(d)' = nums \cup {k + 1}
      BY <2>4, <2>5
    <3> QED
      BY <1>1, <1>2, <1>3, <1>5, <2>7, <2>10, <3>1, HistoryNext
  <2> QED
    BY <2>8, <2>9, <2>11 DEF DeliverablesInv
<1> QED
  <2>1. \/ row.version \in nums /\ writer' = [writer EXCEPT ![w] = IdleWriter] /\ versionRows' = versionRows
        \/ /\ row.version \notin nums /\ writer' = [writer EXCEPT ![w].pc = "main"]
           /\ versionRows' = [versionRows EXCEPT ![d] = Append(@, row)]
    BY <1>2, <1>5 DEF UpdateDeliverableInsert, MemoryVersionTaken, MemoryVersionInsert, WriterAnswered
  <2> QED
    BY <1>8, <1>9, <2>1

\* The version that was inserted becomes the main row.
LEMMA MainStep ==
    ASSUME DeliverablesInv, NEW w \in Writers, UpdateDeliverableMain(w)
    PROVE  DeliverablesInv'
<1>1. DeliverablesTypeOK /\ writer[w].pc = "main" /\ versionRows' = versionRows
  BY DEF DeliverablesInv, UpdateDeliverableMain, WriterAt
<1>2. PICK d \in DeliverableIds, row \in DeliverableRows, main \in DeliverableRows :
         /\ d = writer[w].id /\ row = writer[w].row /\ main = deliverable[d]
         /\ w \in Busy(d, "main") /\ HistoryInv(d)
  BY <1>1, BusyAt
<1>3. deliverable' = [deliverable EXCEPT ![d] = row] /\ writer' = [writer EXCEPT ![w] = IdleWriter]
  BY <1>2 DEF UpdateDeliverableMain, MemoryDeliverableUpdate, WriterAnswered
<1>4. main # None /\ row # None
  BY DeliverableFields
<1>5. PICK k \in Nat : k = main.version /\ k >= 1
  BY DeliverableFields, DeliverablesAssumption
<1>6. PICK rows, nums, first, insert, open :
         /\ rows = versionRows[d] /\ nums = VersionNumbers(d) /\ first = Busy(d, "first")
         /\ insert = Busy(d, "insert") /\ open = Busy(d, "main")
  OBVIOUS
<1>7. History(main, rows, nums, first, insert, open, writer)
  BY <1>2, <1>4, <1>6, HistoryIs
<1>8. /\ row.version = k + 1 /\ (\E i \in 1..Len(rows) : rows[i] = row)
      /\ w \in open /\ \A v \in open : v = w
  BY <1>2, <1>5, <1>6, <1>7 DEF History
<1>9. /\ writer' \in [Writers -> {IdleWriter} \cup BusyWriters]
      /\ Busy(d, "first")' = first /\ Busy(d, "insert")' = insert /\ Busy(d, "main")' = {}
      /\ \A v \in first : writer'[v] = writer[v]
      /\ \A v \in insert : writer'[v] = writer[v]
  <2>1. /\ writer' \in [Writers -> {IdleWriter} \cup BusyWriters]
        /\ Busy(d, "first")' = first /\ Busy(d, "insert")' = insert /\ Busy(d, "main")' = open \ {w}
        /\ \A v \in Busy(d, "first")' : writer'[v] = writer[v]
        /\ \A v \in Busy(d, "insert")' : writer'[v] = writer[v]
    BY <1>1, <1>2, <1>3, <1>6, AnsweredBusy
  <2> QED
    BY <1>8, <2>1
<1>10. /\ deliverable' \in [DeliverableIds -> DeliverableRows \cup {None}] /\ deliverable'[d] = row
       /\ \A e \in DeliverableIds \ {d} : deliverable'[e] = deliverable[e]
  BY <1>1, <1>3 DEF DeliverablesTypeOK
<1>11. DeliverablesTypeOK'
  BY <1>1, <1>9, <1>10 DEF DeliverablesTypeOK, BusyWriters
<1>12. \A e \in DeliverableIds \ {d} : HistoryInv(e)'
  <2>1. \A e \in DeliverableIds \ {d} :
           deliverable'[e] = deliverable[e] /\ versionRows'[e] = versionRows[e]
    BY <1>1, <1>10
  <2> QED
    BY <1>2, <1>3, <2>1, AnsweredElsewhere
<1>13. History(row, rows, nums, first, insert, {}, writer')
  <2>1. nums = {n \in 1..(row.version + 1) : (n = 1 => first = {}) /\ (n = row.version + 1 => {} # {})}
    <3>1. nums = {n \in 1..(k + 1) : (n = 1 => first = {}) /\ (n = k + 1 => open # {})}
      BY <1>5, <1>7 DEF History
    <3>2. \A n : (n \in 1..((k + 1) + 1) /\ n # (k + 1) + 1) <=> n \in 1..(k + 1)
      BY <1>5
    <3> QED
      BY <1>8, <3>1, <3>2
  <2>2. \A v \in first : writer'[v].row.version = 1 /\ (row.version = 1 => writer'[v].row = row)
    <3>1. row.version # 1
      BY <1>5, <1>8
    <3> QED
      BY <1>7, <1>9, <3>1 DEF History
  <2>3. \A v \in insert : writer'[v].row.version \in 2..(row.version + 1)
    <3>1. \A v \in insert : writer'[v].row.version \in 2..(k + 1)
      BY <1>5, <1>7, <1>9 DEF History
    <3>2. 2..(k + 1) \subseteq 2..((k + 1) + 1)
      BY <1>5
    <3> QED
      BY <1>8, <3>1, <3>2
  <2>4. /\ \A i, j \in 1..Len(rows) : rows[i].version = rows[j].version => i = j
        /\ \A u, v \in first : u = v
    BY <1>7 DEF History
  <2> QED
    BY <1>8, <2>1, <2>2, <2>3, <2>4 DEF History
<1>14. HistoryInv(d)'
  <2>1. VersionNumbers(d)' = nums
    BY <1>1, <1>6 DEF VersionNumbers
  <2> QED
    BY <1>1, <1>4, <1>6, <1>9, <1>10, <1>13, <2>1, HistoryNext
<1> QED
  BY <1>11, <1>12, <1>14 DEF DeliverablesInv

\* At the start there are no deliverables.
LEMMA DeliverablesInitially == DeliverablesInit => DeliverablesInv
<1> SUFFICES ASSUME DeliverablesInit PROVE DeliverablesInv
  OBVIOUS
<1>1. /\ deliverable = [d \in DeliverableIds |-> None]
      /\ versionRows = [d \in DeliverableIds |-> <<>>]
      /\ writer = [w \in Writers |-> IdleWriter] /\ IdleWriter.pc = "idle"
  BY DEF DeliverablesInit, IdleWriter
<1>2. DeliverablesTypeOK
  BY <1>1 DEF DeliverablesTypeOK
<1>3. ASSUME NEW d \in DeliverableIds PROVE HistoryInv(d)
  <2>1. \A pc \in {"first", "insert", "main"} : Busy(d, pc) = {}
    BY <1>1 DEF Busy, WriterAt
  <2> QED
    BY <1>1, <2>1 DEF HistoryInv
<1> QED
  BY <1>2, <1>3 DEF DeliverablesInv

\* Whatever requests interleave, the two tables stay related by HistoryInv.
THEOREM DeliverablesInvariant == DeliverablesSpec => []DeliverablesInv
<1>1. DeliverablesInv /\ [DeliverablesNext]_deliverableVars => DeliverablesInv'
  <2> SUFFICES ASSUME DeliverablesInv, [DeliverablesNext]_deliverableVars PROVE DeliverablesInv'
    OBVIOUS
  <2>1. CASE DeliverablesNext
    BY <2>1, PostStep, PutStep, CreateVersionStep, InsertStep, MainStep DEF DeliverablesNext
  <2>2. CASE UNCHANGED deliverableVars
    <3>1. deliverable' = deliverable /\ versionRows' = versionRows /\ writer' = writer
      BY <2>2 DEF deliverableVars
    <3>2. DeliverablesTypeOK'
      BY <3>1 DEF DeliverablesInv, DeliverablesTypeOK
    <3>3. \A d \in DeliverableIds, pc \in {"first", "insert", "main"} : Busy(d, pc)' = Busy(d, pc)
      BY <3>1 DEF Busy, WriterAt
    <3>4. \A d \in DeliverableIds : HistoryInv(d)'
      BY <3>1, <3>3, HistoryElsewhere DEF DeliverablesInv
    <3> QED
      BY <3>2, <3>4 DEF DeliverablesInv
  <2> QED
    BY <2>1, <2>2
<1> QED
  BY <1>1, DeliverablesInitially, PTL DEF DeliverablesSpec

-----------------------------------------------------------------------------
\* Deliverables: what the version list shows.

\* An interval has its length.
LEMMA IntervalCount ==
    ASSUME NEW m \in Nat
    PROVE  IsFiniteSet(1..m) /\ Cardinality(1..m) = m
  BY FS_Interval

\* A sequence without repetitions of what is looked at in its elements has as
\* many elements as there are of those.
LEMMA DistinctCount ==
    ASSUME NEW m \in Nat, NEW f, DOMAIN f = 1..m, NEW T, T = {f[i] : i \in 1..m},
           f = [i \in 1..m |-> f[i]], \A i, j \in 1..m : f[i] = f[j] => i = j
    PROVE  IsFiniteSet(T) /\ Cardinality(T) = m
<1>1. f \in [1..m -> T]
  OBVIOUS
<1>2. f \in Bijection(1..m, T)
  BY <1>1, Fun_IsBij
<1>3. IsFiniteSet(1..m) /\ Cardinality(1..m) = m
  BY IntervalCount
<1>4. ExistsBijection(1..m, T)
  BY <1>2, Fun_ExistsBij
<1> QED
  BY <1>3, <1>4, FS_Bijection

\* A list of rows in strictly falling order of their versions, as long as the
\* history and taken from it, shows every row of it.
LEMMA FallingShowsAll ==
    ASSUME NEW m \in Nat, NEW T, IsFiniteSet(T), Cardinality(T) = m,
           \A r \in T : r.version \in Nat,
           NEW s \in [1..m -> T], \A i, j \in 1..m : i < j => s[i].version > s[j].version
    PROVE  \A r \in T : \E i \in 1..m : s[i] = r
<1>1. ASSUME NEW i \in 1..m, NEW j \in 1..m, s[i] = s[j] PROVE i = j
  <2>1. i \in Nat /\ j \in Nat /\ s[i].version \in Nat /\ s[j].version \in Nat
    OBVIOUS
  <2>2. ~(i < j) /\ ~(j < i)
    BY <1>1, <2>1
  <2> QED
    BY <2>1, <2>2
<1>2. s \in Injection(1..m, T)
  BY <1>1, Fun_IsInj
<1>3. IsFiniteSet(1..m) /\ Cardinality(1..m) = m
  BY IntervalCount
<1>4. s \in Surjection(1..m, T)
  BY <1>2, <1>3, FS_Injection
<1> QED
  BY <1>4, Fun_SurjectionProperties

\* Counting down m versions from hi stays among those that T has.
CountsDown(m, hi, T) == \A i \in 1..m : \E r \in T : r.version = hi + 1 - i

\* The version list of a history without gaps or repetitions exists: it counts
\* down.
LEMMA FallingExists ==
    ASSUME NEW m \in Nat, NEW hi \in Nat, NEW T, CountsDown(m, hi, T)
    PROVE  \E s \in [1..m -> T] : \A i, j \in 1..m : i < j => s[i].version > s[j].version
<1>1. PICK s : s = [i \in 1..m |-> CHOOSE r \in T : r.version = hi + 1 - i]
  OBVIOUS
<1>2. ASSUME NEW i \in 1..m PROVE s[i] \in T /\ s[i].version = hi + 1 - i
  <2>1. \E r \in T : r.version = hi + 1 - i
    BY DEF CountsDown
  <2>2. s[i] = CHOOSE r \in T : r.version = hi + 1 - i
    BY <1>1
  <2> QED
    BY <2>1, <2>2
<1>3. s \in [1..m -> T]
  BY <1>1, <1>2
<1>4. ASSUME NEW i \in 1..m, NEW j \in 1..m, i < j PROVE s[i].version > s[j].version
  <2>1. hi + 1 - i > hi + 1 - j
    BY <1>4
  <2> QED
    BY <1>2, <2>1
<1> QED
  BY <1>3, <1>4

\* The history of a deliverable is complete at every moment, whichever requests
\* are between the two store calls of CreateDeliverable and UpdateDeliverable:
\* no version is missing or there twice, and the list shows what the main row
\* does.
THEOREM HistoryComplete == DeliverablesSpec => []HistoryIsComplete
<1>1. DeliverablesInv => HistoryIsComplete
  <2> SUFFICES ASSUME DeliverablesInv, NEW d \in DeliverableIds, deliverable[d] # None
               PROVE  LET newest == deliverable[d].version + Cardinality(Busy(d, "main"))
                      IN  /\ Cardinality(Busy(d, "main")) <= 1
                          /\ VersionNumbers(d) = (IF Busy(d, "first") = {} THEN 1 ELSE 2)..newest
                          /\ Len(versionRows[d]) = Cardinality(VersionNumbers(d))
                          /\ MemoryVersionTaken(d, deliverable[d].version) =>
                                \E i \in 1..Len(ListVersions(d)) :
                                   ListVersions(d)[i] = GetDeliverable(d)
    BY DEF HistoryIsComplete
  <2>1. DeliverablesTypeOK /\ HistoryInv(d)
    BY DEF DeliverablesInv
  <2>2. PICK main \in DeliverableRows : main = deliverable[d]
    BY <2>1 DEF DeliverablesTypeOK
  <2>3. PICK k \in Nat : k = main.version /\ k >= 1
    BY DeliverableFields, DeliverablesAssumption
  <2>4. PICK rows \in Seq(DeliverableRows) : rows = versionRows[d]
    BY <2>1 DEF DeliverablesTypeOK
  <2>5. PICK nums, first, insert, open :
           /\ nums = VersionNumbers(d) /\ first = Busy(d, "first")
           /\ insert = Busy(d, "insert") /\ open = Busy(d, "main")
    OBVIOUS
  <2>6. History(main, rows, nums, first, insert, open, writer)
    BY <2>1, <2>2, <2>4, <2>5, HistoryIs
  <2>7. PICK c \in {0, 1} : c = Cardinality(open) /\ (c = 0 <=> open = {})
    <3>1. CASE open = {}
      BY <3>1, FS_EmptySet
    <3>2. CASE open # {}
      <4>1. PICK w : w \in open
        BY <3>2
      <4>2. \A v \in open : v = w
        BY <2>6, <4>1 DEF History
      <4>3. open = {w}
        BY <4>1, <4>2
      <4>4. Cardinality(open) = 1
        BY <4>3, FS_Singleton
      <4> QED
        BY <3>2, <4>4
    <3> QED
      BY <3>1, <3>2
  <2>8. PICK lo \in {1, 2} : (lo = 1 <=> first = {}) /\ lo = IF first = {} THEN 1 ELSE 2
    OBVIOUS
  <2>9. nums = lo..(k + c)
    <3>1. nums = {n \in 1..(k + 1) : (n = 1 => first = {}) /\ (n = k + 1 => open # {})}
      BY <2>3, <2>6 DEF History
    <3>2. ASSUME NEW n \in Int PROVE n \in lo..(k + c) <=>
             n \in 1..(k + 1) /\ (n = 1 => lo = 1) /\ (n = k + 1 => c # 0)
      BY <2>3, <2>7, <2>8
    <3>3. ASSUME NEW n \in Int PROVE n \in nums <=> n \in lo..(k + c)
      <4>1. n \in nums <=> n \in 1..(k + 1) /\ (n = 1 => first = {}) /\ (n = k + 1 => open # {})
        BY <3>1
      <4> QED
        BY <2>7, <2>8, <3>2, <4>1
    <3>4. nums \subseteq Int /\ lo..(k + c) \subseteq Int
      BY <3>1
    <3> QED
      BY <3>3, <3>4
  <2>10. PICK m \in Nat : m = Len(rows)
    OBVIOUS
  <2>11. nums = {rows[i].version : i \in 1..m}
    BY <2>4, <2>5, <2>10 DEF VersionNumbers
  <2>12. \A i, j \in 1..m : rows[i].version = rows[j].version => i = j
    BY <2>6, <2>10 DEF History
  <2>13. IsFiniteSet(nums) /\ Cardinality(nums) = m
    <3>1. PICK f : f = [i \in 1..m |-> rows[i].version]
      OBVIOUS
    <3>2. /\ DOMAIN f = 1..m /\ f = [i \in 1..m |-> f[i]] /\ nums = {f[i] : i \in 1..m}
          /\ \A i, j \in 1..m : f[i] = f[j] => i = j
      BY <2>11, <2>12, <3>1
    <3> QED
      BY <3>2, DistinctCount
  <2>14. ASSUME k \in nums
         PROVE  \E i \in 1..Len(ListVersions(d)) : ListVersions(d)[i] = main
    <3>1. PICK T : T = {rows[i] : i \in 1..m}
      OBVIOUS
    <3>2. IsFiniteSet(T) /\ Cardinality(T) = m
      <4>1. /\ DOMAIN rows = 1..m /\ rows = [i \in 1..m |-> rows[i]]
            /\ \A i, j \in 1..m : rows[i] = rows[j] => i = j
        BY <2>10, <2>12
      <4> QED
        BY <3>1, <4>1, DistinctCount
    <3>3. \A r \in T : r \in DeliverableRows /\ r.version \in Nat
      BY <2>10, <3>1, DeliverableFields
    <3>4. \A n \in lo..(k + c) : \E r \in T : r.version = n
      BY <2>9, <2>11, <3>1
    <3>5. m = 0 \/ m = (k + c) - lo + 1
      <4>1. Cardinality(lo..(k + c)) = IF lo > k + c THEN 0 ELSE (k + c) - lo + 1
        BY FS_Interval
      <4> QED
        BY <2>9, <2>13, <4>1
    <3>6. \E s \in [1..m -> T] : \A i, j \in 1..m : i < j => s[i].version > s[j].version
      <4>1. PICK hi \in Nat : hi = k + c
        OBVIOUS
      <4>2. \A i \in 1..m : hi + 1 - i \in lo..hi
        BY <3>5, <4>1
      <4>3. CountsDown(m, hi, T)
        BY <3>4, <4>1, <4>2 DEF CountsDown
      <4> QED
        BY <4>3, FallingExists
    <3>7. PICK s \in [1..m -> T] :
             s = ListVersions(d) /\ \A i, j \in 1..m : i < j => s[i].version > s[j].version
      <4>1. ListVersions(d) = CHOOSE s \in [1..m -> T] :
                                 \A i, j \in 1..m : i < j => s[i].version > s[j].version
        BY <2>4, <2>10, <3>1 DEF ListVersions
      <4> QED
        BY <3>6, <4>1
    <3>8. Len(s) = m
      OBVIOUS
    <3>9. main \in T
      BY <2>3, <2>6, <2>10, <2>14, <3>1 DEF History
    <3>10. \E i \in 1..m : s[i] = main
      BY <3>2, <3>3, <3>7, <3>9, FallingShowsAll
    <3> QED
      BY <3>7, <3>8, <3>10
  <2>15. Cardinality(open) <= 1
    BY <2>7
  <2> QED
    BY <2>2, <2>3, <2>4, <2>5, <2>7, <2>8, <2>9, <2>10, <2>13, <2>14, <2>15
       DEF MemoryVersionTaken, GetDeliverable
<1> QED
  BY <1>1, DeliverablesInvariant, PTL
=============================================================================
