------------------------------ MODULE MCRecords -----------------------------
(***************************************************************************)
(* The record-keeping components, one behaviour exercising one of them:    *)
(* focus is chosen at the start and the others keep their initial state.   *)
(* They share no state that a property relates, so this is their union,    *)
(* not their product.                                                      *)
(***************************************************************************)
EXTENDS Agents, Assignments, Deliverables, Sessions, Migrations, AgentFactory,
        RateLimit, Listing, Projects, TLC

VARIABLE focus

recordVars == <<focus, agentVars, assignVars, deliverableVars, sessionVars, migrationVars,
                factoryVars, rateVars, listVars, projectVars>>

Components == {"agents", "assignments", "deliverables", "sessions", "migrations",
               "factory", "rate", "listing", "projects"}

\* The alternatives of an initial state matter to their own component only.
Settled ==
    /\ focus # "agents" => agentStore = "memory"
    /\ focus # "factory" => factoryRuntime = "process"
    /\ focus # "listing" => list = "memoryAgents"
    /\ focus # "projects" => projectStore = "memory"

RecordsInit ==
    /\ focus \in Components
    /\ AgentsInit /\ AssignInit /\ DeliverablesInit /\ SessionsInit /\ MigrationsInit
    /\ FactoryInit /\ RateInit /\ ListInit /\ ProjectsInit
    /\ Settled

AgentsStep ==
    /\ focus = "agents" /\ AgentsNext
    /\ UNCHANGED <<focus, assignVars, deliverableVars, sessionVars, migrationVars,
                   factoryVars, rateVars, listVars, projectVars>>
AssignStep ==
    /\ focus = "assignments" /\ AssignNext
    /\ UNCHANGED <<focus, agentVars, deliverableVars, sessionVars, migrationVars,
                   factoryVars, rateVars, listVars, projectVars>>
DeliverablesStep ==
    /\ focus = "deliverables" /\ DeliverablesNext
    /\ UNCHANGED <<focus, agentVars, assignVars, sessionVars, migrationVars,
                   factoryVars, rateVars, listVars, projectVars>>
SessionsStep ==
    /\ focus = "sessions" /\ SessionsNext
    /\ UNCHANGED <<focus, agentVars, assignVars, deliverableVars, migrationVars,
                   factoryVars, rateVars, listVars, projectVars>>
MigrationsStep ==
    /\ focus = "migrations" /\ MigrationsNext
    /\ UNCHANGED <<focus, agentVars, assignVars, deliverableVars, sessionVars,
                   factoryVars, rateVars, listVars, projectVars>>
FactoryStep ==
    /\ focus = "factory" /\ FactoryNext
    /\ UNCHANGED <<focus, agentVars, assignVars, deliverableVars, sessionVars,
                   migrationVars, rateVars, listVars, projectVars>>
RateStep ==
    /\ focus = "rate" /\ RateNext
    /\ UNCHANGED <<focus, agentVars, assignVars, deliverableVars, sessionVars,
                   migrationVars, factoryVars, listVars, projectVars>>
ListStep ==
    /\ focus = "listing" /\ ListNext
    /\ UNCHANGED <<focus, agentVars, assignVars, deliverableVars, sessionVars,
                   migrationVars, factoryVars, rateVars, projectVars>>
ProjectsStep ==
    /\ focus = "projects" /\ ProjectsNext
    /\ UNCHANGED <<focus, agentVars, assignVars, deliverableVars, sessionVars,
                   migrationVars, factoryVars, rateVars, listVars>>

RecordsNext ==
    \/ AgentsStep \/ AssignStep \/ DeliverablesStep \/ SessionsStep \/ MigrationsStep
    \/ FactoryStep \/ RateStep \/ ListStep \/ ProjectsStep

RecordsSpec == RecordsInit /\ [][RecordsNext]_recordVars

\* The components use the same model values for their clients, and nothing tells
\* two of these apart.
RecordsSymmetry == Permutations(AgentClients)

-----------------------------------------------------------------------------
\* Every component's state has the shape its code gives it.
RecordsTypeOK ==
    CASE focus = "agents"       -> AgentsTypeOK
      [] focus = "assignments"  -> AssignTypeOK
      [] focus = "deliverables" -> DeliverablesTypeOK
      [] focus = "sessions"     -> SessionsTypeOK
      [] focus = "migrations"   -> MigrationsTypeOK
      [] focus = "factory"      -> FactoryTypeOK
      [] focus = "rate"         -> RateTypeOK
      [] focus = "listing"      -> ListTypeOK
      [] focus = "projects"     -> ProjectsTypeOK
=============================================================================
