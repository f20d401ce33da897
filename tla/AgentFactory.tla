---------------------------- MODULE AgentFactory ----------------------------
(***************************************************************************)
(* agentfactory/agent_factory.go: SpawnAgent calls against Shutdown, over  *)
(* a runtime of package aion (process.go, mock.go) of which only what the  *)
(* factory depends on is kept: its closed flag, the workers registered     *)
(* with it, and the window of Spawn between the two, in which the worker   *)
(* runs already (module AionRuntime has the rest).  A worker is named      *)
(* after the SpawnAgent call that started it.                              *)
(***************************************************************************)
EXTENDS Naturals, FiniteSets, Records

CONSTANTS
    FactoryAgents,      \* agents that are spawned
    SpawnCalls,         \* SpawnAgent calls
    Stoppers            \* Shutdown calls

ASSUME FactoryAssumption == None \notin SpawnCalls

VARIABLES
    factoryRuntime,     \* "process" or "mock": which runtime New was given
    stopped,            \* f.stopped
    tracked,            \* f.tracked: per agent the worker of its handle, or None
    spawnCall,          \* per SpawnAgent call where it is and for which agent
    shutdown,           \* per Shutdown call where it is
    tmap,               \* workers that the first Shutdown has still to signal
    runtimeClosed,      \* the closed flag of the runtime
    registered,         \* the workers map of the runtime
    running,            \* workers that run
    termed,             \* history: workers that SIGTERM was sent to
    unsignalled,        \* history: workers that it could not be sent to
    cancelled,          \* history: workers that the Close of the runtime killed or cancelled
    replaced            \* history: workers whose handle a later spawn of the agent replaced

factoryVars == <<factoryRuntime, stopped, tracked, spawnCall, shutdown, tmap, runtimeClosed,
                 registered, running, termed, unsignalled, cancelled, replaced>>
runtimeVars == <<runtimeClosed, registered, running, cancelled>>

FactoryInit ==
    /\ factoryRuntime \in {"process", "mock"}
    /\ stopped = FALSE
    /\ tracked = [a \in FactoryAgents |-> None]
    /\ spawnCall = [s \in SpawnCalls |-> [pc |-> "idle", agent |-> None]]
    /\ shutdown = [c \in Stoppers |-> "idle"]
    /\ tmap = {}
    /\ runtimeClosed = FALSE
    /\ registered = {} /\ running = {}
    /\ termed = {} /\ unsignalled = {} /\ cancelled = {} /\ replaced = {}

SpawnAt(s, pc) == spawnCall[s].pc = pc
SpawnTo(s, pc) == spawnCall' = [spawnCall EXCEPT ![s].pc = pc]

\* The handle of a process carries its pid, that of the mock none.
ParsePIDFromHandle(s) == factoryRuntime = "process"

\* signalTerm, when the handle has a pid.  A failure is only logged; off Linux
\* every call fails (signals_other.go).
signalTerm(s) ==
    \/ /\ ParsePIDFromHandle(s)
       /\ \/ termed' = termed \cup {s} /\ UNCHANGED unsignalled
          \/ unsignalled' = unsignalled \cup {s} /\ UNCHANGED termed
    \/ ~ParsePIDFromHandle(s) /\ UNCHANGED <<termed, unsignalled>>

-----------------------------------------------------------------------------
\* SpawnAgent: the first look at stopped ...
SpawnAgent(s, a) ==
    /\ SpawnAt(s, "idle")
    /\ spawnCall' = [spawnCall EXCEPT ![s] =
          [pc |-> IF stopped THEN "returned" ELSE "spawn", agent |-> a]]
    /\ UNCHANGED <<factoryRuntime, stopped, tracked, shutdown, tmap, runtimeVars, termed, unsignalled, replaced>>

\* ... runtime.Spawn, which looks at its own closed flag ...
SpawnCheck(s) ==
    /\ SpawnAt(s, "spawn")
    /\ SpawnTo(s, IF runtimeClosed THEN "returned" ELSE "start")
    /\ UNCHANGED <<factoryRuntime, stopped, tracked, shutdown, tmap, runtimeVars, termed, unsignalled, replaced>>

\* ... starts the worker, or cannot ...
SpawnStart(s) ==
    /\ SpawnAt(s, "start")
    /\ \/ running' = running \cup {s} /\ SpawnTo(s, "register")
       \/ SpawnTo(s, "returned") /\ UNCHANGED running
    /\ UNCHANGED <<factoryRuntime, stopped, tracked, shutdown, tmap, runtimeClosed, registered,
                   termed, unsignalled, cancelled, replaced>>

\* ... and enters it in its map.
SpawnRegister(s) ==
    /\ SpawnAt(s, "register")
    /\ registered' = registered \cup {s}
    /\ SpawnTo(s, "track")
    /\ UNCHANGED <<factoryRuntime, stopped, tracked, shutdown, tmap, runtimeClosed, running,
                   termed, unsignalled, cancelled, replaced>>

\* Mistake: stopped is not looked at again.
SpawnTrackUnchecked(s) ==
    LET a == spawnCall[s].agent IN
    /\ SpawnAt(s, "track")
    /\ tracked' = [tracked EXCEPT ![a] = s]
    /\ replaced' = replaced \cup ({tracked[a]} \ {None})
    /\ SpawnTo(s, "returned")
    /\ UNCHANGED <<factoryRuntime, stopped, shutdown, tmap, runtimeVars, termed, unsignalled>>

\* The second look at stopped, under the lock that Shutdown sets it under: the
\* handle is entered, over an earlier one of the agent, or the worker has to go.
SpawnTrack(s) ==
    LET a == spawnCall[s].agent IN
    /\ SpawnAt(s, "track")
    /\ \/ /\ stopped /\ SpawnTo(s, "signal")
          /\ UNCHANGED <<tracked, replaced>>
       \/ /\ ~stopped /\ SpawnTo(s, "returned")
          /\ tracked' = [tracked EXCEPT ![a] = s]
          /\ replaced' = replaced \cup ({tracked[a]} \ {None})
    /\ UNCHANGED <<factoryRuntime, stopped, shutdown, tmap, runtimeVars, termed, unsignalled>>

SpawnSignal(s) ==
    /\ SpawnAt(s, "signal")
    /\ signalTerm(s)
    /\ SpawnTo(s, "returned")
    /\ UNCHANGED <<factoryRuntime, stopped, tracked, shutdown, tmap, runtimeVars, replaced>>

\* A worker ends: by itself, or by the signal.  Its handle stays where it is.
WorkerEnds(s) ==
    /\ s \in running
    /\ running' = running \ {s}
    /\ UNCHANGED <<factoryRuntime, stopped, tracked, spawnCall, shutdown, tmap, runtimeClosed,
                   registered, termed, unsignalled, cancelled, replaced>>

-----------------------------------------------------------------------------
\* Shutdown: the first call enters stopOnce and takes the map ...
Shutdown(c) ==
    /\ shutdown[c] = "idle"
    /\ \A d \in Stoppers : shutdown[d] = "idle"
    /\ shutdown' = [shutdown EXCEPT ![c] = "signalling"]
    /\ stopped' = TRUE
    /\ tmap' = {tracked[a] : a \in FactoryAgents} \ {None}
    /\ tracked' = [a \in FactoryAgents |-> None]
    /\ UNCHANGED <<factoryRuntime, spawnCall, runtimeVars, termed, unsignalled, replaced>>

\* ... a later one waits for it to leave stopOnce and returns nil ...
ShutdownAgain(c) ==
    /\ shutdown[c] = "idle"
    /\ \E d \in Stoppers : \/ shutdown[d] = "signalling" /\ tmap = {}
                           \/ shutdown[d] \in {"cancel", "returned"}
    /\ shutdown' = [shutdown EXCEPT ![c] = "returned"]
    /\ UNCHANGED <<factoryRuntime, stopped, tracked, spawnCall, tmap, runtimeVars, termed, unsignalled, replaced>>

\* ... the workers are signalled in any order ...
ShutdownSignal(c, s) ==
    /\ shutdown[c] = "signalling" /\ s \in tmap
    /\ signalTerm(s)
    /\ tmap' = tmap \ {s}
    /\ UNCHANGED <<factoryRuntime, stopped, tracked, spawnCall, shutdown, runtimeVars, replaced>>

\* Mistake: the runtime is closed before the signals have gone out.
ShutdownCloseEarly(c) ==
    /\ shutdown[c] = "signalling"
    /\ runtimeClosed' = TRUE
    /\ shutdown' = [shutdown EXCEPT ![c] = "cancel"]
    /\ UNCHANGED <<factoryRuntime, stopped, tracked, spawnCall, tmap, registered, running,
                   termed, unsignalled, cancelled, replaced>>

\* ... and the runtime is closed: the flag first ...
ShutdownClose(c) ==
    /\ shutdown[c] = "signalling" /\ tmap = {}
    /\ runtimeClosed' = TRUE
    /\ shutdown' = [shutdown EXCEPT ![c] = "cancel"]
    /\ UNCHANGED <<factoryRuntime, stopped, tracked, spawnCall, tmap, registered, running,
                   termed, unsignalled, cancelled, replaced>>

\* ... then the workers it has by now.
ShutdownCancel(c) ==
    /\ shutdown[c] = "cancel"
    /\ cancelled' = registered
    /\ running' = running \ registered
    /\ shutdown' = [shutdown EXCEPT ![c] = "returned"]
    /\ UNCHANGED <<factoryRuntime, stopped, tracked, spawnCall, tmap, runtimeClosed, registered,
                   termed, unsignalled, replaced>>

FactoryNext ==
    \/ \E s \in SpawnCalls :
          \/ \E a \in FactoryAgents : SpawnAgent(s, a)
          \/ SpawnCheck(s) \/ SpawnStart(s) \/ SpawnRegister(s) \/ SpawnTrack(s)
          \/ SpawnSignal(s) \/ WorkerEnds(s)
          \/ \E c \in Stoppers : ShutdownSignal(c, s)
    \/ \E c \in Stoppers :
          Shutdown(c) \/ ShutdownAgain(c) \/ ShutdownClose(c) \/ ShutdownCancel(c)

FactorySpec == FactoryInit /\ [][FactoryNext]_factoryVars

-----------------------------------------------------------------------------
\* Properties.

SpawnPCs == {"idle", "spawn", "start", "register", "track", "signal", "returned"}

FactoryTypeOK ==
    /\ factoryRuntime \in {"process", "mock"}
    /\ stopped \in BOOLEAN /\ runtimeClosed \in BOOLEAN
    /\ tracked \in [FactoryAgents -> SpawnCalls \cup {None}]
    /\ spawnCall \in [SpawnCalls -> [pc : SpawnPCs, agent : FactoryAgents \cup {None}]]
    /\ shutdown \in [Stoppers -> {"idle", "signalling", "cancel", "returned"}]
    /\ tmap \cup registered \cup running \cup termed \cup unsignalled \cup cancelled \cup replaced \subseteq SpawnCalls

ShutdownOver == runtimeClosed /\ \A c \in Stoppers : shutdown[c] \in {"idle", "returned"}
SpawnOver(s) == spawnCall[s].pc \in {"idle", "returned"}

\* No orphans: once Shutdown and a SpawnAgent have returned, its worker has
\* ended or was told to end, in whichever order stopped, the map, the closed flag
\* and the registration were read and written, unless the SIGTERM could not be sent.
\* The mock has no pid to signal and keeps one that registers after its Close.
NoOrphanWorker ==
    ShutdownOver =>
        \A s \in running : SpawnOver(s) =>
            s \in termed \cup unsignalled \cup cancelled \/ factoryRuntime = "mock"

\* A process is asked before it is killed: the Close that ends Shutdown kills at
\* once, and only a worker whose handle was replaced by a later spawn of its
\* agent, or whose SpawnAgent has yet to return ErrAlreadyShutdown, is
\* killed without anybody having tried to send it a SIGTERM.
AskedBeforeKilled ==
    factoryRuntime = "process" =>
        \A s \in cancelled : s \in termed \cup unsignalled \/ s \in replaced \/ ~SpawnOver(s)

-----------------------------------------------------------------------------
\* What makes the two inductive.

\* A worker runs only after its Spawn started it, and is in the runtime's map
\* from the moment SpawnAgent looks at stopped again.
WorkerInv(s) ==
    /\ ~SpawnAt(s, "idle") => spawnCall[s].agent \in FactoryAgents
    /\ s \in registered => spawnCall[s].pc \in {"track", "signal", "returned"}
    /\ s \in running => SpawnAt(s, "register") \/ s \in registered
    /\ s \in cancelled => s \in registered

\* One Shutdown is at work; it set stopped and emptied tracked before anything
\* else, and closes the runtime when it has no worker left to signal.
StopInv ==
    /\ (\E c \in Stoppers : shutdown[c] # "idle") \/ runtimeClosed => stopped
    /\ stopped => \A a \in FactoryAgents : tracked[a] = None
    /\ runtimeClosed => /\ tmap = {}
                        /\ \E c \in Stoppers : shutdown[c] # "idle"
                        /\ \A c \in Stoppers : shutdown[c] # "signalling"
    /\ \A c \in Stoppers : shutdown[c] = "cancel" => runtimeClosed
    /\ tmap # {} => \E c \in Stoppers : shutdown[c] = "signalling"
    /\ \A c, d \in Stoppers :
          shutdown[c] \in {"signalling", "cancel"} /\ shutdown[d] \in {"signalling", "cancel"} => c = d

\* A process whose SpawnAgent returned its handle is where a Shutdown finds it,
\* was signalled as far as it could be, or was replaced; and one that still runs
\* after the Close is in a SpawnAgent that will signal it, or was signalled.
AccountedInv ==
    factoryRuntime = "process" =>
        /\ \A s \in registered : SpawnAt(s, "returned") =>
              s \in termed \cup unsignalled \cup replaced \cup tmap \cup {tracked[a] : a \in FactoryAgents}
        /\ ShutdownOver =>
              \A s \in running : s \in termed \cup unsignalled \/ spawnCall[s].pc \in {"register", "track", "signal"}
        /\ cancelled # {} => stopped

FactoryInv ==
    /\ FactoryTypeOK /\ StopInv /\ AccountedInv /\ AskedBeforeKilled
    /\ \A s \in SpawnCalls : WorkerInv(s)
=============================================================================
