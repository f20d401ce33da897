SPECIFICATION RecordsSpec
CONSTANTS
    None = None
    Unknown = Unknown  Keep = Keep
    AgentIds = {a1}
    AgentClients = {c1, c2}
    AgentProjects = {p1, p2}
    AgentNames = {n1}
    AgentDetails = {d1}
    Catalog = {k1, k2}
    AgentPutStatuses = {"idle", "spawning"}
    MaxAgentVersion = 2
    TaskIds = {t1}
    Assignees = {d1, d2}
    AssignClients = {c1, c2}
    Skills = {s1}
    PatchStatuses = {"blocked", "done"}
    MaxAssignments = 3
    DeliverableIds = {a1}
    Contents = {d1, d2}
    Writers = {c1, c2, c3}
    MaxVersion = 4
    Browsers = {p1}
    RefreshCalls = {c1, c2}
    Users = {n1}
    RefreshTTL = 2
    MaxSecond = 2
    MaxSessionCrashes = 1
    Instances = {c1, c2}
    LastFile = 3
    SelfCommitting = {2}
    MaxStarts = 3
    FactoryAgents = {d1, d2}
    SpawnCalls = {c1, c2, c3}
    Stoppers = {c1, c2}
    ClientIPs = {c1, c2}
    Minute = 2
    RequestsPerMinute = 1
    Burst = 1
    SweepEvery = 2
    IdleLimit = 4
    MaxClock = 7
    ListRows = {1, 2, 3}
    ListLimits = {0, 2, 9}
    DefaultLimit = 1
    MaxLimit = 2
    ProjectIds = {p1}
    ProjectClients = {c1, c2}
    ProjectNames = {d1, d2}
    AskedStatuses = {"initializing", "sleeping"}
    InitialTasks = 2
    MaxProjectTasks = 4
SYMMETRY RecordsSymmetry
INVARIANTS RecordsTypeOK CachedIsGranted IndexIsExact SomebodyStaysAssigned EveryRowHasItsEvent
    PointerFollowsActive HistoryIsComplete TokenSpentOnce UndisturbedCookieWorks SchemaIsAtAVersion
    NoOrphanWorker AskedBeforeKilled RateIsExact WalkSkipsNothing WalkRepeatsNothing
PROPERTIES NoUnseenOverwrite RetirementIsFinal OnlyStaleCopiesRevert
CHECK_DEADLOCK FALSE
