SPECIFICATION FairSpec
CONSTANTS
    ExecutionIDs = {e1, e2}
    BufferSize = 1
    MaxAttempts = 2
    NumWorkers = 1
    MaxStarts = 2
    Stoppers = {s1}
INVARIANTS NoSpecLost NoSpecDuplicated StatsBalance
PROPERTIES ImplementsWorkQueue EverySpecSettlesOrJams CancelDrainsWorkers
CHECK_DEADLOCK FALSE
