SPECIFICATION Spec
CONSTANTS
    ExecutionIDs = {e1}
    BufferSize = 1
    MaxAttempts = 1
    NumWorkers = 2
    MaxStarts = 1
    Stoppers = {s1}
INVARIANT ClosedMeansDrained
CHECK_DEADLOCK FALSE
