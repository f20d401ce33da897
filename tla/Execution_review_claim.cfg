SPECIFICATION Spec
CONSTANTS
    Executions = {x1}
    Requests = {r1}
    PatchMessages = {FALSE}
INVARIANT CompletedWorkerReachesReview
CHECK_DEADLOCK FALSE
