SPECIFICATION Spec
CONSTANTS
    Executions = {x1}
    Requests = {r1}
    PatchMessages = {FALSE}
INVARIANT WorkerOutlivesRequest
CHECK_DEADLOCK FALSE
