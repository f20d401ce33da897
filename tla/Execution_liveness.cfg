SPECIFICATION FairSpec
CONSTANTS
    Executions = {x1}
    Requests = {r1}
    PatchMessages = {FALSE}
PROPERTIES ShutdownCompletes DriversEnd
CHECK_DEADLOCK FALSE
