SPECIFICATION Spec
CONSTANTS
    Executions = {x1}
    Requests = {r1, r2}
    PatchMessages = {FALSE}
PROPERTY TerminalIsFinal
CHECK_DEADLOCK FALSE
