SPECIFICATION Spec
CONSTANTS
    Executions = {x1}
    Requests = {r1, r2}
    PatchMessages = {FALSE}
INVARIANTS TypeOK CompletedWasInReview TerminalHasCompletedAt NoUnsupervisedWorker OrderlyShutdown
PROPERTY OnlyStaleWritesBreakTable
SYMMETRY Symmetry
CHECK_DEADLOCK FALSE
