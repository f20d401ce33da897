SPECIFICATION Spec
CONSTANTS
    Handles = {h1}
    Waits = {w1}
    Cancels = {c1}
    MaxFrames = 2
INVARIANT ReaperIsOnlyCleanup
CHECK_DEADLOCK FALSE
