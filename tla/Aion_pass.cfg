SPECIFICATION FairSpec
CONSTANTS
    Handles = {h1}
    Waits = {w1, w2}
    Cancels = {c1, c2}
    MaxFrames = 2
INVARIANTS OneResult UndisturbedResultIsLast SurvivorsSpawnedLate
PROPERTIES EndedWorkerAnswers CloseReleasesWaits
CHECK_DEADLOCK FALSE
