SPECIFICATION FairSpec
CONSTANTS
    iNumWorkerThreads = 2
    MsgsPerWrkr = 1
    DeqBatch = 2
    KeepWorkers = FALSE
    IsChild = FALSE
    MaxWork = 3
    MaxCreateFail = 0
PROPERTY WorkIsTaken
PROPERTY AdviserReturns
PROPERTY ShutdownTerminates
CHECK_DEADLOCK FALSE
