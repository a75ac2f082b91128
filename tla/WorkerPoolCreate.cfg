SPECIFICATION FairSpec
CONSTANTS
    iNumWorkerThreads = 1
    MsgsPerWrkr = 1
    DeqBatch = 1
    KeepWorkers = FALSE
    IsChild = FALSE
    MaxWork = 1
    MaxCreateFail = 1
PROPERTY AdviserReturns
CHECK_DEADLOCK FALSE
