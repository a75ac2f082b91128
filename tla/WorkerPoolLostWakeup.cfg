SPECIFICATION Spec
CONSTANTS
    iNumWorkerThreads = 1
    MsgsPerWrkr = 1
    DeqBatch = 1
    KeepWorkers = FALSE
    IsChild = TRUE
    MaxWork = 2
    MaxCreateFail = 0
INVARIANT SomeoneLooks
