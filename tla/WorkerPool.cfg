SPECIFICATION Spec
CONSTANTS
    iNumWorkerThreads = 3
    MsgsPerWrkr = 1
    DeqBatch = 2
    KeepWorkers = FALSE
    IsChild = FALSE
    MaxWork = 5
    MaxCreateFail = 1
INVARIANT TypeOK
INVARIANT CountMatchesThreads
INVARIANT FreeSlotHasNoThread
INVARIANT StarterFindsSlot
INVARIANT DestructSafe
INVARIANT SomeoneLooks
CHECK_DEADLOCK FALSE
