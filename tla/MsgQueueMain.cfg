SPECIFICATION Spec
CONSTANTS
    p1 = p1
    p2 = p2
    Producers = {p1, p2}
    NoThread = NoThread
    NumWorkers = 2
    MaxMsgs = 3
    MaxMulti = 2
    MaxFail = 0
    LowSev = {3}
    IsMainQueue = TRUE
    iMaxQueueSize = 2
    iDeqBatchSize = 2
    iMinDeqBatchSize = 2
    iMinMsgsPerWrkr = 1
    iFullDlyMrk = 1
    iLightDlyMrk = 1
    iDiscardMrk = 2
    iSmpInterval = 2
    toEnq = 1
SYMMETRY ProducerSymmetry
INVARIANT CountersMatchStore
INVARIANT NoMessageVanishes
INVARIANT NoSecondCopy
INVARIANT NoWorkerStranded
PROPERTY ImplementsBoundedQueue
