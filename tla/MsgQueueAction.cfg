SPECIFICATION Spec
CONSTANTS
    p1 = p1
    p2 = p2
    Producers = {p1, p2}
    NoThread = NoThread
    NumWorkers = 2
    MaxMsgs = 4
    MaxMulti = 1
    MaxFail = 1
    LowSev = {}
    IsMainQueue = FALSE
    iMaxQueueSize = 2
    iDeqBatchSize = 2
    iMinDeqBatchSize = 0
    iMinMsgsPerWrkr = 1
    iFullDlyMrk = 9
    iLightDlyMrk = 9
    iDiscardMrk = 0
    iSmpInterval = 0
    toEnq = 1
SYMMETRY ProducerSymmetry
INVARIANT TypeOK
INVARIANT CountersMatchStore
INVARIANT CapacityRespected
INVARIANT NoMessageVanishes
INVARIANT NoSecondCopy
INVARIANT EmptyWhenDrained
PROPERTY ImplementsBoundedQueue
CHECK_DEADLOCK FALSE
