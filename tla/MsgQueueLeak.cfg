SPECIFICATION Spec
CONSTANTS
    p1 = p1
    p2 = p2
    Producers = {p1, p2}
    NoThread = NoThread
    NumWorkers = 2
    MaxMsgs = 2
    MaxMulti = 1
    MaxFail = 1
    LowSev = {2}
    IsMainQueue = FALSE
    iMaxQueueSize = 2
    iDeqBatchSize = 2
    iMinDeqBatchSize = 0
    iMinMsgsPerWrkr = 1
    iFullDlyMrk = 9
    iLightDlyMrk = 9
    iDiscardMrk = 2
    iSmpInterval = 0
    toEnq = 1
SYMMETRY ProducerSymmetry
INVARIANT EmptyWhenDrained
