SPECIFICATION FairSpec
CONSTANTS
    p1 = p1
    p2 = p2
    Producers = {p1, p2}
    NoThread = NoThread
    NumWorkers = 2
    MaxMsgs = 2
    MaxMulti = 2
    MaxFail = 0
    LowSev = {}
    IsMainQueue = TRUE
    iMaxQueueSize = 3
    iDeqBatchSize = 2
    iMinDeqBatchSize = 0
    iMinMsgsPerWrkr = 2
    iFullDlyMrk = 1
    iLightDlyMrk = 1
    iDiscardMrk = 0
    iSmpInterval = 0
    toEnq = 1
PROPERTY ProducersReturn
