SPECIFICATION ParamsSpec
CONSTANTS
    Sizes <- MCPlainSizes
    Marks <- MCNotSet
    Threads <- MCOneThread
    Batches <- MCBatches
INVARIANT FullDelayNeverStartsDisk
CHECK_DEADLOCK FALSE
