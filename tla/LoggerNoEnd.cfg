SPECIFICATION LoggerSpec
CONSTANTS
    NMAXCORES = 2
    MaxTick = 3
    Loggers = {0}
    logger <- OneLogger
    g_perthread_buffers = 2
    BufferTxns = 1
    g_max_lag_epochs = 1
    IovMax = 1
    MaxTxns <- TwoAndOne
    EndingCores <- NoCores
INVARIANTS
    SyncForward
