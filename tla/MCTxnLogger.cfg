SPECIFICATION LoggerFairSpec
CONSTANTS
    NMAXCORES = 1
    MaxTick = 3
    Loggers = {0}
    logger <- OneLogger
    g_perthread_buffers = 2
    BufferTxns = 1
    g_max_lag_epochs = 8
    IovMax = 2
    MaxTxns <- TwoEach
    EndingCores <- Cores
INVARIANTS
    CommitAfterSync
    PrefixDurable

    
