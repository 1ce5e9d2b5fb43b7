SPECIFICATION TickerFairSpec
CONSTANTS
    NMAXCORES = 2
    MaxTick = 4
    MaxDepth = 2
    VolatileRelease = TRUE
INVARIANTS
    GuardTickForward
    GuardAfterGrace
PROPERTIES
    EpochsComplete
    ImplementsClock
