SPECIFICATION RcuSpec
CONSTANTS
    NMAXCORES = 2
    MaxTick = 5
    MaxDepth = 1
    VolatileRelease = TRUE
    Objects = {o1, o2}
    EpochTimeMultiplier = 2
    nullptr = nullptr
SYMMETRY Blocks
INVARIANTS
    NoUseAfterFree
    NoDoubleFree
    QueueInOrder
