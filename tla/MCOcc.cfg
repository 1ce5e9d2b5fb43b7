SPECIFICATION OccSpec
CONSTANTS
    NMAXCORES = 3
    MaxTick = 5
    NumIds = 8
    ReadOnlyEpochMultiplier = 2
    LongValues = {5}
    Keys = {"x", "y", "z"}
    MaxTuples = 7
    Scenarios <- MCScenarios
    VersionFirst = FALSE
INVARIANTS  LocksOwned NoFreedUse SnapshotSettled
PROPERTIES VersionForward TxnsEnd
CHECK_DEADLOCK FALSE
