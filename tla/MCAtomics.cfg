SPECIFICATION AtomicsSpec
CONSTANTS
    Algorithms = {"c11", "lock_free"}
    NULL = NULL
    t_size = 2
    Scenarios <- AllScenarios
    Edges = {"root", "child"}
    Works <- AllWorks
    NodeOffs = {"n1", "n2"}
    DataOffs = {"d1", "d2"}
    MAX_OFFSET_CACHE = 2
    CounterMod = 4
    MaxAhead = 3
CHECK_DEADLOCK FALSE
INVARIANTS
    Exclusive
    BarrierHolds
    AcquiredSees
    EdgeWhole
    RecoveredWhole
PROPERTIES
    OperationsEnd
