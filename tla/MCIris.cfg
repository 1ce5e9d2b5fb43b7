SPECIFICATION IrisSpec
CONSTANTS
    T = {a, b}
    cap = 2
    MaxOffers = 6
    Capacities = {1, 3, 5}
    Sizes = {1, 3, 4}
    Word = 16
    Users = {1, 2}
    Closers = {1}
    MaxLogs <- ThreeAndOne
    MaxQueues = 2
    QueueSize = 1
    RbufSize = 2
    PipeSize = 1
CHECK_DEADLOCK FALSE
INVARIANTS
    NoCellRace
    NoOverlap
    AllWritten
    WrittenInOrder
    NoDangling
PROPERTIES
    ImplementsQueue
    Progress
