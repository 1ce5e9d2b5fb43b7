SPECIFICATION ShmSpec
CONSTANTS
    Readers = {"r1", "r2"}
    async_queue_size = 2
    IndexMod = 5
    MaxBehind = 2
    MaxTasks = 1
    MaxRcCalls = 1
    Scenarios <- AllScenarios
    Prompt = TRUE
CHECK_DEADLOCK FALSE
INVARIANTS
    EntriesKept
    SlotExclusive
PROPERTIES
    Recovers
    
