SPECIFICATION BookSpec
CONSTANTS
    Cents = {25, 29, 2500}
    RoundedDown = {29}
    Sizes = {1, 2}
    MaxMessages = 3
    MaxChanges = 1
CHECK_DEADLOCK FALSE
INVARIANTS
    CopyOfBook
