CONSTANTS
    FatHandles = 3
    FsLock = 2
    Debug = TRUE
    Papers = {"a"}
    MaxOrders = 2
SPECIFICATION FatSpec
INVARIANT JournalGoesOn
CHECK_DEADLOCK FALSE
