CONSTANTS
    FatHandles = 3
    FsLock = 2
    Debug = FALSE
    Papers = {"a"}
    MaxOrders = 4
SPECIFICATION FatSpec
INVARIANT HandleForJournal
CHECK_DEADLOCK FALSE
