CONSTANTS
    Handles = 2
    MaxCommands = 4
    MaxBoots = 2
    Clients = {"filesystem", "shell"}
    Mounters = {"filesystem"}
    Sectors = 2
    PerSector = 2
    Worn = {1, 2}
    MaxFlashCalls = 3
    FatHandles = 3
    FsLock = 2
    Debug = FALSE
    Papers = {"a"}
    MaxOrders = 4
    CardUsers = {"fat", "usb"}
    MaxTransfers = 5
SPECIFICATION Spec
INVARIANTS
    StorageTypeOK
    WildOnlyInRace
    FlagsTellTruth
    NeverLeftAnnounced
    ReportsTrue
    DoneMeansMoved
PROPERTIES
    CallsComeBack
CHECK_DEADLOCK FALSE
