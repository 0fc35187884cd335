CONSTANTS
    Chunk = 2
    Word = 64
    MaxBytes = 4
    Weather = {FALSE, TRUE}
SPECIFICATION FairSpec
INVARIANTS
    DeliversTheChunks
    CountersNeverWrap
PROPERTIES
    TaskComesRound
    EveryByteDelivered
CHECK_DEADLOCK TRUE
