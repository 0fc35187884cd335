CONSTANTS
    Chunk = 2
    Word = 64
    MaxBytes = 4
    Weather = {TRUE}
SPECIFICATION Spec
PROPERTY ChunkConsumedFirst
CHECK_DEADLOCK TRUE
