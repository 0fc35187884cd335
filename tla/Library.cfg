CONSTANTS
    Words = 26
    Requests <- MCRequests
    Alignments <- MCAlignments
    Interfaces = {FALSE, TRUE}
    Urls <- MCUrls
    Responses <- MCResponses
    Asked <- MCAsked
    MaxRequests = 2
    Reading <- MCReading
    RingSize = 5
    Lines <- MCLines
    MaxLines = 2
SPECIFICATION LibrarySpec
INVARIANTS
    LibraryTypeOK
    BlocksTile
    FreeListExact
    CoalescedUntilDrained
    HttpReadAsSent
    LinesReadAsSaid
PROPERTIES
    ImplementsArena
    CommandEnds
CHECK_DEADLOCK FALSE
