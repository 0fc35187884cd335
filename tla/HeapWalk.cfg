CONSTANTS
    Words = 16
    Requests <- MCRequests
    Alignments <- MCAlignments
    Interfaces = {TRUE}
SPECIFICATION Spec
INVARIANT WalkFindsFreeBlock
CHECK_DEADLOCK FALSE
