CONSTANTS
    r1 = r1
    r2 = r2
    Readers <- MCReaders
    N = 3
    Lengths <- MCLengths
    Timeouts <- MCTimeouts
    Forever = Forever
    NoReader = NoReader
    MaxBytes = 6
    Writers = {"shell", "wifi"}
    Sizes = {1, 2}
    MaxWrites = 1
    MaxReceived = 1
SPECIFICATION PortSpec
INVARIANTS
    Inv
    EmptyMeansDrainedOrFull
    OnePhantomPerLap
    LineCarriesWrites
    NoWriteHangs
PROPERTIES
    ImplementsStream
    WaitingReaderServed
    FiniteReadReturns
CHECK_DEADLOCK FALSE
