CONSTANTS
    Writers = {"shell"}
    Sizes = {1, 2}
    MaxWrites = 1
    MaxReceived = 1
SPECIFICATION SendSpec
INVARIANT WriteSaysAll
