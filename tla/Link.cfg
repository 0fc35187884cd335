CONSTANTS
    Links = {0, 1}
    Impatience = {FALSE, TRUE}
    MaxCalls <- MCMaxCalls
    Torn = TRUE
    Sends = TRUE
SPECIFICATION FairSpec
INVARIANTS
    ToldTrue
    SocketFollowsModem
PROPERTIES
    LockComesFree
    OpenReturns
CHECK_DEADLOCK FALSE
