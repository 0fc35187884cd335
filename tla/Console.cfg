CONSTANTS
    Letters <- MCLetters
    Commands <- MCCommands
    Completing <- MCCompleting
    Entries <- MCEntries
    HistorySize = 2
    MaxLine = 4
    MaxTyped = 3
    MaxEntered = 3
    Keys = {"right", "center"}
    Readers = {"shell", "display"}
    LastTime = 1
    FirstDate <- MCFirstDate
    SetTimes = {0}
    SetDates <- MCSetDates
    MaxTicks = 2
    MaxSet = 2
SPECIFICATION Spec
INVARIANTS
    ConsoleTypeOK
    
    HistoryKeepsRecent
    SignalsTakeEffect
    ReadsOneInstant
PROPERTIES
    CompletesToCommonPrefix
    HeldKeyReported
    ClockGoesOn
CHECK_DEADLOCK FALSE
