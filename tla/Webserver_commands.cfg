SPECIFICATION Spec
CONSTANTS
    up1 = up1
    up2 = up2
    down = down
    None = None
    Starts <- TwoStarts
    Stops <- OneStop
    Unstable <- FirstOne
INVARIANTS
    NoYagnaLeft
    PidNamesServer
PROPERTIES
    CompletedMeansGone
    YagnaKept
    CommandsEnd
    ShutdownEnds
CHECK_DEADLOCK FALSE
