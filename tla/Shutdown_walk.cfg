SPECIFICATION Spec
CONSTANTS
    a = a
    b = b
    c = c
    None = None
    Names <- ThreeNames
    Faulty <- OneName
    MaxShutdowns = 2
INVARIANTS
    NoNodeAfterAnswer
    NodesStopFirst
PROPERTIES
    ShutdownEnds
CHECK_DEADLOCK FALSE
