SPECIFICATION Spec
CONSTANTS
    h = h
    w = w
    h2 = h2
    None = None
    Requests <- ThreeRequests
    HeadRequests <- TwoHeads
    Count <- Counts
    MaxNodes = 4
INVARIANTS
    IdsAreDistinct
PROPERTIES
    ReadyMeansAllRun
    CreateReturns
CHECK_DEADLOCK FALSE
