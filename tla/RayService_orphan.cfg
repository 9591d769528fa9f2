SPECIFICATION Spec
CONSTANTS
    h = h
    h2 = h2
    w = w
    None = None
    Requests <- All
    HeadRequests <- TwoHeads
    Hasty <- OneWorker
INVARIANTS
    NoOrphanNode
CHECK_DEADLOCK FALSE
