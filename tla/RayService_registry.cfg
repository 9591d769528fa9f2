SPECIFICATION Spec
CONSTANTS
    h = h
    h2 = h2
    w = w
    None = None
    Requests <- All
    HeadRequests <- TwoHeads
    Hasty <- OneWorker
INVARIANTS
    TypeOK
    RemovalFindsItStopped
    NoOrphanInOrder
    RemovalIsCancellable
PROPERTIES
    CallsReturn
    EmptyClusterRemoved
CHECK_DEADLOCK FALSE
