SPECIFICATION Spec
CONSTANTS
    h = h
    v = v
    w = w
    head = head
    prio = prio
    main = main
    NoStack = NoStack
    Requests <- AllRequests
    HeadRequests <- Heads
    Hashes <- AllHashes
    Wants <- NodeWants
INVARIANTS
    NodesCanStart
CHECK_DEADLOCK FALSE
