SPECIFICATION Spec
CONSTANTS
    h = h
    v = v
    w = w
    head = head
    prio = prio
    main = main
    NoStack = NoStack
    Requests <- AllRequests
    HeadRequests <- Heads
    Hashes <- AllHashes
    Wants <- NodeWants
INVARIANTS
    OneStackPerHash
    StacksAreMinded
PROPERTIES
    RequestsAnswered
    StopEnds
CHECK_DEADLOCK FALSE
