SPECIFICATION Spec
CONSTANTS
    head = head
    small = small
    large = large
    r1 = r1
    r2 = r2
    r3 = r3
    None = None
    NodeTypes <- AllTypes
    HeadType = head
    Files <- SomeFiles
    Requests <- ThreeRequests
INVARIANTS
    TypeOK
    TypesAreIndependent
    NodesGetTheirDemand
    OneStackPerConfig
    BadImageMakesNoStack
CHECK_DEADLOCK FALSE
