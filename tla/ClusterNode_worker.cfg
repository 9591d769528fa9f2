SPECIFICATION Spec
CONSTANTS
    MaxActivities = 3
    MaxFails = 3
    HasPriority = TRUE
    IsHead = FALSE
    SwallowCancel = FALSE
INVARIANTS
    AtMostOneActivity
PROPERTIES
    DeadActivityStopsNode
    ImplementsLifecycle
CHECK_DEADLOCK FALSE
