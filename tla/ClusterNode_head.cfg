SPECIFICATION Spec
CONSTANTS
    MaxActivities = 3
    MaxFails = 3
    HasPriority = TRUE
    IsHead = TRUE
    SwallowCancel = TRUE
INVARIANTS
    RunningOwnsActivity
    MonitorsSeeActivity
    NothingOutlivesNode
PROPERTIES
    GivesActivityBack
CHECK_DEADLOCK FALSE
