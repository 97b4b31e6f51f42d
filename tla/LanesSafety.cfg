SPECIFICATION Spec
CONSTANTS
    BaseGoal = 3
    MaxQueue = 1
    MaxMailbox = 2
    UsedChannels = {"image", "videoBackground"}
    MaxControls = 1
    CanShutdown = TRUE
INVARIANTS
    Accounting
    PriorityJustified
    NoLostWakeup
    NobodyWaitsForNobody
CHECK_DEADLOCK FALSE
