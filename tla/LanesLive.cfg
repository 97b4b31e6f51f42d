SPECIFICATION FairSpec
CONSTANTS
    BaseGoal = 2
    MaxQueue = 1
    MaxMailbox = 1
    UsedChannels = {"video"}
    MaxControls = 0
    CanShutdown = TRUE
PROPERTIES
    LanesServed
CHECK_DEADLOCK FALSE
