SPECIFICATION FairSpec
CONSTANTS
    AiCapacity = 1
    BackgroundCapacity = 2
    DrainLimit = 1
    MaxRequests = 1
    MaxEvents = 4
PROPERTY NoEventIsLost
CHECK_DEADLOCK FALSE
