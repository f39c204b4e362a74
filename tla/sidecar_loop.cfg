SPECIFICATION FairSpec
CONSTANTS
    AiCapacity = 1
    BackgroundCapacity = 2
    DrainLimit = 1
    MaxRequests = 2
    MaxEvents = 3
INVARIANTS
    TypeOK
PROPERTIES
    HeardInOrder
    CommandsServed
CHECK_DEADLOCK FALSE
