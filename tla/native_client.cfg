SPECIFICATION FairSpec
CONSTANTS
    MaxRequests = 3
    MaxWire = 2
INVARIANTS
    TypeOK
    NobodyWaits
PROPERTIES
    ImplementsLedger
    KeepsPromises
    DisposeEnds
CHECK_DEADLOCK FALSE
