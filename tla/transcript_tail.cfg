SPECIFICATION Spec
CONSTANTS
    MaxTurns = 2
    MaxVersion = 2
    MaxFaults = 1
    MaxCrashes = 1
    MaxRevision = 4
    LateDeltas = TRUE
    None = None
INVARIANTS
    TypeOK
    NothingIsDropped
PROPERTIES
    SealedInTurn
    OrderlyEndedIsSealed
CHECK_DEADLOCK FALSE
