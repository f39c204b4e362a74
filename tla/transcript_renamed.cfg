SPECIFICATION Spec
CONSTANTS
    MaxTurns = 2
    MaxVersion = 1
    MaxFaults = 0
    MaxCrashes = 0
    MaxRevision = 4
    LateDeltas = FALSE
    None = None
PROPERTIES
    EndedIsSealed
CHECK_DEADLOCK FALSE
