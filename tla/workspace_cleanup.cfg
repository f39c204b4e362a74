SPECIFICATION FairSpec
CONSTANTS
    Deleters = {d1}
    Clearers = {c1}
    Resumer = resumer
    Sessions = {s1}
    None = None
    LateSessions = FALSE
    Recreate = TRUE
    MaxFaults = 1
PROPERTIES
    CleanupCompletes
    ClearCompletes
