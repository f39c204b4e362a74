SPECIFICATION Spec
CONSTANTS
    Deleters = {d1, d2}
    Clearers = {}
    Resumer = resumer
    Sessions = {s1}
    None = None
    LateSessions = FALSE
    Recreate = FALSE
    MaxFaults = 2
INVARIANTS
    TypeOK
    CleanupIsJournaled
    CompletedMeansPurged
PROPERTIES
    CheckoutGoesFirst
SYMMETRY Symmetry
