SPECIFICATION FairTurnSpec
CONSTANTS
    Prompts = {p1, p2}
    None = None
    StaleEdits = FALSE
    MaxFlight = 2
    MaxLag = 0
    Reprepare = FALSE
    LateStatus = FALSE
    SendsFail = FALSE
    CancelsFail = TRUE
    MaxCommands = 2
    MaxEvents = 1
    MaxMisled = 1
INVARIANTS
    NoStall
PROPERTIES
    ActiveSettles
    SteerResumes
