SPECIFICATION TurnSpec
CONSTANTS
    Prompts = {p1, p2}
    None = None
    StaleEdits = FALSE
    MaxFlight = 2
    MaxLag = 0
    Reprepare = TRUE
    LateStatus = TRUE
    SendsFail = TRUE
    CancelsFail = TRUE
    MaxCommands = 2
    MaxEvents = 1
    MaxMisled = 1
INVARIANTS
    TurnIsActive
    EngineNeverRefuses
SYMMETRY PromptSymmetry
