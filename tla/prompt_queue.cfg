SPECIFICATION Spec
CONSTANTS
    Prompts = {p1, p2}
    None = None
    StaleEdits = FALSE
    MaxFlight = 2
    MaxLag = 1
INVARIANTS
    TypeOK
    TerminalIsInert
    NoPromptTwice
    SendingHasDispatch
PROPERTIES
    PromptsAreKept
    RestoredWorkWaits
    StopHolds
SYMMETRY PromptSymmetry
