SPECIFICATION Spec
CONSTANTS
    N = 2
    MaxAttempts = 3
    MaxBooks = 2
    MaxCrashes = 1
    Workers = 2
    SkipFailed = TRUE
    ForceModes = {TRUE, FALSE}
    Layouts = {TRUE, FALSE}
    Stragglers = FALSE
INVARIANTS
    TypeOK
    RenamedMeansWhole
    PageNumbersRight
    DoneMeansSourceStored
    NothingLeftBehind
CHECK_DEADLOCK FALSE
