SPECIFICATION Spec
CONSTANTS
    N = 2
    MaxAttempts = 3
    MaxBooks = 2
    MaxCrashes = 1
    Layouts = {FALSE}
    Workers = 2
    SkipFailed = FALSE
    ForceModes = {FALSE}
    Stragglers = FALSE
INVARIANTS
    PersistedMeansWhole
CHECK_DEADLOCK FALSE
