SPECIFICATION Spec
CONSTANTS
    N = 2
    MaxAttempts = 3
    MaxBooks = 2
    MaxCrashes = 1
    Layouts = {TRUE}
    Workers = 2
    SkipFailed = FALSE
    ForceModes = {FALSE}
    Stragglers = TRUE
INVARIANTS
    PageNumbersRight
CHECK_DEADLOCK FALSE
