SPECIFICATION FairSpec
CONSTANTS
    N = 4
    Workers = {w1}
    BatchSize = 1
    MaxAttempts = 1
    SkipFailed = TRUE
    ForceOCR = TRUE
PROPERTIES
    CallReturns
    NoGoroutineLeak
CHECK_DEADLOCK FALSE
