SPECIFICATION Spec
CONSTANTS
    N = 3
    Workers = {w1, w2}
    BatchSize = 2
    MaxAttempts = 2
    SkipFailed = FALSE
    ForceOCR = FALSE
SYMMETRY WorkerSymmetry
INVARIANTS
    TypeOK
    NoPageLost
    NoPageTwice
    SuccessIsComplete
    NoSendAfterClose
    CancelHasCause
    NobodyStuck
PROPERTIES
    ImplementsPass
CHECK_DEADLOCK FALSE
