SPECIFICATION Spec
CONSTANTS
    MaxTokens = 7
    MaxPage = 3
    MaxSize = 5
INVARIANTS
    TypeOK
    Covers
    OverlapsAsConfigured
    PagesInOrder
    ClosedForm
CHECK_DEADLOCK FALSE
