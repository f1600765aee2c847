SPECIFICATION Spec
CONSTANTS
    LastPage = 3
    Size = 3
    Overlap = 1
    ForceOCR = FALSE
    MaxVersion = 1
    MaxRuns = 2
INVARIANTS
    IndexMatchesText
CHECK_DEADLOCK FALSE
