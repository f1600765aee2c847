SPECIFICATION Spec
CONSTANTS
    Pages = {p1, p2}
    Slots = {s1, s2}
    SkipFailed = TRUE
    ForceOCR = FALSE
    MaxRetry = 1
    MaxBooks = 2
    MaxUploads = 2
    MaxCrashes = 1
SYMMETRY SlotSymmetry
INVARIANTS
    QuietIndexIsCurrent
CHECK_DEADLOCK FALSE
