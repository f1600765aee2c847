SPECIFICATION FairSpec
CONSTANTS
    Pages = {p1}
    Slots = {s1}
    SkipFailed = TRUE
    ForceOCR = TRUE
    MaxRetry = 1
    MaxBooks = 2
    MaxUploads = 1
    MaxCrashes = 1
PROPERTIES
    TasksEnd
    BookEnds
CHECK_DEADLOCK FALSE
