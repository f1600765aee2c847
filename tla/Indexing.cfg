SPECIFICATION Spec
CONSTANTS
    LastPage = 4
    Size = 2
    Overlap = 1
    ForceOCR = TRUE
    MaxVersion = 2
    MaxRuns = 3
INVARIANTS
    TypeOK
    DoneMeansSearchable
    EmbeddingOfItsChunk
    RetryOnlyMissing
PROPERTIES
    ImplementsStage
CHECK_DEADLOCK FALSE
