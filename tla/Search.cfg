SPECIFICATION FairSpec
CONSTANTS
    Callers = {"r1", "r2"}
    NoOne = NoOne
    Texts <- MCTexts
    WordsOf <- MCWordsOf
    Interval <- MCInterval
    Margin = 0
    TokenLife = 1
    UserOf <- MCUserOf
    KeyOf <- MCKeyOf
    MaxEntries = 1
    Chunks <- MCChunks
    BookOf <- MCBookOf
    OwnerOf <- MCOwnerOf
    ChunkText <- MCChunkText
    Length <- MCLength
    Distance <- MCDistance
    TopK = 3
    TopBooks = 2
    MaxPerBook = 2
    MaxChars = 1500
INVARIANTS
    TypeOK
    AnswersItsOwnQuestion
    WithinBudget
    BestExcerpts
    MutexesComeFree
PROPERTIES
    SearchEnds
    GivesUpOnlyShort
    RequestsSpaced
    NoNeedlessToken
CHECK_DEADLOCK FALSE
