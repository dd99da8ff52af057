SPECIFICATION FairLoop
CHECK_DEADLOCK FALSE
CONSTANTS
    Tasks = {a, b, c}
    Workers = {v, w}
    None = None
    WorkCapacity = 1
    OutCapacity = 2
    FeedChunk = 2
    DrainChunk = 2
    ApplyOnPartial = FALSE
    MaxPanics = 1
    StatementsFail = TRUE
INVARIANTS
    NothingLost
    AnswersCommitted
PROPERTIES
    KeepsPromise
    StopReturns
