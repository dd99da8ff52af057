SPECIFICATION FairSpec
CONSTANTS
    Files <- MCFiles
    EmptyFiles <- MCEmptyFiles
    NULL = NULL
    Settings <- MCSettings
    Adverse = {"force"}
    MaxRestarts = 3
INVARIANTS
    RowsMatchArchive
    OnePayload
PROPERTIES
    KeepsPromise
    Settles
