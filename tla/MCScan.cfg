SPECIFICATION FairSpec
CONSTANTS
    Files <- MCFiles
    Archives <- MCArchives
    Workers = 2
    DrainChunk = 2
    MaxRestarts = 2
INVARIANTS
    OnlyConfirmed
    ExtractedIsThere
    CompleteExtraction
