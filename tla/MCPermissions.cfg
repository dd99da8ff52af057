SPECIFICATION FairSpec
CHECK_DEADLOCK FALSE
CONSTANTS
    Rows <- MCRows
    Members <- MCMembers
    d = d
    e = e
    f = f
    g = g
    NULL = NULL
    Cases <- MCCases
    BatchSize = 2
    FlushLimit = 3
    MaxLaunches = 3
INVARIANTS
    MetadataStands
    ErrorsHaveCause
    RecordsTell
