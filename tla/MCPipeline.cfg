SPECIFICATION FairSpec
CHECK_DEADLOCK FALSE
CONSTANTS
    Names <- MCNames
    NULL = NULL
    Worlds <- MCWorlds
    BatchSize = 2
    MaxLaunches = 3
INVARIANTS
    Complete
    StageSound
    InodesSound
PROPERTIES
    Settles
