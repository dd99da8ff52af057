SPECIFICATION Spec
CHECK_DEADLOCK FALSE
CONSTANTS
    Formats = {"xz", "gz", "none"}
    Members <- MCMembers
    Snapshot <- MCSnapshot
    Capacity = 3
    MaxLaunches = 3
    Faults = TRUE
    MaxDamage = 2
    NULL = NULL
INVARIANTS
    OthersStand
