SPECIFICATION InventorySpec
CHECK_DEADLOCK FALSE
CONSTANTS
    Worlds <- MCWorlds
    Undecodable = {"N"}
    Stray = "?"
    MaxAttempts = 2
    MaxDepth = 8
    Nothing = Nothing
INVARIANTS
    Exhaustive
    SeparateTrees
    BelowLinkHasCause
