SPECIFICATION Spec
CHECK_DEADLOCK FALSE
CONSTANTS
    ann = ann
    bob = bob
    zed = zed
    i1 = i1
    i2 = i2
    i3 = i3
    plus = plus
    minus = minus
    strip = strip
    first = first
    second = second
    NULL = NULL
    Bad = Bad
    Names = {ann, bob, zed}
    Ids = {i1, i2, i3}
    Changes = {plus, minus}
    Exprs = {strip}
    Patterns = {first, second}
    Cpus = 2
    Memory <- MCMemory
    ArchiveLines <- MCArchiveLines
    ExtractLines <- MCExtractLines
    ResumeLines <- MCResumeLines
    Root = FALSE
    Host <- MCHost
    Member <- MCMember
    MaxLaunches = 4
    MaxCrashes = 1
INVARIANTS
    StrayHasCause
    NothingUnasked
    CliMapsEmit
