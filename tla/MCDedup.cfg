SPECIFICATION FairSpec
CONSTANTS
    Files <- MCFiles
    k1 = k1
    k2 = k2
    z1 = z1
    z2 = z2
    a = a
    b = b
    c = c
    i1 = i1
    Keys = {k1, k2, z1, z2}
    ZeroSizeKeys = {z1, z2}
    NoKey = NoKey
    NULL = NULL
    Contents = {a, b, c}
    Inodes = {i1}
    NoInode = NoInode
    Corpora <- MCCorpora
    FeedChunk = 2
    DrainChunk = 2
    MaxRestarts = 1
INVARIANTS
    OutstandingIsCurrent
    ExactlyOnce
    LinksResolve
    OneActivePerRound
    DuplicatesFound
PROPERTIES
    DecisionsStand
    Settles
