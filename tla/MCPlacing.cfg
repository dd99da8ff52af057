SPECIFICATION FairSpec
CONSTANTS
    R = R
    H = H
    U = U
    d = d
    dx = dx
    dy = dy
    e = e
    i1 = i1
    i2 = i2
    Files <- MCFiles
    Sources = {1, 2}
    Inodes = {i1, i2}
    NoInode = NoInode
    Paths <- MCPaths
    Root = R
    Here = H
    Up = U
    Parent <- MCParent
    NoPath = NoPath
    Unset = Unset
    Catalogues <- MCCatalogues
    Batch = 2
    Workers = 2
    WorkCapacity = 1
    DrainChunk = 2
    MaxRestarts = 1
INVARIANTS
    TreeSound
    LinksSound
    PlacedIsThere
PROPERTIES
    Settles
