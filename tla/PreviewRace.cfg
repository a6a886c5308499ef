SPECIFICATION Spec
CONSTANTS
    t1 = t1
    t2 = t2
    old = old
    new = new
    i1 = i1
    n1 = n1
    n2 = n2
    Blank = Blank
    Torn = Torn
    Nothing = Nothing
    Contents <- MCContents
    Threads <- MCThreads
    Inodes <- MCInodes
    Attrs <- MCAttrs
    Tmps <- MCTmps
    Members <- MCMembers
    MaxTime = 1
SYMMETRY Symmetry
INVARIANTS
    TypeOK
    CacheSound
    ServedFresh
    StagingOwned
