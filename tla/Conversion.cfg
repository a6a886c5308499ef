SPECIFICATION Spec
CONSTANTS
    t1 = t1
    t2 = t2
    memo = memo
    report = report
    n1 = n1
    n2 = n2
    n3 = n3
    None = None
    Threads <- MCThreads
    Sources <- MCSources
    Names <- MCNames
SYMMETRY Symmetry
INVARIANTS
    TypeOK
    ResultIsOwn
    WorkdirsOwned
    MacrosLockedUnlessTorn
PROPERTIES
    RequestsEnd
