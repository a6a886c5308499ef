SPECIFICATION Spec
CONSTANTS
    x = x
    y = y
    dots = dots
    Safe <- MCSafe
    Unsafe <- MCUnsafe
    Archives <- MCArchives
    MaxEntries = 2
    MaxBytes = 2
    MaxStep = 3
INVARIANTS
    TypeOK
    MemoryBounded
    ServedWhole
    FetchedIsShown
    PageComplete
