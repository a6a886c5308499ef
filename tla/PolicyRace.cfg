SPECIFICATION Spec
CONSTANTS
    w1 = w1
    w2 = w2
    secrets = secrets
    logs = logs
    project = project
    Main = Main
    CacheDir = CacheDir
    Unsafe = Unsafe
    Missing = Missing
    Workers <- MCWorkers
    Required <- MCRequired
    Policies <- MCLong
    TTL = 1
    MaxCall = 1
    MaxTime = 6
SYMMETRY Symmetry
INVARIANTS
    CachedAtMostTTL
