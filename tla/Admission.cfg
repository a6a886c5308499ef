SPECIFICATION FairSpec
CONSTANTS
    c1 = c1
    c2 = c2
    c3 = c3
    NoConn = NoConn
    Conns <- MCConns
    MaxActive = 1
    QueueSize = 2
INVARIANTS
    TypeOK
    SlotsConserved
PROPERTIES
    ImplementsPool
    EveryConnectionSettles
