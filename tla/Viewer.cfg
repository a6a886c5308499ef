SPECIFICATION Spec
CONSTANTS
    i1 = i1
    i2 = i2
    Inodes <- MCInodes
    Gone = Gone
    Chunk = 2
    MaxSize = 3
SYMMETRY Symmetry
INVARIANTS
    TypeOK
    AnsweredOnce
    PolicyFirst
    LengthIsExact
