SPECIFICATION Spec
CONSTANTS
    Documents <- MCDocuments
    Widest = 3
    MaxChars = 4
    MaxRows = 2
    MaxCols = 2
    MaxCells = 4
    MaxSlides = 3
    MaxSample = 2
    MaxText = 2
    MaxLen = 4
    HexBytes = 2
INVARIANTS
    TypeOK
    CutsAreAnnounced
    ReportBounded
    HexTailLabelled
