SPECIFICATION Spec
CONSTANTS
    Names <- MCNames
    HiddenName = 2
    Outside = 9
    Declared <- MCDeclared
    CacheDir <- MCCacheDir
    MaxFollow = 5
    Trees <- MCTrees
    MaxDepth = 2
    Limit = 1
INVARIANTS
    TypeOK
    ListingMatchesFetch
    NoSteadyNameLost
    NoAliasAround
