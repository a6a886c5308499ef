SPECIFICATION ScriptSpec
CONSTANTS
    o1 = o1
    o2 = o2
    p1 = p1
    p2 = p2
    p3 = p3
    None = None
    Operators <- MCOperators
    Pids <- MCPids
SYMMETRY Symmetry
INVARIANTS
    ScriptTypeOK
    FileNamesViewer
    RestartReplaces
    StrangersSpared
