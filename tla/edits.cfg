SPECIFICATION Spec
CONSTANTS
    i1 = i1
    i2 = i2
    v1 = v1
    v2 = v2
    Item = {i1, i2}
    Teardrop = {}
    Marker = {}
    Group = {}
    Value = {v1, v2}
    None = None
    InitBoard = {i1}
    InitMembers <- MCInitMembers
    MaxUndo = 1
    MaxLines = 2
    MaxPickers = 2
    Tools = {"modify", "add", "add_placed", "remove", "nets", "append", "rollback"}
INVARIANTS
    TypeOK
    ViewMatchesBoard
    HistoryWithinLimit
PROPERTIES
    ImplementsHistory
SYMMETRY ValueSymmetry
