SPECIFICATION Spec
CONSTANTS
    i1 = i1
    i2 = i2
    t1 = t1
    v1 = v1
    v2 = v2
    Item = {i1, i2}
    Teardrop = {t1}
    Marker = {}
    Group = {}
    Value = {v1, v2}
    None = None
    InitBoard = {i1, i2, t1}
    InitMembers <- MCInitMembers
    MaxUndo = 1
    MaxLines = 2
    MaxPickers = 2
    Tools = {"modify", "remove", "teardrops", "nets", "cleanup"}
INVARIANTS
    ViewMatchesBoard
    ConnectivityMatchesBoard
PROPERTIES
    ImplementsHistory
SYMMETRY ItemSymmetry
