SPECIFICATION Spec
CONSTANTS
    i1 = i1
    i2 = i2
    g1 = g1
    g2 = g2
    v1 = v1
    Item = {i1, i2}
    Teardrop = {}
    Marker = {}
    Group = {g1, g2}
    Value = {v1}
    None = None
    InitBoard = {i1, i2}
    InitMembers <- MCInitMembers
    MaxUndo = 2
    MaxLines = 2
    MaxPickers = 2
    Tools = {"modify", "modify_group", "group", "ungroup", "delete", "enter", "append", "rollback"}
INVARIANTS
    GroupsConsistent
    EnteredGroupOnBoard
PROPERTIES
    ImplementsHistory
SYMMETRY ItemSymmetry
