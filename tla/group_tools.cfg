SPECIFICATION Spec
CONSTANTS
    i1 = i1
    i2 = i2
    g1 = g1
    g2 = g2
    v1 = v1
    Item = {i1, i2}
    Teardrop = {}
    Marker = {}
    Group = {g1, g2}
    Value = {v1}
    None = None
    InitBoard = {i1, i2, g1}
    InitMembers <- MCInitMembers
    MaxUndo = 1
    MaxLines = 2
    MaxPickers = 2
    Tools = {"modify", "delete", "delete_group", "remove", "remove_from_group", "enter", "group", "regroup", "ungroup", "append"}
INVARIANTS
    DeletedItemsOwnedOnce
    HistoryItemsExist
    GroupsEditable
SYMMETRY ItemSymmetry
