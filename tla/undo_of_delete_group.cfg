SPECIFICATION FairSpec
CONSTANTS
    i1 = i1
    i2 = i2
    g1 = g1
    v1 = v1
    Item = {i1, i2}
    Teardrop = {}
    Marker = {}
    Group = {g1}
    Value = {v1}
    None = None
    InitBoard = {i1, i2, g1}
    InitMembers <- MCInitMembers
    MaxUndo = 1
    MaxLines = 1
    MaxPickers = 2
    Tools = {"delete_group"}
PROPERTIES
    ImplementsHistory
CHECK_DEADLOCK FALSE
