SPECIFICATION FairSpec
CONSTANTS
    i1 = i1
    t1 = t1
    m1 = m1
    m2 = m2
    v1 = v1
    v2 = v2
    Item = {i1}
    Teardrop = {t1}
    Marker = {m1, m2}
    Group = {}
    Value = {v1, v2}
    None = None
    InitBoard = {i1, t1}
    InitMembers <- MCInitMembers
    MaxUndo = 1
    MaxLines = 2
    MaxPickers = 2
    Tools = {"modify", "add", "remove", "drc", "teardrops", "remove_teardrops"}
INVARIANTS
    NoDanglingReference
PROPERTIES
    OperationsEnd
