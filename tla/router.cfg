SPECIFICATION Spec
CONSTANTS
    root = root
    n1 = n1
    n2 = n2
    s = s
    t = t
    d = d
    x = x
    y = y
    v = v
    w = w
    p1 = p1
    p2 = p2
    p3 = p3
    b1 = b1
    b2 = b2
    b3 = b3
    Node = {root, n1, n2}
    Root = root
    Segment = {s, t, d, x, y}
    Via = {v, w}
    Pos = {p1, p2, p3}
    Ends <- MCEnds
    Layers <- MCLayers
    Halves <- MCHalves
    BoardItem = {b1, b2, b3}
    InitItems = {s, v}
    MaxItems = 4
    MaxChanges = 2
    MaxCommits = 1
    None = None
SYMMETRY MCSymmetry
INVARIANTS NodeTypeOK JointsMatchItems  NothingFreedIsUsed
PROPERTIES ImplementsWorld
