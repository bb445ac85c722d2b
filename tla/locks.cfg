SPECIFICATION Spec
CONSTANTS
    p1 = p1
    p2 = p2
    u1 = u1
    u2 = u2
    d1 = d1
    d2 = d2
    Program = {p1, p2}
    Board = {d1, d2}
    Schematic = {d1, d2}
    User = {u1, u2}
    ReadOnlyDocument = {d2}
    None = None
INVARIANTS LocksTypeOK EveryLockHasHolder OnlyOverrideSharesLock
PROPERTIES ForeignLockNeedsConsent
SYMMETRY LocksSymmetry
