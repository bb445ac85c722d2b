SPECIFICATION FairSpec
CONSTANTS
    NLib = 2
    MaxVersion = 1
    Worker = {w1, w2}
    None = None
    RacingStamps = FALSE
INVARIANTS FpTypeOK FreshListIsCurrent ListedOnce
PROPERTIES ReadIsComplete ReadEnds
