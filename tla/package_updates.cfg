SPECIFICATION FairSpec
CONSTANTS
    Package = {p1}
    Version = {v1, v2}
    None = None
    Partial = Partial
    MaxPending = 2
    MaxRuns = 1
INVARIANTS PcmTypeOK InstalledHasFiles
PROPERTIES ThreadsEnd
CHECK_DEADLOCK FALSE
