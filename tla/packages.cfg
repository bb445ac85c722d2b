SPECIFICATION Spec
CONSTANTS
    Package = {p1, p2}
    Version = {v1, v2}
    None = None
    Partial = Partial
    MaxPending = 2
    MaxRuns = 1
SYMMETRY PackageSymmetry
INVARIANTS QueuesDrained ArchivesMatchTasks
PROPERTIES CloseSticks
CHECK_DEADLOCK FALSE
