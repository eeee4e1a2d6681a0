CONSTANTS
    MaxRuns = 3
    MaxDrops = 1
    MaxChunks = 0
    Lens = {1}
SPECIFICATION Spec
INVARIANTS NoOrphanEditor
CHECK_DEADLOCK FALSE
