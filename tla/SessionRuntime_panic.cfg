CONSTANTS
    MaxRuns = 2
    MaxDrops = 1
    MaxChunks = 2
    Lens = {1}
SPECIFICATION Spec
INVARIANTS NodeStaysUp
CHECK_DEADLOCK FALSE
