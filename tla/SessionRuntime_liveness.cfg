CONSTANTS
    MaxRuns = 2
    MaxDrops = 0
    MaxChunks = 1
    Lens = {1}
SPECIFICATION FairSpec
PROPERTIES RestartReturns DeletedDies
CHECK_DEADLOCK FALSE
