CONSTANTS
    Builds = {b1}
    NumSteps = 2
    MaxRuns = 2
    Jobs = {x1, x2}
    MaxAttempts = 3
    MaxXcodeRuns = 2
    RunIds = {r1}
    MaxStarts = 2
    MaxChunks = 1
SPECIFICATION AllSpec
INVARIANTS OneRunPerBuild OkIsUploaded OnlyWholeInstalled OnlyTargetsKilled
PROPERTIES BuildEnds JobEnds EndedIsDelisted
CHECK_DEADLOCK FALSE
