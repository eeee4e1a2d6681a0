CONSTANTS
    MaxRuns = 2
    MaxDrops = 1
    MaxChunks = 1
    Lens = {1}
    SessionIds = {p1, p2}
    Modes = {"own", "clone", "worktree"}
    Kinds = {mcp}
    Early = FALSE
    MaxCreates = 2
    MaxRev = 1
    Fetchers = {f1}
    Entries = 3
    u1 = u1
    u2 = u2
    u3 = u3
    n1 = n1
    n2 = n2
    Names = {n1, n2}
    Uploads = {u1, u2, u3}
    NumChunks <- MCNumChunks
    MaxSessions = 3
    Installers = {i1}
    MaxFaults = 1
    Upgraders = {s1, s2}
    Blocks = 2
    MaxFiles = 3
    Frames = {l1, l2, l3}
SPECIFICATION AllSpec
INVARIANTS OneEditorUntilDrop NoStaleRegistration FetchedIsWhole DestWhole InstallKept BinaryIsWhole
PROPERTIES WorkKept LiveKeepsTree DeletedIsGone
CHECK_DEADLOCK FALSE
