CONSTANTS
    Ids = {t1}
    MaxOpens = 1
    MaxSeq = 3
    MaxBreaks = 1
    Sizes = {1}
    Limit = 2
    DetachTimeout = 1
SPECIFICATION Spec
INVARIANTS AttachCovers
PROPERTIES ClosedIsRemoved DetachedIsReaped
CHECK_DEADLOCK FALSE
