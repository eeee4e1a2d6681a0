SPECIFICATION Spec
CONSTANTS
    h1 = h1
    h2 = h2
    Handlers = {h1}
    MaxFrames = 2
PROPERTIES DeadLoopRevived
CHECK_DEADLOCK FALSE
