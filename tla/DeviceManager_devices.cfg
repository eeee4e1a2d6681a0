SPECIFICATION Spec
CONSTANTS
    h1 = h1
    h2 = h2
    Handlers = {h1, h2}
    MaxFrames = 2
SYMMETRY Symmetry
INVARIANTS UncancelledIsOwned ControlOnHasLoop
CHECK_DEADLOCK FALSE
