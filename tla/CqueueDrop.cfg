CONSTANTS
    Selectors = {c1, c2}
    CanPanic = {}
SPECIFICATION Spec
INVARIANT AllFinished
CHECK_DEADLOCK FALSE
