CONSTANTS
    Calls = {c1, c2}
    CanPanic = {c1}
    Cancelable = {}
    Null = Null
SPECIFICATION Spec
PROPERTY WaitersWake
CHECK_DEADLOCK FALSE
