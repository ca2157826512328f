CONSTANTS
    Coroutines = {c1, c2, c3}
    Null = Null
SPECIFICATION Spec
INVARIANT RunsOwnClosure
CHECK_DEADLOCK FALSE
