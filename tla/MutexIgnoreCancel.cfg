SPECIFICATION Spec
CONSTANTS
    c1 = c1
    c2 = c2
    c3 = c3
    Calls = {c1, c2, c3}
    Cancelable = {c2}
    Disabled = {c2}
INVARIANTS
    MutualExclusion
