SPECIFICATION FairSpec
CONSTANTS
    c1 = c1
    c2 = c2
    c3 = c3
    Calls = {c1, c2, c3}
    Cancelable = {c2, c3}
    Disabled = {}
INVARIANTS
    MutualExclusion
    OnePopper
    PopFindsBlocker
    PoisonReported
    Inv
PROPERTIES
    ImplementsLock
    LockReturns
