SPECIFICATION FairSpec
CONSTANTS
    p1 = p1
    u1 = u1
    u2 = u2
    k1 = k1
    None = None
    Parks = {p1}
    Unparkers = {u1, u2}
    Cancelers = {k1}
    Timeouts = {TRUE, FALSE}
    MaxCalls = 2
INVARIANTS
    FramesApart
    KernelLifetime
    OkHasUnpark
PROPERTIES
    UnparkWakes
    CancelWakes
