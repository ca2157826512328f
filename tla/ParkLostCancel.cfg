SPECIFICATION FairSpec
CONSTANTS
    p1 = p1
    p2 = p2
    u1 = u1
    k1 = k1
    None = None
    Parks = {p1, p2}
    Unparkers = {u1}
    Cancelers = {k1}
    Timeouts = {FALSE}
    MaxCalls = 2
CHECK_DEADLOCK FALSE
PROPERTY CancelWakes
