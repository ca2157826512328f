SPECIFICATION FairSpec
CONSTANTS
    p1 = p1
    u1 = u1
    None = None
    Parks = {p1}
    Unparkers = {u1}
    Cancelers = {}
    Timeouts = {TRUE}
    MaxCalls = 1
PROPERTY TimedParkReturns
