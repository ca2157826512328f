SPECIFICATION FairSpec
CONSTANTS
    w1 = w1
    w2 = w2
    w3 = w3
    p1 = p1
    p2 = p2
    Calls = {w1, w2, w3, p1, p2}
    Posters = {p1, p2}
    CanFail = {w1}
    InitVal = 0
INVARIANTS
    UnitsBalance
    Inv
PROPERTIES
    ImplementsSemaphore
    ImplementsContract
    WaitReturns
