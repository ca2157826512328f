CONSTANTS
    Calls = {c1, c2, c3}
    Coroutines = {c1, c2}
    Failing = {c1}
    Wakers = {c3}
    First = c1
    IsizeMax = 10
    Off = Off
    Null = Null
    Lists = {l1, l2}
    MaxTime = 2
SPECIFICATION Spec
CHECK_DEADLOCK FALSE
INVARIANTS
    TypeOK
    Exclusion
    NoLostNotify
    NoEarlyReturn
    ScopeEncloses
PROPERTIES
    CallsEnd
    WaitEnds
    FireWakesAll
    DropsEnd
    SomeReadyRuns
    TimersFire
