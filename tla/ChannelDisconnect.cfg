CONSTANTS
    Senders = {s1}
    Receivers = {r1, r2}
    s1 = s1
    r1 = r1
    r2 = r2
    FirstSender = s1
    FirstReceiver = r1
    BufferLimit = 1
    CanFail = {}
    MaxCalls = 3
SPECIFICATION Spec
INVARIANT DisconnectWakesAll
