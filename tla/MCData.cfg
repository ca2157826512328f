CONSTANTS
    Senders = {s1, s2}
    Receivers = {r1, r2}
    FirstSender = s1
    FirstReceiver = r1
    Peers = {p1, p2}
    Failing = {s1, r1}
    BufferLimit = 1
    MaxCalls = 5
    worker_num = 1
    MaxValues = 3
    Off = Off
    Null = Null
SYMMETRY PeerSymmetry
SPECIFICATION Spec
CHECK_DEADLOCK FALSE
INVARIANTS
    TypeOK
    UnitsAreMessages
    NobodyStuck
    ChannelUsersServed
    CellFilledOnce
    IoWakesUp
    IoDataAlive
    ModeFollowsCaller
    GeneratorsIntact
    QueuesDeliver
    CopiesAgree
    MomentsKept
