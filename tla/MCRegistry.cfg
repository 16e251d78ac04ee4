SPECIFICATION RegFairSpec
CONSTANTS
    None = None
    i1 = i1
    i2 = i2
    Ids = {i1, i2}
    Procs = {p1, p2}
    Callers = {c1, c2}
    QueueCap = 1
    Requests <- MCRequests
    Faults = {"crash", "hang", "id_collision"}
INVARIANTS
    TypeOK
    NoLeak
    SoleOwner
    OneReply
PROPERTIES
    ShutdownDrains
    StoppedIsGone
    Linearizable
    EveryCallReturns
