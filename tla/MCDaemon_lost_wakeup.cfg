SPECIFICATION FairSpec
CONSTANTS
    None = None
    i1 = i1
    Ids = {i1}
    Procs = {p1, p2}
    Clients = {c1, c2}
    Sig = sig
    Callers = {c1, c2, sig}
    QueueCap = 1
    Requests <- MCRequests
    Frames <- MCShutdownOnly
    Faults = {}
PROPERTY
    ShutdownExits
