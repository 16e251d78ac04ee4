SPECIFICATION FairSpec
INVARIANTS DaemonTypeOK HandlersMatch ExitFollowsReply
CONSTANTS
    None = None
    i1 = i1
    Ids = {i1}
    Procs = {p1, p2}
    Clients = {c1}
    Sig = sig
    Callers = {c1, sig}
    QueueCap = 1
    Requests <- MCRequests
    Frames <- MCEveryFrame
    Faults = {"hangup", "accept", "crash"}
PROPERTIES
    RegistryKept
    RequestsServed
