SPECIFICATION SpawnFairSpec
CONSTANTS
    None = None
    Clients = {c1, c2}
    Daemons = {d1, d2, d3, d4}
    Direct = {d4}
    Faults = {"crash", "exit", "slow", "deny"}
CHECK_DEADLOCK FALSE
INVARIANTS
    SpawnTypeOK
    TurnsShareDaemon
    NoFileAfterExit
PROPERTY
    SearchEnds
