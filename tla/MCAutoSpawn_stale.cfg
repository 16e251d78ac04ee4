SPECIFICATION SpawnSpec
CONSTANTS
    None = None
    Clients = {c1, c2}
    Daemons = {d1, d2, d3}
    Direct = {}
    Faults = {}
CHECK_DEADLOCK FALSE
PROPERTY
    UnlinksOnlyStale
