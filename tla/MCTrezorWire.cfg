SPECIFICATION Spec
CONSTANTS
    None = None
    Links = {"wire", "debug"}
    WireOps = {"features", "ping", "load", "pubkey"}
    MaxRounds = 2
    MaxConts = 1
    MaxCalls = 4
    MaxHarm = 1
CHECK_DEADLOCK FALSE
INVARIANTS
    WireTypeOK
    MessageIsWhole
    LagBounded
    AcksExpected
PROPERTY
    ExchangeEnds
