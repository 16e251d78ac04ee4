SPECIFICATION BridgeFairSpec
CONSTANTS
    Kinds = {"tcp", "unix", "dgram", "udp"}
    MaxStarts = 2
    MaxReports = 2
    MaxTotal = 2
    MaxLinks = 2
CHECK_DEADLOCK FALSE
INVARIANTS
    BridgeTypeOK
    InOrder
PROPERTIES
    StoppedIsSilent
    ReportsArrive
    DeviceCloses
