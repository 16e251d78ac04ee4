SPECIFICATION FairSpec
CONSTANTS
    None = None
    Foreign = Foreign
    Procs = {p1, p2, p3}
    Kinds = {"stream", "udp", "delay"}
    Faults = {"missing", "spawn", "crash", "foreign", "cancel"}
CHECK_DEADLOCK FALSE
INVARIANTS
    EmuTypeOK
    NoOrphan
    StoppedIsDown
    RunningHoldsPort
PROPERTY
    CallsEnd
