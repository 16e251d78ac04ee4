SPECIFICATION Spec
CONSTANTS
    None = None
    in = in
    out = out
    Directions = {in, out}
    Cap = 2
    ReportSize = 64
    Tails = {1}
    MaxLines = 3
    MaxReports = 3
    MaxTime = 1
    MaxQueries = 2
SYMMETRY MCSymmetry
CHECK_DEADLOCK FALSE
INVARIANTS
    LogsTypeOK
    RingsKeepNewest
    CountersLead
PROPERTY
    SnapshotsMonotone
