SPECIFICATION Spec
CONSTANTS
    None = None
    in = in
    out = out
    Directions = {in, out}
    Cap = 2
    ReportSize = 64
    Tails = {1}
    MaxLines = 2
    MaxReports = 2
    MaxTime = 2
    MaxQueries = 1
SYMMETRY MCSymmetry
CHECK_DEADLOCK FALSE
INVARIANT
    TailIsRecent
