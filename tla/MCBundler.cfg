SPECIFICATION Spec
CONSTANTS
    None = None
    old = old
    new = new
    bare = bare
    emu = emu
    run = run
    aux = aux
    Tasks = {t1, t2, t3}
    Releases = {old, new, bare}
    Files = {emu, run, aux}
    Contents <- MCContents
    Shipped <- MCShipped
    Candidates <- MCCandidates
    Executables = {emu, run}
    Faults = {"network", "extract", "disk", "unlink", "drop", "kill"}
SYMMETRY MCSymmetry
INVARIANTS
    BundlerTypeOK
    SuccessIsWhole
    ArchiveRemoved
    EndIsReported
CHECK_DEADLOCK FALSE
