CONSTANTS
    None = None
    Requests = {r1, r2, r3}
    BgCap = 1
    Kinds = {"get", "write", "purge"}
    Answers = {"ok", "fail"}
    Methodless = TRUE
    MayRefuse = TRUE
    MaxVersion = 1
SPECIFICATION Spec
SYMMETRY ServeSymmetry
CHECK_DEADLOCK FALSE
INVARIANTS
    WritesAndPurgesHold
