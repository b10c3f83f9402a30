CONSTANTS
    None = None
    Requests = {r1, r2}
    BgCap = 1
    Kinds = {"get", "nocacheWrite"}
    Answers = {"ok"}
    Methodless = FALSE
    MayRefuse = FALSE
    MaxVersion = 1
SPECIFICATION Spec
SYMMETRY ServeSymmetry
CHECK_DEADLOCK FALSE
INVARIANTS
    SuccessfulWriteInvalidates
