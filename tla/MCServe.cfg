CONSTANTS
    None = None
    Requests = {r1, r2}
    BgCap = 1
    Kinds = {"get", "range", "head", "nocache", "write", "nocacheWrite", "pass", "purge", "gated"}
    Answers = {"ok", "nostore", "hfm", "neg", "fail", "failNeg", "failHfm"}
    Methodless = TRUE
    MayRefuse = TRUE
    MaxVersion = 0
SPECIFICATION FairSpec
CHECK_DEADLOCK FALSE
INVARIANTS
    CacheShareable
PROPERTIES
    Answered
