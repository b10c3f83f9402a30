CONSTANTS
    None = None
    k1 = k1
    Requests = {r1, r2, r3}
    FetchKeys = {k1, k2}
    NoCall = NoCall
    BgCap = 1
    Keys = {k1}
    Calls = {1, 2, 3}
    ShardOf <- MCShardOf
    Ops = {"store", "hfm", "classify", "staleWithin", "forget", "ban"}
    Windows <- MCWindows
    HfmWindows = {2}
    Patterns = {{k1}}
    MaxBans = 2
    FirstGrace = 3
    MaxTime = 3
    MaxStall = 1
SPECIFICATION MCSpec
CHECK_DEADLOCK FALSE
INVARIANTS
    SingleFlight
    ClassifyIsPair
PROPERTIES
    PruneOnlyDead
    CallsEnd
    DeadReclaimed
