CONSTANTS
    ida = ida
    idb = idb
    ta = ta
    tb = tb
    Ids = {ida, idb}
    Targets <- MCTargets
    TargetOf <- MCTargetOf
    Static = {ida}
    Buildable = {ida, idb}
    Fetches = {f1, f2}
    Policies = {"round_robin", "sticky"}
    RingOrder <- MCRing
    MaxConns = 1
    Window = 1
    Threshold = 1
    PassiveThreshold = 1
    MaxGen = 2
    MaxFails = 1
SPECIFICATION MCSpec
CHECK_DEADLOCK FALSE
INVARIANTS
    PoolSound
    LimitsKept
    AddressAttested
    CertificatesWhole
    HandedOverHeld
    EdgeKept
PROPERTIES
    PoolFollowsAnswers
    EdgeAsReported
