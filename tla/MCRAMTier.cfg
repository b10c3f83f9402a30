CONSTANTS
    k1 = k1
    k2 = k2
    k3 = k3
    s1 = s1
    s2 = s2
    w1 = w1
    w2 = w2
    w3 = w3
    None = None
    Keys = {k1, k2, k3}
    Shards = {s1, s2}
    Writers = {w1, w2, w3}
    ShardOf <- MCShardOf
    Cap <- MCCap
    MaxObjectBytes = 2
    InflightBudget = 2
    Chunks = {1, 2}
SPECIFICATION MCSpec
INVARIANTS
    TierSound
PROPERTIES
    CommitTerminates
    ImplementsTier
