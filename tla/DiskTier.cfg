CONSTANTS
    None = None
    Keys = {k1, k2, k3}
    Writers = {w1, w2}
    Layouts <- TwoShards
    Chunks = {1, 2}
    MaxLen = 2
    MaxCrashes = 0
    May = {"vanish", "iofail"}
SPECIFICATION FairProcess
INVARIANTS
    BlobsOwned
PROPERTIES
    IndexCatchesUp
    ImplementsTier
