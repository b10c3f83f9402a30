CONSTANTS
    x = x
    y = y
    z = z
    None = None
    Keys = {k1, k2}
    Writers = {w1, w2, w3}
    Readers = {g1}
    DiskKeys = {x, y, z}
    DiskWriters = {d1, d2}
    Layouts <- MCLayouts
    Chunks = {1, 2}
    MaxLen = 2
    MaxCrashes = 1
    May = {"close", "reset", "iofail"}
    Configs <- MCConfigs
    BodySizes = {0, 1, 2, 3, 4, 5, 6}
    DefaultShards = 4
    MinShardBytes = 3
    DefaultObject = 4
    BannedKeys = {x, y}
    Calls = {1, 2, 3, 4}
    ShardOf <- MCShardOf
    Ops = {"store", "classify", "ban"}
    Windows <- MCWindows
    HfmWindows = {1}
    Patterns = {{x}, {y}}
    MaxBans = 3
    FirstGrace = 1
    MaxTime = 3
    MaxStall = 1
SPECIFICATION MCSpec
SYMMETRY WriterSymmetry
CHECK_DEADLOCK FALSE
INVARIANTS
    OneNewestCopy
    NewestResident
    DiskRecovers
    PlacedWhereItFits
PROPERTIES
    BanHolds
