SPECIFICATION MCSpec
CHECK_DEADLOCK FALSE
CONSTANTS
    DiskSites = {"d"}
    ScratchSites = {"t"}
    Recipes = {1, 2}
    Prints = {1, 2}
    K8sPrints = {2}
    MaxReloads = 2
    Requests = {1}
INVARIANTS
    HopsOnceToOwner
    LiveServes
    ChainBodiesOwned
PROPERTIES
    EveryClientAnswered
    Reclaimed
    ControllersConverge
    TunnelsEnd
