SPECIFICATION FairSpec
CONSTANTS
    i1 = i1
    i2 = i2
    i3 = i3
    NoLease = NoLease
    Outsider = Outsider
    Instance = {i1, i2}
    TTL = 2
    NumStores = 1
    MaxClock = 3
    MaxCrashes = 0
    Faults = {}
    Timely = FALSE
    PromptStart = TRUE
    Outsiders = FALSE
PROPERTY
    PredecessorFindsOut
