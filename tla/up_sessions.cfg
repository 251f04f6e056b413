SPECIFICATION FairSpec
CONSTANTS
    Dirs = {1, 2}
    MaxIndex = 0
    MaxRev = 2
    MaxPasses = 1
    PutFails = TRUE
    RolloverFails = TRUE
    None = None
INVARIANTS
    FinalPassComplete
    SentIsStored
PROPERTIES
    MainExits
