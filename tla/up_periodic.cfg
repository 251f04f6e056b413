SPECIFICATION Spec
CONSTANTS
    Dirs = {1, 2}
    MaxIndex = 1
    MaxRev = 1
    MaxPasses = 2
    PutFails = FALSE
    RolloverFails = TRUE
    None = None
INVARIANTS
    SkipsOpenChunk
