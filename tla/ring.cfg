SPECIFICATION FairSpec
CONSTANTS
    Channels = 2
    Capacity = 4
    MaxTake = 4
    CycleFrames = {0, 1, 3}
    UnevenBy = {0, 1}
    MaxSamples = 12
    MaxUneven = 2
    MaxMismatched = 1
INVARIANTS
    StreamIntact
    DrainedAtExit
PROPERTIES
    
    WriterReturns
