SPECIFICATION FairSpec
CONSTANTS
    Channels = 2
    Capacity = 4
    MaxTake = 4
    CycleFrames = {1, 3}
    UnevenBy = {0}
    MaxSamples = 12
    MaxUneven = 0
    MaxMismatched = 1
PROPERTY
    QuitAlwaysJoins
