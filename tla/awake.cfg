SPECIFICATION Spec
CONSTANTS
    SilenceToCut = 1
    MaxChunk = 6
    SizeLimit = 9
    Second = 2
    PrerollCap = 1
    TailCap = 1
    MinChunk = 3
    BatchSizes = {1}
    ClockSteps = {0, 1}
    StartTime = 0
    Day = 4
    IdleRollover = 2
    RetryDelay = 1
    Faults = {"index"}
    NoChunk = NoChunk
    MaxHeard = 7
    MaxTime = 7
    MaxLeftover = 1
INVARIANTS
    DaysAreSeparate
    IdleGapSplits
    EndStampNearTalk
