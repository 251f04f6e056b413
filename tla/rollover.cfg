SPECIFICATION Spec
CONSTANTS
    SilenceToCut = 1
    MaxChunk = 6
    SizeLimit = 9
    Second = 2
    PrerollCap = 2
    TailCap = 1
    MinChunk = 3
    BatchSizes = {1}
    ClockSteps = {0, 3}
    StartTime = 0
    Day = 5
    IdleRollover = 2
    RetryDelay = 1
    Faults = {"rollover", "discard", "writer"}
    NoChunk = NoChunk
    MaxHeard = 6
    MaxTime = 12
    MaxLeftover = 1
INVARIANTS
    TypeOK
    FreshDirectory
    SummaryComplete
    IndexAgrees
PROPERTIES
    KeptForever
    LogsSpeech
