\* Chunk by chunk: one session, every sequence of speech and silence.
SPECIFICATION Spec
CONSTANTS
    SilenceToCut = 4
    MaxChunk = 9
    SizeLimit = 10
    Second = 4
    PrerollCap = 2
    TailCap = 2
    MinChunk = 3
    BatchSizes = {1, 3}
    ClockSteps = {0}
    StartTime = 0
    Day = 9
    IdleRollover = 9
    RetryDelay = 1
    Faults = {}
    NoChunk = NoChunk
    MaxHeard = 12
    MaxTime = 0
    MaxLeftover = 2
INVARIANTS
    SpeechIsFiled
    ChunksInOrder
    ChunksHugSpeech
    ChunkFitsLimit
    NextFileIsNew
