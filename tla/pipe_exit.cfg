SPECIFICATION FairSpec
CONSTANTS
    Sessions = {1, 2}
    MaxIndex = 1
    Faults = {"text", "whisper", "model", "writer", "ui"}
    MaxReindex = 1
    ReindexLive = TRUE
    None = None
INVARIANTS
    TranscriptIsItsSessions
    NothingLeftQueued
    ExitIndexed
PROPERTIES
    MainReturns
