SPECIFICATION Spec
CONSTANTS
    ChunkHistory = 2
    TranscriptHistory = 3
    MaxLines = 2
    MaxChunks = 3
    MaxSession = 1
    MaxPauses = 2
    MaxBehind = 2
    Faults = {"rollover", "whisper", "model", "writer"}
    None = None
INVARIANTS
    ChunkPane
    TranscriptPane
    AsrShown
    IdleShown
