SPECIFICATION Spec
CONSTANTS
    Chunks = {0, 1, 2}
    Faults = {"crash", "encode", "remove", "clean", "repoint"}
    MaxRuns = 3
INVARIANTS
    AudioKept
    MetaNamesAudio
    RerunFinishes
