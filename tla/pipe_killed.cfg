SPECIFICATION Spec
CONSTANTS
    Sessions = {1, 2}
    MaxIndex = 1
    Faults = {"index", "json", "killed", "lost", "writer"}
    MaxReindex = 1
    ReindexLive = FALSE
    None = None
INVARIANTS
    IndexBehindFiles
    IndexRestored
