SPECIFICATION FairSpec
CONSTANTS
    Procs = {p, q}
    Threads = {"main", "writer", "transcriber"}
    Modes = {"record", "compress", "reindex"}
    Bundled = TRUE
    OldConfigs = {"none", "partial"}
    OldModels = {"bad"}
    OldSchemas = {1}
    Faults = {"config", "pid", "dir", "request", "cut", "rename", "capture",
              "preflight", "kill"}
    NoFile = NoFile
    NoOne = NoOne
    MaxLaunches = 2
INVARIANTS
    OneAtTheAudio
    ModelIsVerified
    SchemaIsWhole
    UserTextKept
PROPERTIES
    LaunchSettles
