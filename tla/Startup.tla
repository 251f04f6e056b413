------------------------------ MODULE Startup ------------------------------
(* From the command line to the first thread: what main() does in each of     *)
(* several processes that were started at about the same time, and the files  *)
(* they share under ~/.meetrs:                                                *)
(*   config.yaml   written by whoever finds it missing or incomplete          *)
(*   meetrs.lock   held by a recorder, --check or --compress, gone with it    *)
(*   models/       downloaded beside its name, verified, renamed              *)
(*   meetrs.db     migrated by whichever connection opens it first            *)
(* A process may be killed between any two steps.  What it does once it is    *)
(* started is the business of the other modules.                              *)
EXTENDS Naturals, Sequences, FiniteSets

CONSTANTS
    Procs,          \* processes that may run beside each other
    Threads,        \* threads of a process that open the index
    Modes,          \* how they may be started, of AllModes
    OldConfigs,     \* what config.yaml may hold at first, of FirstText
    OldModels,      \* what the model's file may hold at first
    OldSchemas,     \* the user_version the index may have at first
    Bundled,        \* whether it runs from meetrs.app
    Faults,         \* the failures that may happen, of FaultKinds
    NoFile,         \* no config.yaml
    NoOne,          \* nobody holds a lock
    MaxLaunches     \* bound: processes started in all

AllModes == {"record", "check", "compress", "search", "reindex", "upload"}
FaultKinds == {"config", "pid", "dir", "request", "cut", "rename", "capture",
               "preflight", "kill"}
ModelFile == {"none", "short", "bad", "whole"}

(* A text is a sequence of entries: the user's own, or one of the two keys.   *)
(* A "flow" text of the user's is one that appended lines would break.        *)
Keys == {"secs", "bytes"}
UserTexts == {"user", "flow"}
Text == Seq(Keys \cup UserTexts)
FirstText == [none |-> NoFile, empty |-> <<>>, user |-> <<"user">>,
              flow |-> <<"flow">>, partial |-> <<"user", "secs">>]

ASSUME StartupAssumption ==
    /\ Modes \subseteq AllModes
    /\ Bundled \in BOOLEAN
    /\ Faults \subseteq FaultKinds
    /\ OldConfigs \subseteq DOMAIN FirstText
    /\ OldModels \subseteq ModelFile
    /\ OldSchemas \subseteq 0..2
    /\ NoOne \notin Procs
    /\ NoFile \notin Text \cup UserTexts
    /\ MaxLaunches \in Nat

(* main opens the index before the threads that record do.                    *)
Conns == Procs \X Threads

ASSUME ConnAssumption == NoOne \notin Conns

VARIABLES
    pc, mode,       \* where each process is, and what it was started as
    over,           \* MEETRS_MODEL is set for it
    own,            \* it runs as its own responsible process
    read,           \* the text of config.yaml it read and means to complete
    config,         \* config.yaml
    saved,          \* history: what the user last put into config.yaml, or NoFile
    lock,           \* who holds meetrs.lock
    dest, part,     \* the model, and the download beside it
    conn, seen,     \* each connection, and the user_version it read
    version,        \* user_version as committed
    turnColumn,     \* segments has its turn column
    dbWriter,       \* the connection inside a write transaction
    launches        \* processes started so far

procVars   == <<mode, over, own, read>>
configVars == <<config, saved>>
modelVars  == <<dest, part>>
dbVars     == <<conn, seen, version, turnColumn, dbWriter>>
vars == <<pc, procVars, configVars, lock, modelVars, dbVars, launches>>

(* The states in which a process holds the lock.                              *)
Guarded == {"pid", "dir", "model", "download", "receive", "verify", "install", "index",
            "capture", "preflight", "recording", "checking", "compressing"}
Fetching == {"download", "receive"}
Working == {"recording", "checking", "compressing", "uploading"}
PC == Guarded \cup {"off", "refused", "config", "create", "template", "append",
                    "dispatch", "identity", "lock", "query", "uploading"}

Fails(kind) == kind \in Faults

-----------------------------------------------------------------------------
(* A process that ends, however it ends, gives up its lock, its connections   *)
(* and its memory; an open transaction is rolled back.                        *)
Ends(p, how) ==
    /\ pc' = [pc EXCEPT ![p] = how]
    /\ lock' = IF lock = p THEN NoOne ELSE lock
    /\ conn' = [c \in Conns |-> IF c[1] = p THEN "closed" ELSE conn[c]]
    /\ dbWriter' = IF dbWriter \in Conns /\ dbWriter[1] = p THEN NoOne ELSE dbWriter
    /\ seen' = [c \in Conns |-> IF c[1] = p THEN 0 ELSE seen[c]]
    /\ mode' = [mode EXCEPT ![p] = "record"]
    /\ over' = [over EXCEPT ![p] = FALSE]
    /\ own' = [own EXCEPT ![p] = FALSE]
    /\ read' = [read EXCEPT ![p] = <<>>]
    /\ UNCHANGED <<version, turnColumn, launches>>

Goes(p, where) == pc' = [pc EXCEPT ![p] = where]

(* An error that leaves main().                                               *)
Refused(p) == Ends(p, "refused")

Init ==
    /\ pc = [p \in Procs |-> "off"]
    /\ mode = [p \in Procs |-> "record"]
    /\ over = [p \in Procs |-> FALSE]
    /\ own = [p \in Procs |-> FALSE]
    /\ read = [p \in Procs |-> <<>>]
    /\ config \in {FirstText[k] : k \in OldConfigs}
    /\ saved = IF config # NoFile /\ config # <<>> /\ Head(config) \in UserTexts
               THEN Head(config) ELSE NoFile
    /\ lock = NoOne
    /\ dest \in OldModels /\ part = "none"
    /\ conn = [c \in Conns |-> "closed"]
    /\ seen = [c \in Conns |-> 0]
    /\ version \in OldSchemas /\ turnColumn = (version = 2)
    /\ dbWriter = NoOne
    /\ launches = 0

(* The command line is known to be one of KNOWN_FLAGS, or empty.              *)
Launch(p, m) ==
    /\ pc[p] \in {"off", "refused"} /\ launches < MaxLaunches
    /\ launches' = launches + 1
    /\ mode' = [mode EXCEPT ![p] = m]
    /\ \E set \in BOOLEAN :
           over' = [over EXCEPT ![p] = set /\ m = "record"]
    /\ Goes(p, "config")
    /\ UNCHANGED <<own, read, configVars, lock, modelVars, dbVars>>

-----------------------------------------------------------------------------
(* config::init.                                                              *)

Count(text, key) == Cardinality({i \in 1..Len(text) : text[i] = key})
Holds(text, entry) == \E i \in 1..Len(text) : text[i] = entry

(* parse: a key twice is an error, and so is a key after a flow mapping.      *)
Loads(text) ==
    /\ \A k \in Keys : Count(text, k) <= 1
    /\ Holds(text, "flow") => \A k \in Keys : ~Holds(text, k)

Missing(text) ==
    (IF Holds(text, "secs") THEN <<>> ELSE <<"secs">>) \o
    (IF Holds(text, "bytes") THEN <<>> ELSE <<"bytes">>)
Completable(text) == Missing(text) # <<>> /\ Loads(text \o Missing(text))
Template == <<"secs", "bytes">>

ReadConfig(p) ==
    /\ pc[p] = "config"
    /\ IF config = NoFile
       THEN /\ Goes(p, "create")
            /\ UNCHANGED <<procVars, configVars, lock, modelVars, dbVars, launches>>
       ELSE /\ \/ ~Loads(config) /\ Refused(p)
               \/ /\ Loads(config) /\ ~Completable(config)
                  /\ Goes(p, "dispatch")
                  /\ UNCHANGED <<procVars, lock, dbVars, launches>>
               \/ /\ Loads(config) /\ Completable(config)
                  /\ read' = [read EXCEPT ![p] = config]
                  /\ Goes(p, "append")
                  /\ UNCHANGED <<mode, over, own, lock, dbVars, launches>>
            /\ UNCHANGED <<configVars, modelVars>>

(* create_template opens with create_new: a file that appeared since is left. *)
CreateConfig(p) ==
    IF config = NoFile
    THEN config' = <<>> /\ Goes(p, "template")
    ELSE UNCHANGED config /\ Goes(p, "dispatch")
Create(p) ==
    /\ pc[p] = "create"
    /\ CreateConfig(p)
    /\ UNCHANGED <<procVars, saved, lock, modelVars, dbVars, launches>>

(* The template is written from the start of the file.  It is longer than     *)
(* what others may have appended to the empty file meanwhile.                 *)
WriteTemplate(p) ==
    /\ pc[p] = "template"
    /\ config' = Template
    /\ Goes(p, "dispatch")
    /\ UNCHANGED <<procVars, saved, lock, modelVars, dbVars, launches>>

(* add_missing_keys appends to whatever the file holds by now what the text   *)
(* read before had not; a file that cannot be written is left.                *)
RewriteConfig(p) == config' = read[p] \o Missing(read[p])
AppendConfig(p) ==
    config' \in {config \o Missing(read[p])} \cup IF Fails("config") THEN {config} ELSE {}
AppendKeys(p) ==
    /\ pc[p] = "append"
    /\ AppendConfig(p)
    /\ read' = [read EXCEPT ![p] = <<>>]
    /\ Goes(p, "dispatch")
    /\ UNCHANGED <<mode, over, own, saved, lock, modelVars, dbVars, launches>>

(* The user saves the file whenever they like.  An editor that renames a new  *)
(* file into place leaves a template under way to a file that is gone; one    *)
(* that writes in place does the same otherwise, but is overwritten then.     *)
WritesTemplate(p) == pc[p] = "template"
UserSaves(text) ==
    /\ config' = <<text>> /\ saved' = text
    /\ pc' = [p \in Procs |-> IF WritesTemplate(p) THEN "dispatch" ELSE pc[p]]
    /\ UNCHANGED <<procVars, lock, modelVars, dbVars, launches>>
UserIsOverwritten(text) ==
    /\ \E p \in Procs : WritesTemplate(p)
    /\ config' = <<text>> /\ saved' = NoFile
    /\ UNCHANGED <<pc, procVars, lock, modelVars, dbVars, launches>>

-----------------------------------------------------------------------------
(* Subcommands that need no lock, the identity, the lock.                     *)

Dispatch(p) ==
    /\ pc[p] = "dispatch"
    /\ \/ mode[p] \in {"search", "reindex"} /\ Goes(p, "query")
       \/ mode[p] = "upload" /\ Goes(p, "uploading")
       \/ mode[p] = "compress" /\ Goes(p, "lock")
       \/ mode[p] \in {"record", "check"} /\ Goes(p, "identity")
    /\ UNCHANGED <<procVars, configVars, lock, modelVars, dbVars, launches>>

(* adopt_own_identity: the first time the image is replaced and main() starts *)
(* over with the same arguments; outside a bundle it goes on as it is.        *)
AdoptIdentity(p) ==
    /\ pc[p] = "identity"
    /\ IF Bundled /\ ~own[p]
       THEN own' = [own EXCEPT ![p] = TRUE] /\ Goes(p, "config")
       ELSE UNCHANGED own /\ Goes(p, "lock")
    /\ UNCHANGED <<mode, over, read, configVars, lock, modelVars, dbVars, launches>>

(* flock with LOCK_NB: taken at once or refused.                              *)
FlockDropped(p) ==
    IF lock = NoOne
    THEN UNCHANGED lock /\ Goes(p, "pid") /\ UNCHANGED <<procVars, dbVars, launches>>
    ELSE Refused(p)
Flock(p) ==
    IF lock = NoOne
    THEN lock' = p /\ Goes(p, "pid") /\ UNCHANGED <<procVars, dbVars, launches>>
    ELSE Refused(p)
Acquire(p) ==
    /\ pc[p] = "lock"
    /\ Flock(p)
    /\ UNCHANGED <<configVars, modelVars>>

(* The pid is written into the lock file; an error drops the file and with it *)
(* the lock.  --compress and --check need no more than the lock.              *)
WritePid(p) ==
    /\ pc[p] = "pid"
    /\ \/ /\ \/ mode[p] = "compress" /\ Goes(p, "compressing")
             \/ mode[p] = "check" /\ Goes(p, "checking")
             \/ mode[p] \notin {"compress", "check"} /\ Goes(p, "dir")
          /\ UNCHANGED <<procVars, lock, dbVars, launches>>
       \/ Fails("pid") /\ Refused(p)
    /\ UNCHANGED <<configVars, modelVars>>

(* The session's directory, empty until the writer begins.                    *)
MakeDir(p) ==
    /\ pc[p] = "dir"
    /\ \/ Goes(p, "model") /\ UNCHANGED <<procVars, lock, dbVars, launches>>
       \/ Fails("dir") /\ Refused(p)
    /\ UNCHANGED <<configVars, modelVars>>

-----------------------------------------------------------------------------
(* model::ensure.                                                             *)

(* A cached file is used when its checksum matches and removed when not;      *)
(* MEETRS_MODEL is used as it is, or refused when there is no such file.      *)
TrustCached(p) ==
    IF dest # "none" THEN Goes(p, "index") /\ UNCHANGED dest
                     ELSE Goes(p, "download") /\ UNCHANGED dest
CheckCached(p) ==
    IF dest = "whole"
    THEN Goes(p, "index") /\ UNCHANGED dest
    ELSE Goes(p, "download") /\ dest' = "none"
EnsureModel(p) ==
    /\ pc[p] = "model"
    /\ \/ over[p] /\ Goes(p, "index") /\ UNCHANGED <<dest, procVars, lock, dbVars, launches>>
       \/ over[p] /\ Refused(p) /\ UNCHANGED dest
       \/ ~over[p] /\ CheckCached(p) /\ UNCHANGED <<procVars, lock, dbVars, launches>>
    /\ UNCHANGED <<configVars, part>>

(* download: the request fails before the file is made, or the file is        *)
(* truncated and then grows.                                                  *)
StartDownload(p) ==
    /\ pc[p] = "download"
    /\ \/ /\ part' = "short"
          /\ Goes(p, "receive")
          /\ UNCHANGED <<procVars, lock, dbVars, launches>>
       \/ Fails("request") /\ part' = "none" /\ Refused(p)
    /\ UNCHANGED <<configVars, dest>>

(* The body ends: completely, cut off without an error, or with one, which    *)
(* removes the file.                                                          *)
Receive(p) ==
    /\ pc[p] = "receive"
    /\ \/ /\ part' \in {"whole"} \cup IF Fails("cut") THEN {"bad"} ELSE {}
          /\ Goes(p, "verify")
          /\ UNCHANGED <<procVars, lock, dbVars, launches>>
       \/ Fails("cut") /\ part' = "none" /\ Refused(p)
    /\ UNCHANGED <<configVars, dest>>

Verify(p) ==
    /\ pc[p] = "verify"
    /\ IF part = "whole"
       THEN Goes(p, "install") /\ UNCHANGED <<part, procVars, lock, dbVars, launches>>
       ELSE part' = "none" /\ Refused(p)
    /\ UNCHANGED <<configVars, dest>>

Install(p) ==
    /\ pc[p] = "install"
    /\ \/ /\ dest' = part /\ part' = "none"
          /\ Goes(p, "index")
          /\ UNCHANGED <<procVars, lock, dbVars, launches>>
       \/ Fails("rename") /\ UNCHANGED modelVars /\ Refused(p)
    /\ UNCHANGED configVars

-----------------------------------------------------------------------------
(* db::open: main opens the index once before any thread does and drops the   *)
(* connection; then the writer and the transcriber open their own.            *)

MayOpen(c) ==
    \/ c[2] = "main" /\ pc[c[1]] \in {"index", "query"}
    \/ c[2] # "main" /\ pc[c[1]] = "recording"

Unchanged4db == UNCHANGED <<pc, procVars, configVars, lock, modelVars, launches>>
Connects(c, s) == conn' = [conn EXCEPT ![c] = s]

OpenIndex(c) ==
    /\ MayOpen(c) /\ conn[c] = "closed"
    /\ Connects(c, "begin")
    /\ UNCHANGED <<seen, version, turnColumn, dbWriter>>
    /\ Unchanged4db

(* BEGIN IMMEDIATE waits for the write lock, for as long as busy_timeout.     *)
BeginDeferred(c) == UNCHANGED dbWriter
BeginImmediate(c) == dbWriter = NoOne /\ dbWriter' = c
Begin(c) ==
    /\ conn[c] = "begin"
    /\ BeginImmediate(c)
    /\ Connects(c, "read")
    /\ UNCHANGED <<seen, version, turnColumn>>
    /\ Unchanged4db
WaitsForEver == FALSE
GivesUp == dbWriter # NoOne
BusyTimeout(c) ==
    /\ conn[c] = "begin" /\ GivesUp
    /\ Connects(c, "busy")
    /\ UNCHANGED <<seen, version, turnColumn, dbWriter>>
    /\ Unchanged4db

ReadVersion(c) ==
    /\ conn[c] = "read"
    /\ seen' = [seen EXCEPT ![c] = version]
    /\ Connects(c, "ddl")
    /\ UNCHANGED <<version, turnColumn, dbWriter>>
    /\ Unchanged4db

(* The tables are made if they are not there; a second turn column is an      *)
(* error, which rolls the transaction back.                                   *)
StepsMissing(c) == seen[c] < 2
Migrate(c) ==
    /\ conn[c] = "ddl"
    /\ IF StepsMissing(c) /\ turnColumn
       THEN Connects(c, "failed") /\ UNCHANGED <<version, turnColumn>>
       ELSE /\ version' = IF StepsMissing(c) THEN 2 ELSE version
            /\ turnColumn' = (turnColumn \/ StepsMissing(c))
            /\ Connects(c, "open")
    /\ dbWriter' = NoOne
    /\ seen' = [seen EXCEPT ![c] = 0]
    /\ Unchanged4db

(* The rows of a recording, or of --reindex: their writes hold the lock too.  *)
MayWrite(c) ==
    \/ c[2] # "main" /\ pc[c[1]] = "recording"
    \/ pc[c[1]] = "query" /\ mode[c[1]] = "reindex"
BeginWrite(c) ==
    /\ conn[c] = "open" /\ MayWrite(c)
    /\ dbWriter = NoOne /\ dbWriter' = c
    /\ UNCHANGED <<conn, seen, version, turnColumn>>
    /\ Unchanged4db
CommitWrite(c) ==
    /\ conn[c] = "open" /\ dbWriter = c
    /\ dbWriter' = NoOne
    /\ UNCHANGED <<conn, seen, version, turnColumn>>
    /\ Unchanged4db

Opening(c) == OpenIndex(c) \/ Begin(c) \/ BusyTimeout(c) \/ ReadVersion(c) \/ Migrate(c)
Answered(c) == conn[c] \in {"open", "busy", "failed"}

(* A recorder without an index records all the same.                          *)
IndexReady(p) ==
    /\ pc[p] = "index" /\ Answered(<<p, "main">>)
    /\ Goes(p, "capture")
    /\ Connects(<<p, "main">>, "closed")
    /\ dbWriter' = IF dbWriter = <<p, "main">> THEN NoOne ELSE dbWriter
    /\ UNCHANGED <<procVars, configVars, lock, modelVars, seen, version,
                   turnColumn, launches>>

(* --search and --reindex are refused without one; a write under way is the   *)
(* last one they make.                                                        *)
Query(p) ==
    /\ pc[p] = "query" /\ Answered(<<p, "main">>)
    /\ Ends(p, IF conn[<<p, "main">>] = "open" THEN "off" ELSE "refused")
    /\ UNCHANGED <<configVars, modelVars>>

-----------------------------------------------------------------------------
(* capture::start, the preflight, the threads.                                *)

StartCapture(p) ==
    /\ pc[p] = "capture"
    /\ \/ Goes(p, "preflight") /\ UNCHANGED <<procVars, lock, dbVars, launches>>
       \/ Fails("capture") /\ Refused(p)
    /\ UNCHANGED <<configVars, modelVars>>

(* No audio in the first second, or only zeros, or another's TCC identity.    *)
Preflight(p) ==
    /\ pc[p] = "preflight"
    /\ \/ Goes(p, "recording") /\ UNCHANGED <<procVars, lock, dbVars, launches>>
       \/ Fails("preflight") /\ Refused(p)
    /\ UNCHANGED <<configVars, modelVars>>

WorkDone(p) ==
    /\ pc[p] \in Working
    /\ Ends(p, "off")
    /\ UNCHANGED <<configVars, modelVars>>

Kill(p) ==
    /\ Fails("kill") /\ pc[p] \notin {"off", "refused"}
    /\ Ends(p, "off")
    /\ UNCHANGED <<configVars, modelVars>>

(* What a process does by itself, and what it asks of the network.            *)
Local(p) ==
    \/ ReadConfig(p) \/ Create(p) \/ WriteTemplate(p) \/ AppendKeys(p)
    \/ Dispatch(p) \/ AdoptIdentity(p) \/ Acquire(p) \/ WritePid(p) \/ MakeDir(p)
    \/ EnsureModel(p) \/ Verify(p) \/ Install(p)
    \/ IndexReady(p) \/ Query(p) \/ StartCapture(p) \/ Preflight(p)
Fetch(p) == StartDownload(p) \/ Receive(p)

(* Nothing is left to start, and what runs is at rest.                        *)
Resting ==
    /\ launches = MaxLaunches
    /\ \A p \in Procs : pc[p] \in {"off", "refused"}
    /\ UNCHANGED vars

Next ==
    \/ \E p \in Procs : \E m \in Modes : Launch(p, m)
    \/ \E p \in Procs : Local(p) \/ Fetch(p) \/ WorkDone(p) \/ Kill(p)
    \/ \E c \in Conns : Opening(c) \/ BeginWrite(c) \/ CommitWrite(c)
    \/ \E t \in UserTexts : UserSaves(t) \/ UserIsOverwritten(t)
    \/ Resting

Spec == Init /\ [][Next]_vars

(* A process goes on by itself, in one thread or another, and that is all:    *)
(* nothing is asked of the network, nor of a recorder that holds the write    *)
(* lock.                                                                      *)
Runs(p) == Local(p) \/ \E t \in Threads : Opening(<<p, t>>)
FairSpec == Spec /\ \A p \in Procs : WF_vars(Runs(p))

-----------------------------------------------------------------------------
(* Properties.                                                                *)

(* Every variable stays in its domain (main).                                 *)
TypeOK ==
    /\ pc \in [Procs -> PC] /\ mode \in [Procs -> AllModes]
    /\ over \in [Procs -> BOOLEAN] /\ own \in [Procs -> BOOLEAN]
    /\ read \in [Procs -> Text] /\ config \in Text \cup {NoFile}
    /\ saved \in UserTexts \cup {NoFile}
    /\ lock \in Procs \cup {NoOne}
    /\ dest \in ModelFile /\ part \in ModelFile
    /\ conn \in [Conns -> {"closed", "begin", "read", "ddl", "open", "busy", "failed"}]
    /\ seen \in [Conns -> 0..2] /\ version \in 0..2 /\ turnColumn \in BOOLEAN
    /\ dbWriter \in Conns \cup {NoOne}
    /\ launches \in Nat

(* Two recorders would fight over the device, and --compress deletes audio:   *)
(* while a process records, checks or compresses no other does, whoever was   *)
(* killed before and wherever (lock::acquire).                                *)
OneAtTheAudio ==
    \A p, q \in Procs :
        pc[p] \in Working \ {"uploading"} /\ pc[q] \in Working \ {"uploading"} => p = q

(* The model a recorder transcribes with is the published file, byte for      *)
(* byte: never one cut short, one left by a killed download, or one that      *)
(* another process is downloading (model::ensure).                            *)
ModelIsVerified ==
    \A p \in Procs : pc[p] = "recording" /\ ~over[p] => dest = "whole"

(* The index has the last schema for whoever got it open, and no migration    *)
(* fails because another ran before or beside it (migrate).  Who waits longer *)
(* than busy_timeout for the write lock goes without the index.               *)
SchemaIsWhole ==
    /\ turnColumn = (version = 2)
    /\ \A c \in Conns : /\ conn[c] = "open" => version = 2
                        /\ conn[c] # "failed"

(* What the user saved last stays the beginning of config.yaml, whichever     *)
(* process creates or completes the file and however late it gets to it       *)
(* (create_template, add_missing_keys).                                       *)
UserTextKept ==
    saved # NoFile => config # NoFile /\ config # <<>> /\ Head(config) = saved

(* No launch hangs in this program's own hands: beside a recorder that goes   *)
(* on for days, and one that holds the index's write lock, each gets to work, *)
(* ends, is refused, or is waiting for the model's download, which has no     *)
(* timeout; and one whose download ended goes on (acquire, busy_timeout).     *)
LaunchSettles ==
    \A p \in Procs :
        pc[p] \in {"config", "verify"} ~>
            pc[p] \in {"off", "refused"} \cup Working \cup Fetching
=============================================================================
