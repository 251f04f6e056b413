------------------------------- MODULE Upload -------------------------------
(* r2.rs beside a running recorder: a thread that every interval sends what   *)
(* changed under the recordings directory, and main's final pass when all is  *)
(* done.  The writer appends to its open WAV in place; it and the transcriber *)
(* replace every other file by rename.  A file's revision stands for its      *)
(* content and for its stamp (length and modification time): each change      *)
(* makes a new one.  The store is external: a PUT replaces an object at once  *)
(* and is refused when the body does not have the signed hash.                *)
EXTENDS Integers, FiniteSets

CONSTANTS
    Dirs,           \* session directories, by the time in their name
    MaxIndex,       \* bound: the last chunk index of a session
    MaxRev,         \* bound: appends to an open WAV
    MaxPasses,      \* bound: periodic passes
    PutFails,       \* whether a PUT may fail
    RolloverFails,  \* whether starting a session may fail and leave a directory
    None            \* no file, no directory

ASSUME UploadAssumption ==
    /\ Dirs \subseteq Nat /\ 1 \in Dirs
    /\ MaxIndex \in Nat /\ MaxRev \in Nat /\ MaxPasses \in Nat
    /\ PutFails \in BOOLEAN /\ RolloverFails \in BOOLEAN
    /\ None \notin Nat /\ None \notin Dirs \X {"wav", "flac", "meta", "text"} \X Nat

Files == Dirs \X {"wav", "flac", "meta", "text"} \X (0..MaxIndex)
Wav(d, i) == <<d, "wav", i>>
Flac(d, i) == <<d, "flac", i>>
Meta(d) == <<d, "meta", 0>>     \* meta.json
Text(d) == <<d, "text", 0>>     \* chunk-NNN.json and transcript.md

VARIABLES
    dirs,           \* directories under recordings
    disk,           \* the revision of each file there is
    open,           \* the WAV being written
    dir,            \* the writer's session
    target,         \* the next session, begun while the old one is retired
    listing,        \* a finalized WAV not in meta.json yet
    nextIndex, kept,
    sessions,       \* Summary.sessions
    untold,         \* kept chunks not transcribed yet
    stop,           \* the StopFlag
    writer,         \* "on" until it returns
    phase,          \* main
    halt,           \* Periodic's halt flag
    up,             \* where the upload pass is
    left, active, skip, dirNow, todo, put,  \* the pass's own variables
    clean,          \* the pass has met no error
    passes,
    openThen,       \* history: the open WAV when the one to skip was picked
    sent, remote    \* what was sent, and what the bucket holds

recVars  == <<open, dir, target, listing, nextIndex, kept, sessions, stop, writer>>
diskVars == <<dirs, disk, untold>>
mainVars == <<phase, halt>>
passVars == <<up, left, active, skip, dirNow, todo, put, clean, passes,
              openThen, sent, remote>>
vars == <<recVars, diskVars, mainVars, passVars>>

With(m, f, x) == [g \in DOMAIN m \cup {f} |-> IF g = f THEN x ELSE m[g]]
Without(m, s) == [g \in DOMAIN m \ s |-> m[g]]
Rev(f) == IF f \in DOMAIN disk THEN disk[f] ELSE 0
Touched(f) == With(disk, f, Rev(f) + 1)
FilesIn(d) == {f \in DOMAIN disk : f[1] = d}
Greatest(s) == CHOOSE x \in s : \A y \in s : y <= x

Init ==
    /\ dirs = {1} /\ disk = [f \in {Meta(1)} |-> 1] /\ untold = {}
    /\ open = None /\ dir = 1 /\ target = None /\ listing = None
    /\ nextIndex = 0 /\ kept = 0 /\ sessions = {1}
    /\ stop = FALSE /\ writer = "on"
    /\ phase = "recording" /\ halt = FALSE
    /\ up = "wait" /\ left = {} /\ active = None /\ skip = None /\ dirNow = None
    /\ todo = {} /\ put = None /\ clean = TRUE /\ passes = 0
    /\ openThen = None
    /\ sent = <<>> /\ remote = <<>>

-----------------------------------------------------------------------------
(* The writer (Recorder, in file operations) and the transcriber.             *)

OpenChunk ==
    /\ writer = "on" /\ ~stop
    /\ open = None /\ listing = None /\ target = None /\ nextIndex <= MaxIndex
    /\ open' = Wav(dir, nextIndex)
    /\ disk' = With(disk, open', 1)
    /\ nextIndex' = nextIndex + 1
    /\ UNCHANGED <<dir, target, listing, kept, sessions, stop, writer, dirs, untold,
                   mainVars, passVars>>

AppendChunk ==
    /\ open # None /\ disk[open] < MaxRev
    /\ disk' = Touched(open)
    /\ UNCHANGED <<recVars, dirs, untold, mainVars, passVars>>

(* finalize rewrites the header in place.                                     *)
FinalizeChunk ==
    /\ open # None
    /\ disk' = Touched(open)
    /\ listing' = open /\ open' = None
    /\ UNCHANGED <<dir, target, nextIndex, kept, sessions, stop, writer, dirs, untold,
                   mainVars, passVars>>

(* A runt's file is removed; another chunk is listed and queued.              *)
ListChunk ==
    /\ listing # None
    /\ \/ /\ disk' = Without(disk, {listing})
          /\ UNCHANGED <<kept, untold>>
       \/ /\ disk' = Touched(Meta(dir))
          /\ kept' = kept + 1
          /\ untold' = untold \cup {listing}
    /\ listing' = None
    /\ UNCHANGED <<open, dir, target, nextIndex, sessions, stop, writer, dirs,
                   mainVars, passVars>>

(* The next session's directory, before the old chunk is closed; when it      *)
(* cannot be set up an empty directory may remain and the old session goes on.*)
NewDirs == {d \in Dirs : \A e \in dirs : e < d}
BeginSession(d) ==
    /\ writer = "on" /\ target = None /\ listing = None
    /\ dirs' = dirs \cup {d}
    /\ \/ disk' = With(disk, Meta(d), 1) /\ target' = d
       \/ RolloverFails /\ UNCHANGED <<disk, target>>
    /\ UNCHANGED <<open, dir, listing, nextIndex, kept, sessions, stop, writer, untold,
                   mainVars, passVars>>

(* An old session with nothing kept is discarded.                             *)
SummaryWithoutDir == sessions \ {dir}
SwitchSession ==
    /\ target # None /\ open = None /\ listing = None
    /\ IF kept = 0
       THEN /\ dirs' = dirs \ {dir} /\ disk' = Without(disk, FilesIn(dir))
            /\ sessions' = SummaryWithoutDir \cup {target}
       ELSE sessions' = sessions \cup {target} /\ UNCHANGED <<dirs, disk>>
    /\ dir' = target /\ target' = None /\ nextIndex' = 0 /\ kept' = 0
    /\ UNCHANGED <<open, listing, stop, writer, untold, mainVars, passVars>>

StopRecording ==
    /\ ~stop /\ stop' = TRUE
    /\ UNCHANGED <<open, dir, target, listing, nextIndex, kept, sessions, writer,
                   diskVars, mainVars, passVars>>

WriterReturns ==
    /\ writer = "on" /\ stop /\ open = None /\ listing = None /\ target = None
    /\ writer' = "off"
    /\ UNCHANGED <<open, dir, target, listing, nextIndex, kept, sessions, stop,
                   diskVars, mainVars, passVars>>

(* Jobs are taken in order.                                                   *)
Before(f, g) == f[1] < g[1] \/ (f[1] = g[1] /\ f[3] < g[3])
Transcribe ==
    \E c \in untold :
        /\ \A e \in untold \ {c} : Before(c, e)
        /\ untold' = untold \ {c}
        /\ disk' = Touched(Text(c[1]))
        /\ UNCHANGED <<recVars, dirs, mainVars, passVars>>

-----------------------------------------------------------------------------
(* One pass: upload_pass, run by the thread or, the last time, by main.       *)

Halted == halt /\ phase # "final"

(* recv_timeout timed out.                                                    *)
Tick ==
    /\ up = "wait" /\ ~halt /\ passes < MaxPasses
    /\ passes' = passes + 1
    /\ left' = dirs /\ active' = Greatest(dirs)
    /\ clean' = TRUE
    /\ up' = "dir"
    /\ UNCHANGED <<skip, dirNow, todo, put, openThen, sent, remote, recVars, diskVars,
                   mainVars>>

(* The sender is gone.                                                        *)
ThreadGoesOn ==
    /\ up = "wait" /\ halt
    /\ up' = "dir"
    /\ UNCHANGED <<left, active, skip, dirNow, todo, put, clean, passes,
                   openThen, sent, remote, recVars, diskVars, mainVars>>
ThreadExits ==
    /\ up = "wait" /\ halt
    /\ up' = "exited"
    /\ UNCHANGED <<left, active, skip, dirNow, todo, put, clean, passes,
                   openThen, sent, remote, recVars, diskVars, mainVars>>

PassOver == (up = "dir" /\ left = {}) \/ (up \in {"dir", "file"} /\ Halted)
EndPass ==
    /\ PassOver
    /\ up' = IF phase = "final" THEN "finished" ELSE "wait"
    /\ left' = {} /\ active' = None /\ skip' = None /\ dirNow' = None /\ todo' = {}
    /\ openThen' = None /\ clean' = (clean \/ phase # "final")
    /\ UNCHANGED <<put, passes, sent, remote, recVars, diskVars, mainVars>>

(* The newest WAV of the session under way is skipped; it is looked up before *)
(* the directory is listed.                                                   *)
OldestWav(d) ==
    LET wavs == {f[3] : f \in {g \in FilesIn(d) : g[2] = "wav"}}
    IN  IF wavs = {} THEN None ELSE Wav(d, CHOOSE i \in wavs : \A j \in wavs : i <= j)
NewestWav(d) ==
    LET wavs == {f[3] : f \in {g \in FilesIn(d) : g[2] = "wav"}}
    IN  IF wavs = {} THEN None ELSE Wav(d, Greatest(wavs))
NextDir ==
    /\ up = "dir" /\ ~Halted
    /\ \E d \in left :
           /\ \A e \in left : d <= e
           /\ left' = left \ {d} /\ dirNow' = d
           /\ skip' = IF d = active THEN NewestWav(d) ELSE None
    /\ openThen' = open
    /\ up' = "list"
    /\ UNCHANGED <<active, todo, put, clean, passes, sent, remote,
                   recVars, diskVars, mainVars>>

(* changed_files; a directory discarded meanwhile is an error.                *)
Unsent(f) == f \notin DOMAIN sent \/ sent[f] # disk[f]
Changed == {f \in FilesIn(dirNow) \ {skip} : Unsent(f)}
ListDir ==
    /\ up = "list"
    /\ IF dirNow \in dirs
       THEN /\ todo' = {<<f, disk[f]>> : f \in Changed}
            /\ up' = "file" /\ UNCHANGED clean
       ELSE clean' = FALSE /\ up' = "dir" /\ UNCHANGED todo
    /\ UNCHANGED <<left, active, skip, dirNow, put, passes, openThen, sent,
                   remote, recVars, diskVars, mainVars>>

DirDone ==
    /\ up = "file" /\ ~Halted /\ todo = {}
    /\ up' = "dir" /\ skip' = None /\ dirNow' = None /\ openThen' = None
    /\ UNCHANGED <<left, active, todo, put, clean, passes, sent, remote,
                   recVars, diskVars, mainVars>>

(* Names sort as chunk files, meta.json, transcript.md.                       *)
Rank(f) == CASE f[2] = "flac" -> 3 * f[3]     [] f[2] = "wav" -> 3 * f[3] + 1
             [] f[2] = "meta" -> 3 * MaxIndex + 3 [] OTHER -> 3 * MaxIndex + 4

(* put_file opens the next file and hashes it ...                             *)
OpenFile ==
    /\ up = "file" /\ ~Halted
    /\ \E e \in todo :
           /\ \A o \in todo : Rank(e[1]) <= Rank(o[1])
           /\ todo' = todo \ {e}
           /\ IF e[1] \in DOMAIN disk
              THEN /\ put' = [file |-> e[1], stamp |-> e[2], hashed |-> disk[e[1]]]
                   /\ up' = "send" /\ UNCHANGED clean
              ELSE clean' = FALSE /\ UNCHANGED <<put, up>>
    /\ UNCHANGED <<left, active, skip, dirNow, passes, openThen, sent, remote,
                   recVars, diskVars, mainVars>>

(* ... and sends it from the same handle: what it reads by now, if the file   *)
(* is a WAV changed in place, else what it hashed.                            *)
Body == IF put.file[2] = "wav" /\ put.file \in DOMAIN disk THEN disk[put.file]
                                                           ELSE put.hashed
StampNow == Rev(put.file)
Stamp == put.stamp
SendFile ==
    /\ up = "send"
    /\ \/ /\ Body = put.hashed
          /\ remote' = With(remote, put.file, put.hashed)
          /\ sent' = With(sent, put.file, Stamp)
          /\ UNCHANGED clean
       \/ /\ PutFails \/ Body # put.hashed
          /\ clean' = FALSE
          /\ UNCHANGED <<remote, sent>>
    /\ up' = "file" /\ put' = None
    /\ UNCHANGED <<left, active, skip, dirNow, todo, passes, openThen,
                   recVars, diskVars, mainVars>>

-----------------------------------------------------------------------------
(* main, once the writer has returned.                                        *)

FinishPeriodic ==
    /\ phase = "recording" /\ writer = "off"
    /\ halt' = TRUE /\ phase' = "halting"
    /\ UNCHANGED <<recVars, diskVars, passVars>>

JoinPeriodic ==
    /\ phase = "halting" /\ up = "exited"
    /\ phase' = "joining"
    /\ UNCHANGED <<halt, recVars, diskVars, passVars>>

(* The transcriber is done; the audio is compressed unless it failed.         *)
Wavs == {f \in DOMAIN disk : f[2] = "wav"}
Compressed(gone) ==
    [f \in (DOMAIN disk \ gone) \cup {Flac(g[1], g[3]) : g \in gone} |->
        IF f \notin DOMAIN disk THEN 1
        ELSE IF f[2] = "meta" /\ (\E g \in gone : g[1] = f[1]) THEN disk[f] + 1
        ELSE disk[f]]
(* The final pass goes over the sessions of the summary and skips nothing.    *)
ActiveLast == Greatest(sessions)
ActiveInFinal == None
CompressThenUpload ==
    /\ phase = "joining" /\ untold = {}
    /\ \E gone \in {Wavs, {}} : disk' = Compressed(gone)
    /\ phase' = "final"
    /\ left' = sessions /\ active' = ActiveInFinal /\ clean' = TRUE
    /\ up' = "dir"
    /\ UNCHANGED <<dirs, untold, halt, recVars, skip, dirNow, todo, put, passes,
                   openThen, sent, remote>>

Exit ==
    /\ phase = "final" /\ up = "finished"
    /\ phase' = "done"
    /\ UNCHANGED <<halt, recVars, diskVars, passVars>>

Terminated == phase = "done" /\ UNCHANGED vars

-----------------------------------------------------------------------------
Recording ==
    \/ OpenChunk \/ AppendChunk \/ FinalizeChunk \/ ListChunk
    \/ \E d \in NewDirs : ~stop /\ (\A e \in NewDirs : d <= e) /\ BeginSession(d)
    \/ SwitchSession \/ StopRecording \/ WriterReturns
Pass == ThreadExits \/ EndPass \/ NextDir \/ ListDir \/ DirDone \/ OpenFile \/ SendFile
Main == FinishPeriodic \/ JoinPeriodic \/ CompressThenUpload \/ Exit

Next == Recording \/ Transcribe \/ Tick \/ Pass \/ Main \/ Terminated

Spec == Init /\ [][Next]_vars

(* The pass under way goes on (each request has a timeout), the transcriber   *)
(* works its queue off, and main goes on once what it waits for has happened. *)
FairSpec == Spec /\ WF_vars(Pass) /\ WF_vars(Main) /\ WF_vars(Transcribe)

-----------------------------------------------------------------------------
(* Properties.                                                                *)

(* What counts as sent is in the bucket, at least as new as its stamp: a file *)
(* that changes while it is listed, hashed or sent, or whose PUT fails, is    *)
(* sent again by the next pass (upload_pass, changed_files).                  *)
SentIsStored ==
    \A f \in DOMAIN sent : f \in DOMAIN remote /\ remote[f] >= sent[f]

(* After a final pass without errors the bucket holds every file of every     *)
(* session as it is on disk, what periodic passes sent half-way included.     *)
FinalPassComplete ==
    phase = "done" /\ clean =>
        \A f \in DOMAIN disk : f[1] \in sessions =>
            f \in DOMAIN remote /\ remote[f] = disk[f]

(* The chunk being written is not sent, with two exceptions the code makes: a *)
(* WAV opened after the pass had picked the one to skip, and, once a rollover *)
(* has been begun, or has failed and left its directory, any WAV of the old   *)
(* session: the pass takes the newest directory for the one being recorded    *)
(* and every earlier one for closed (spawn_periodic, upload_pass).            *)
SkipsOpenChunk ==
    put # None /\ put.file = open =>
        open # openThen \/ (put.file[1] # active /\ \E d \in dirs : d > dir)

(* Once the writer is done, main gets through to the end: the thread stops    *)
(* whatever its pass was doing (Periodic::finish), and the final pass ends.   *)
MainExits == writer = "off" ~> phase = "done"
=============================================================================
