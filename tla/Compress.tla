------------------------------ MODULE Compress ------------------------------
(* compress.rs: WAV to FLAC over one session directory, the only code that    *)
(* deletes kept audio.  It runs when a recording has ended (main) or by hand  *)
(* (--compress), in both cases under the instance lock, so nothing else       *)
(* writes the directory; sessions share nothing, so one directory is enough.  *)
(* A run may be killed between any two file operations, or meet any failure   *)
(* the code handles, and be started again.  What a FLAC holds is "bad" while  *)
(* it does not decode to as many frames as its WAV, "good" once it does.      *)
EXTENDS Integers, FiniteSets

CONSTANTS
    Chunks,         \* the chunks of the session, by index
    Faults,         \* the failures that may happen, of FaultKinds
    MaxRuns         \* bound: how often compression is started

FaultKinds == {"crash", "encode", "remove", "clean", "repoint"}

ASSUME CompressAssumption ==
    Chunks \subseteq Nat /\ Faults \subseteq FaultKinds /\ MaxRuns \in Nat

VARIABLES
    pc,             \* where the run is; "idle" before the first, "killed" by a crash
    runs,           \* runs started
    todo,           \* chunks of the listing still to be looked at
    chunk,          \* the chunk being compressed
    renamed,        \* chunks whose WAV this run has deleted
    wav,            \* chunks whose WAV is on disk
    flac,           \* the FLAC of each chunk
    json,           \* chunks with a chunk-NNN.json: transcribed
    names,          \* the kind of file meta.json names, per listed chunk
    met,            \* history: the failures of this run
    metBefore       \* history: those of the runs before it

fileVars == <<wav, flac, json, names>>
metVars == <<met, metBefore>>
vars == <<pc, runs, todo, chunk, renamed, fileVars, metVars>>

Fails(kind) == kind \in Faults /\ met' = met \cup {kind}

(* A crash of the recorder can leave a WAV that meta.json does not list.      *)
Init ==
    /\ pc = "idle" /\ runs = 0 /\ todo = {} /\ chunk = 0 /\ renamed = {}
    /\ met = {} /\ metBefore = {}
    /\ wav = Chunks
    /\ flac = [c \in Chunks |-> "none"]
    /\ \E listed \in SUBSET Chunks : names = [c \in listed |-> "wav"]
    /\ json \in SUBSET DOMAIN names

-----------------------------------------------------------------------------
(* wav_chunks lists the WAVs once, at the start.                              *)
Start ==
    /\ pc \in {"idle", "done", "killed"} /\ runs < MaxRuns
    /\ runs' = runs + 1
    /\ todo' = wav
    /\ renamed' = {}
    /\ pc' = "pick"
    /\ met' = {} /\ metBefore' = metBefore \cup met
    /\ UNCHANGED <<chunk, fileVars>>

(* A WAV with no transcript is left alone.                                    *)
WantedUntouched(c) == c \in json /\ flac[c] = "none"
Wanted(c) == c \in json

(* The next WAV in index order.                                               *)
Pick ==
    /\ pc = "pick"
    /\ \E c \in todo :
           /\ \A d \in todo : c <= d
           /\ chunk' = c
           /\ todo' = todo \ {c}
           /\ pc' = IF Wanted(c) THEN "encode" ELSE "pick"
    /\ UNCHANGED <<runs, renamed, fileVars, metVars>>

(* afconvert opens the FLAC for writing, over one left by an earlier run ...  *)
OpenFlac ==
    /\ pc = "encode"
    /\ flac' = [flac EXCEPT ![chunk] = "bad"]
    /\ pc' = "encoding"
    /\ UNCHANGED <<runs, todo, chunk, renamed, wav, json, names, metVars>>

(* ... and exits: with an error, or claiming success, which a short file can  *)
(* do too.                                                                    *)
CloseFlac ==
    /\ pc = "encoding"
    /\ \/ flac' = [flac EXCEPT ![chunk] = "good"] /\ pc' = "verify" /\ UNCHANGED met
       \/ Fails("encode") /\ UNCHANGED flac /\ pc' \in {"verify", "clean"}
    /\ UNCHANGED <<runs, todo, chunk, renamed, wav, json, names, metBefore>>

(* Decode it back and count frames; decoding can fail on a good file too.     *)
VerifiedByExitStatus == TRUE
Verified == flac[chunk] = "good"
Verify ==
    /\ pc = "verify"
    /\ \/ Verified /\ pc' = "remove" /\ UNCHANGED met
       \/ ~Verified /\ pc' = "clean" /\ UNCHANGED met
       \/ Fails("encode") /\ pc' = "clean"
    /\ UNCHANGED <<runs, todo, chunk, renamed, fileVars, metBefore>>

(* The WAV goes, or cannot be removed and stays the chunk's audio.            *)
RemoveWav ==
    /\ pc = "remove"
    /\ \/ wav' = wav \ {chunk} /\ renamed' = renamed \cup {chunk} /\ pc' = "pick"
          /\ UNCHANGED met
       \/ Fails("remove") /\ pc' = "clean" /\ UNCHANGED <<wav, renamed>>
    /\ UNCHANGED <<runs, todo, chunk, flac, json, names, metBefore>>

(* Give up on this chunk and delete its FLAC, best effort.                    *)
Clean ==
    /\ pc = "clean"
    /\ \/ flac' = [flac EXCEPT ![chunk] = "none"] /\ UNCHANGED met
       \/ Fails("clean") /\ UNCHANGED flac
    /\ pc' = "pick"
    /\ UNCHANGED <<runs, todo, chunk, renamed, wav, json, names, metBefore>>

(* repoint_meta: one atomic replacement of meta.json, for this run's files    *)
(* only; when it fails the run still ends as if it had not.                   *)
RepointTranscribed == [c \in DOMAIN names |-> IF c \in json THEN "flac" ELSE names[c]]
Repointed == [c \in DOMAIN names |-> IF c \in renamed THEN "flac" ELSE names[c]]
Repoint ==
    /\ pc = "pick" /\ todo = {}
    /\ \/ names' = Repointed /\ UNCHANGED met
       \/ Fails("repoint") /\ UNCHANGED names
    /\ pc' = "done"
    /\ UNCHANGED <<runs, todo, chunk, renamed, wav, flac, json, metBefore>>

(* The process dies; the files stay as they are.                              *)
Crash ==
    /\ pc \notin {"idle", "done", "killed"}
    /\ Fails("crash")
    /\ pc' = "killed"
    /\ UNCHANGED <<runs, todo, chunk, renamed, fileVars, metBefore>>

Stopped == pc \in {"idle", "done", "killed"} /\ runs = MaxRuns /\ UNCHANGED vars

Next ==
    \/ Start \/ Pick \/ OpenFlac \/ CloseFlac \/ Verify \/ RemoveWav \/ Clean
    \/ Repoint \/ Crash \/ Stopped

Spec == Init /\ [][Next]_vars

-----------------------------------------------------------------------------
(* Properties.                                                                *)

(* Every variable stays in its domain.                                        *)
TypeOK ==
    /\ pc \in {"idle", "pick", "encode", "encoding", "verify", "remove", "clean",
               "done", "killed"}
    /\ runs \in 0..MaxRuns
    /\ todo \subseteq Chunks /\ renamed \subseteq Chunks
    /\ chunk \in Nat
    /\ pc \in {"encode", "encoding", "verify", "remove", "clean"} => chunk \in json
    /\ wav \subseteq Chunks
    /\ flac \in [Chunks -> {"none", "bad", "good"}]
    /\ DOMAIN names \subseteq Chunks
    /\ json \subseteq DOMAIN names
    /\ names \in [DOMAIN names -> {"wav", "flac"}]
    /\ met \subseteq Faults /\ metBefore \subseteq Faults

(* The audio is never lost: at every instant, whatever fails and wherever the *)
(* run is killed and started again, a chunk has its WAV or a FLAC that        *)
(* decodes to all of it (run, compress_one).                                  *)
AudioKept == \A c \in Chunks : c \in wav \/ flac[c] = "good"

(* A chunk still to be transcribed keeps its float WAV.                       *)
UntranscribedKeepWav == Chunks \ json \subseteq wav

(* meta.json is right about the audio whenever a run has ended and no run was *)
(* killed and no replacement of meta.json failed: the file it names exists,   *)
(* also for a chunk whose encoding or whose removal failed.                   *)
Exists(c, kind) == IF kind = "wav" THEN c \in wav ELSE flac[c] = "good"
MetaNamesAudio ==
    pc = "done" /\ (met \cup metBefore) \cap {"crash", "repoint"} = {} =>
        \A c \in DOMAIN names : Exists(c, names[c])

(* A run that meets no failure has compressed all that is transcribed, as if  *)
(* the killed and failed runs before it had not been.                         *)
RerunFinishes ==
    pc = "done" /\ met = {} => \A c \in json : c \notin wav /\ flac[c] = "good"
=============================================================================
