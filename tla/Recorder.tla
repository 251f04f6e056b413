------------------------------ MODULE Recorder ------------------------------
(* The writer thread of chunk.rs: the loop of record(), which turns a stream  *)
(* of captured batches into chunk files, splits the recording into sessions   *)
(* at midnight and after a long quiet stretch, and reports every kept chunk   *)
(* to meta.json, the index and the transcription queue.                       *)
(*                                                                            *)
(* One iteration of the loop is four steps, told apart by pc:                 *)
(*   read      take whole frames from the ring, read the clock, ask the VAD   *)
(*   rollover  end the session, begin the next one, or neither                *)
(*   retire    (only after a rollover) close the old session's chunk and row  *)
(*   feed      run the chunker, open a chunk, write or hold the batch         *)
(*   cut       close the chunk when the chunker says so                       *)
(* The other actor is the UI, which raises the StopFlag at any moment.  A     *)
(* frame of audio is its position in the stream, heard says when each was     *)
(* read and whether the VAD called it speech; a directory is named by the     *)
(* second its session began.  How the ring hands over frames is Ring.         *)
EXTENDS Chunker

CONSTANTS
    PrerollCap,     \* frames kept before speech onset (200 ms)
    TailCap,        \* frames of silence kept after it (300 ms)
    MinChunk,       \* MIN_CHUNK: a shorter chunk is thrown away
    BatchSizes,     \* sizes of one read from the ring, in whole frames
    ClockSteps,     \* seconds the wall clock may advance between two reads
    StartTime,      \* when the recording starts
    Day,            \* seconds in a calendar day
    IdleRollover,   \* IDLE_ROLLOVER: this long without speech ends a session
    RetryDelay,     \* wait before a failed rollover is tried again
    Faults,         \* the failures that may happen, of FaultKinds
    NoChunk,        \* current when no chunk is open
    MaxHeard,       \* bound: frames in the whole stream
    MaxTime,        \* bound: the last second of the run
    MaxLeftover     \* bound: frames still read once the flag is up

FaultKinds == {"index", "rollover", "discard", "writer"}
DirNames == 0..MaxTime
Chunk == [index: Nat, offset: Nat, frames: Seq(Nat)]
Never == -1
Row == [row: BOOLEAN, ended: DirNames \cup {Never}, total: Nat, chunks: SUBSET Nat]
Job == [dir: DirNames, index: Nat]

ASSUME RecorderAssumption ==
    /\ PrerollCap \in Nat \ {0}
    /\ TailCap \in Nat \ {0}
    /\ MinChunk \in Nat
    /\ BatchSizes \subseteq Nat \ {0}
    /\ 1 \in BatchSizes
    /\ ClockSteps \subseteq Nat
    /\ Day \in Nat \ {0}
    /\ IdleRollover \in Nat \ {0}
    /\ RetryDelay \in Nat \ {0}
    /\ Faults \subseteq FaultKinds
    /\ NoChunk \notin Chunk
    /\ MaxHeard \in Nat
    /\ MaxTime \in Nat
    /\ MaxLeftover \in Nat
    /\ StartTime \in DirNames

(* The second held back from the size limit covers a pre-roll and a batch     *)
(* (200 ms and 4096 frames at 48 kHz), and the limit itself does too.         *)
ASSUME ReserveAssumption ==
    \A n \in BatchSizes : /\ PrerollCap + n <= Second + 1
                          /\ PrerollCap + n <= SizeLimit

VARIABLES
    pc,             \* where the writer is in its loop
    now,            \* the wall clock, as the writer last read it
    heard,          \* history: when each frame was read and what the VAD said
    batch,          \* buf: the frames of this iteration
    speech,         \* the verdict on this batch
    stop,           \* the StopFlag
    leftover,       \* frames still read after the flag went up
    chunker,        \* the Chunker
    cut,            \* what feed() returned
    current,        \* the open chunk
    preroll,        \* frames before the next chunk opens
    hold,           \* silence that may turn out to be the chunk's tail
    dir,            \* the session being written
    rolloverAt,     \* a session that hears speech from here on is over
    lastSpeechAt,   \* when speech was last heard
    idle,           \* the session ended for want of speech
    sessions,       \* Summary.sessions
    nextIndex, kept, sessionFrames, closedChunks,
    dirs,           \* session directories on disk
    meta,           \* the chunks each meta.json lists
    index,          \* the sessions table and its chunks
    jobs,           \* the transcription queue, as sent
    runts,          \* history: frames of discarded chunks
    begun           \* history: every session ever begun

audioVars   == <<chunker, cut, current, preroll, hold, nextIndex, sessionFrames>>
sessionVars == <<dir, rolloverAt, lastSpeechAt, idle, sessions, kept, closedChunks>>
storeVars   == <<dirs, meta, index, jobs, runts, begun>>
inputVars   == <<now, heard, batch, speech>>
stopVars    == <<stop, leftover>>
vars == <<pc, inputVars, stopVars, audioVars, sessionVars, storeVars>>

-----------------------------------------------------------------------------
(* Helpers.                                                                   *)

Elems(s) == {s[i] : i \in 1..Len(s)}
Outcomes(kind) == IF kind \in Faults THEN BOOLEAN ELSE {TRUE}

(* The first midnight strictly after t.                                       *)
NextMidnightDayLater(t) == t + Day
NextMidnightNotStrict(t) == IF t % Day = 0 THEN t ELSE (t \div Day + 1) * Day
NextMidnight(t) == (t \div Day + 1) * Day

NoRow == [row |-> FALSE, ended |-> Never, total |-> 0, chunks |-> {}]

(* Db::start_session: insert, or refresh the row and keep its chunks.         *)
StartRow(idx, d) == [idx EXCEPT ![d].row = TRUE]
(* Db::finish_session stamps the end and the total; no row, no effect.        *)
FinishRow(idx, d, n) ==
    IF idx[d].row THEN [idx EXCEPT ![d].ended = now, ![d].total = n] ELSE idx
(* Db::record_chunk: idempotent per index; no row, no effect.                 *)
RecordRow(idx, d, i) ==
    IF idx[d].row THEN [idx EXCEPT ![d].chunks = @ \cup {i}] ELSE idx
(* Db::delete_session cascades to the chunks.                                 *)
DeleteRow(idx, d) == [idx EXCEPT ![d] = NoRow]

IsRunt(chunk) == Len(chunk.frames) < MinChunk

(* write_samples: the chunk with more frames at its end.                      *)
Extend(chunk, more) ==
    [index |-> chunk.index, offset |-> chunk.offset, frames |-> chunk.frames \o more]
WithHold(chunk) == Extend(chunk, hold)

(* finish_chunk: a runt's file is removed; otherwise meta.json, then the      *)
(* index (best effort), then the transcription queue.                         *)
FinishChunk(chunk) ==
    IF IsRunt(chunk)
    THEN /\ runts' = runts \cup Elems(chunk.frames)
         /\ UNCHANGED <<kept, meta, index, jobs>>
    ELSE /\ kept' = kept + 1
         /\ meta' = [meta EXCEPT ![dir] = Append(@, chunk)]
         /\ \E ok \in Outcomes("index") :
                index' = IF ok THEN RecordRow(index, dir, chunk.index) ELSE index
         /\ jobs' = Append(jobs, [dir |-> dir, index |-> chunk.index])
         /\ UNCHANGED runts

(* db.finish_session for the current session, best effort.                    *)
FinishSession(n) ==
    \E ok \in Outcomes("index") :
        index' = IF ok THEN FinishRow(index, dir, n) ELSE index

-----------------------------------------------------------------------------
Init ==
    /\ pc = "read"
    /\ now = StartTime /\ heard = <<>> /\ batch = <<>> /\ speech = FALSE
    /\ stop = FALSE /\ leftover = 0
    /\ chunker = NewChunker /\ cut = "None" /\ current = NoChunk
    /\ preroll = <<>> /\ hold = <<>>
    /\ nextIndex = 0 /\ sessionFrames = 0 /\ kept = 0 /\ closedChunks = 0
    /\ dir = StartTime /\ rolloverAt = NextMidnight(StartTime)
    /\ lastSpeechAt = StartTime /\ idle = FALSE
    /\ sessions = <<StartTime>>
    /\ dirs = {StartTime}
    /\ meta = [d \in DirNames |-> <<>>]
    /\ \E ok \in Outcomes("index") :
           index = [d \in DirNames |->
                      IF ok /\ d = StartTime THEN [NoRow EXCEPT !.row = TRUE]
                                             ELSE NoRow]
    /\ jobs = <<>> /\ runts = {} /\ begun = {StartTime}

(* Positions of the next n frames of the stream.                              *)
NextFrames(n) == [i \in 1..n |-> Len(heard) + i]

(* Read a batch, then the clock, then the VAD.  Once the flag is up the ring  *)
(* is read until it is found empty.                                           *)
ReadBatch(n, spoken, step) ==
    /\ pc = "read"
    /\ Len(heard) + n <= MaxHeard
    /\ now + step <= MaxTime
    /\ stop => n <= leftover
    /\ leftover' = IF stop THEN leftover - n ELSE leftover
    /\ now' = now + step
    /\ batch' = NextFrames(n)
    /\ speech' = spoken
    /\ heard' = heard \o [i \in 1..n |-> [at |-> now', speech |-> spoken]]
    /\ lastSpeechAt' = IF spoken THEN now' ELSE lastSpeechAt
    /\ pc' = "rollover"
    /\ UNCHANGED <<stop, audioVars, dir, rolloverAt, idle, sessions, kept,
                   closedChunks, storeVars>>

(* The first speech after the session ended begins the next one.              *)
RolloverDueAtMidnightOnly == speech /\ now >= rolloverAt
RolloverDue == speech /\ (idle \/ now >= rolloverAt)

(* Long enough with nobody talking, and no chunk open.                        *)
IdleDue ==
    ~speech /\ ~idle /\ current = NoChunk /\ now - lastSpeechAt >= IdleRollover

StayInSession ==
    /\ pc = "rollover" /\ ~RolloverDue /\ ~IdleDue
    /\ pc' = "feed"
    /\ UNCHANGED <<inputVars, stopVars, audioVars, sessionVars, storeVars>>

GoIdle ==
    /\ pc = "rollover" /\ IdleDue
    /\ IF kept > 0 THEN FinishSession(kept) ELSE UNCHANGED index
    /\ idle' = TRUE
    /\ pc' = "feed"
    /\ UNCHANGED <<inputVars, stopVars, audioVars, dir, rolloverAt, lastSpeechAt,
                   sessions, kept, closedChunks, dirs, meta, jobs, runts, begun>>

(* The next session could not be started (no directory, or no meta.json in    *)
(* it): keep recording into the old one and try again after RetryDelay.       *)
RetryAtOnce == now
RetryAt == now + RetryDelay
RolloverFails ==
    /\ pc = "rollover" /\ RolloverDue
    /\ "rollover" \in Faults
    /\ dirs' \in {dirs, dirs \cup {now}}
    /\ idle' = FALSE
    /\ rolloverAt' = RetryAt
    /\ pc' = "feed"
    /\ UNCHANGED <<inputVars, stopVars, audioVars, dir, lastSpeechAt, sessions,
                   kept, closedChunks, meta, index, jobs, runts, begun>>

(* begin_session for the new directory, before the old one is touched: a      *)
(* fresh meta.json replaces whatever the directory held.                      *)
BeginNext ==
    /\ pc = "rollover" /\ RolloverDue
    /\ dirs' = dirs \cup {now}
    /\ meta' = [meta EXCEPT ![now] = <<>>]
    /\ \E ok \in Outcomes("index") :
           index' = IF ok THEN StartRow(index, now) ELSE index
    /\ pc' = "retire"
    /\ UNCHANGED <<inputVars, stopVars, audioVars, sessionVars, jobs, runts, begun>>

(* After BeginNext, first the chunk still open, into the old directory; the   *)
(* tail of silence goes with it.                                              *)
RetireChunk ==
    /\ pc = "retire" /\ current # NoChunk
    /\ FinishChunk(WithHold(current))
    /\ current' = NoChunk
    /\ UNCHANGED <<pc, inputVars, stopVars, chunker, cut, preroll, hold, nextIndex,
                   sessionFrames, dir, rolloverAt, lastSpeechAt, idle, sessions,
                   closedChunks, dirs, begun>>

(* discard_empty_session: nothing at all when the directory holds more than   *)
(* meta.json, else the index row and the directory.  A directory that stays   *)
(* stays in the summary too; the one that goes was pushed last, so retain     *)
(* drops the last.                                                            *)
DiscardEmptySession ==
    \E onlyMeta \in Outcomes("discard"), removed \in Outcomes("discard"),
       ok \in Outcomes("index") :
        /\ index' = IF onlyMeta /\ ok THEN DeleteRow(index, dir) ELSE index
        /\ IF onlyMeta /\ removed
           THEN /\ dirs' = dirs \ {dir}
                /\ sessions' = Append(SubSeq(sessions, 1, Len(sessions) - 1), now)
           ELSE UNCHANGED dirs /\ sessions' = Append(sessions, now)

(* A session that went idle was finished then.                                *)
CloseOldSessionAgain ==
    /\ FinishSession(kept)
    /\ sessions' = Append(sessions, now)
    /\ UNCHANGED dirs
CloseOldSession ==
    /\ IF idle THEN UNCHANGED index ELSE FinishSession(kept)
    /\ sessions' = Append(sessions, now)
    /\ UNCHANGED dirs

(* No sample heard before a boundary is written after it.                     *)
ClearHoldOnly == hold' = <<>> /\ UNCHANGED preroll
ClearBuffers == hold' = <<>> /\ preroll' = <<>>

(* The counters of the new session, which starts from nothing.                *)
SwitchKeepingDir ==
    /\ UNCHANGED dir /\ rolloverAt' = NextMidnight(now) /\ idle' = FALSE
    /\ nextIndex' = 0 /\ kept' = 0 /\ sessionFrames' = 0
    /\ closedChunks' = closedChunks + kept
SwitchForgettingClosed ==
    /\ dir' = now /\ rolloverAt' = NextMidnight(now) /\ idle' = FALSE
    /\ nextIndex' = 0 /\ kept' = 0 /\ sessionFrames' = 0
    /\ UNCHANGED closedChunks
SwitchKeepingIdle ==
    /\ dir' = now /\ rolloverAt' = NextMidnight(now) /\ UNCHANGED idle
    /\ nextIndex' = 0 /\ kept' = 0 /\ sessionFrames' = 0
    /\ closedChunks' = closedChunks + kept
Switch ==
    /\ dir' = now /\ rolloverAt' = NextMidnight(now) /\ idle' = FALSE
    /\ nextIndex' = 0 /\ kept' = 0 /\ sessionFrames' = 0
    /\ closedChunks' = closedChunks + kept

(* Then the old session, and the switch to the new one.                       *)
RetireSession ==
    /\ pc = "retire" /\ current = NoChunk
    /\ IF kept = 0 THEN DiscardEmptySession ELSE CloseOldSession
    /\ ClearBuffers
    /\ Switch
    /\ begun' = begun \cup {now}
    /\ chunker' = ResetAfterCut(chunker)
    /\ pc' = "feed"
    /\ UNCHANGED <<inputVars, stopVars, cut, current, lastSpeechAt, meta, jobs, runts>>

-----------------------------------------------------------------------------
(* Feed: while no chunk is open the pre-roll follows the stream, the batch    *)
(* being fed included; a chunk that opens is seeded with it.                  *)
PrerollNow ==
    IF current = NoChunk THEN KeepLast(preroll, batch, PrerollCap) ELSE preroll

OpenChunk(c) ==
    IF c.open /\ current = NoChunk
    THEN [index |-> nextIndex, offset |-> sessionFrames, frames |-> PrerollNow]
    ELSE current

(* Speech lets the held silence through and follows it; silence is held.      *)
WrittenUnlessOpened(chunk) ==
    IF speech /\ current # NoChunk THEN Extend(chunk, hold \o batch) ELSE chunk
Written(chunk) == IF speech THEN Extend(chunk, hold \o batch) ELSE chunk

Feed ==
    /\ pc = "feed"
    /\ LET fed == Fed(chunker, speech, Len(batch))
           oc  == OpenChunk(fed)
       IN  /\ chunker' = fed
           /\ cut' = CutOf(fed)
           /\ IF oc = NoChunk
              THEN UNCHANGED <<current, hold>>
              ELSE /\ current' = Written(oc)
                   /\ hold' = IF speech THEN <<>> ELSE KeepLast(hold, batch, TailCap)
    /\ preroll' = PrerollNow
    /\ sessionFrames' = sessionFrames + Len(batch)
    /\ pc' = "cut"
    /\ UNCHANGED <<inputVars, stopVars, nextIndex, sessionVars, storeVars>>

NoCut ==
    /\ pc = "cut" /\ cut = "None"
    /\ pc' = "read"
    /\ UNCHANGED <<inputVars, stopVars, audioVars, sessionVars, storeVars>>

(* A cut for silence keeps the tail, a cut at a cap drops it.  A cut always   *)
(* has a chunk to close: the chunker is open only while one is.               *)
Closing == IF cut = "Silence" THEN WithHold(current) ELSE current

IndexAfterCutByKept == kept
IndexAfterCut == nextIndex + 1
CutChunk ==
    /\ pc = "cut" /\ cut # "None" /\ current # NoChunk
    /\ FinishChunk(Closing)
    /\ current' = NoChunk
    /\ ClearBuffers
    /\ nextIndex' = IndexAfterCut
    /\ chunker' = ResetAfterCut(chunker)
    /\ pc' = "read"
    /\ UNCHANGED <<inputVars, stopVars, cut, sessionFrames, dir, rolloverAt,
                   lastSpeechAt, idle, sessions, closedChunks, dirs, begun>>

-----------------------------------------------------------------------------
(* The loop ends when the flag is up and the ring is empty.                   *)
LeaveLoop ==
    /\ pc = "read" /\ stop /\ leftover = 0
    /\ pc' = "ending"
    /\ UNCHANGED <<inputVars, stopVars, audioVars, sessionVars, storeVars>>

CloseLast ==
    /\ pc = "ending" /\ current # NoChunk
    /\ FinishChunk(WithHold(current))
    /\ current' = NoChunk
    /\ UNCHANGED <<pc, inputVars, stopVars, chunker, cut, preroll, hold, nextIndex,
                   sessionFrames, dir, rolloverAt, lastSpeechAt, idle, sessions,
                   closedChunks, dirs, begun>>

EndSession ==
    /\ pc = "ending" /\ current = NoChunk
    /\ IF idle THEN UNCHANGED index ELSE FinishSession(kept)
    /\ pc' = "done"
    /\ UNCHANGED <<inputVars, stopVars, audioVars, sessionVars, dirs, meta, jobs, runts, begun>>

(* Every other file operation is fallible and its error leaves record() at    *)
(* once: the chunk that was open stays on disk as it is, unlisted.            *)
WriterFails ==
    /\ "writer" \in Faults
    /\ \/ pc \in {"retire", "ending"} /\ current # NoChunk
       \/ pc = "feed" /\ speech
       \/ pc = "cut" /\ cut # "None"
    /\ pc' = "failed"
    /\ UNCHANGED <<inputVars, stopVars, audioVars, sessionVars, storeVars>>

(* The quit key.  The writer reads on until the ring is empty: what is in it, *)
(* and what still arrives before main stops capture.                          *)
StopRecording ==
    /\ ~stop
    /\ stop' = TRUE
    /\ leftover' \in {k \in 0..MaxLeftover : Len(heard) + k <= MaxHeard}
    /\ UNCHANGED <<pc, inputVars, audioVars, sessionVars, storeVars>>

Terminated ==
    /\ pc \in {"done", "failed"} /\ stop
    /\ UNCHANGED vars

Read == \E n \in BatchSizes, spoken \in BOOLEAN, step \in ClockSteps :
            ReadBatch(n, spoken, step)

Writer ==
    \/ Read
    \/ StayInSession \/ GoIdle \/ RolloverFails \/ BeginNext
    \/ RetireChunk \/ RetireSession
    \/ Feed \/ NoCut \/ CutChunk
    \/ LeaveLoop \/ CloseLast \/ EndSession
    \/ WriterFails

Next == Writer \/ StopRecording \/ Terminated

Spec == Init /\ [][Next]_vars

-----------------------------------------------------------------------------
(* Properties.                                                                *)

Frames == 1..Len(heard)
InFlight ==
    IF pc \in {"rollover", "retire", "feed", "failed"} THEN Elems(batch) ELSE {}
FramesOf(d) == UNION {Elems(meta[d][k].frames) : k \in 1..Len(meta[d])}

(* The session under way when the frame was read: the last to begin by then.  *)
SessionOf(i) ==
    CHOOSE d \in begun :
        d <= heard[i].at /\ \A e \in begun : e <= heard[i].at => e <= d

(* Every variable stays in its domain, the positions kept anywhere are        *)
(* positions in the stream, and the session being written is the last of the  *)
(* summary (record).                                                          *)
TypeOK ==
    /\ pc \in {"read", "rollover", "retire", "feed", "cut", "ending", "done", "failed"}
    /\ now \in DirNames
    /\ heard \in Seq([at: DirNames, speech: BOOLEAN])
    /\ batch \in Seq(Nat) /\ speech \in BOOLEAN
    /\ stop \in BOOLEAN /\ leftover \in Nat
    /\ chunker \in ChunkerState /\ cut \in {"None", "Silence", "HardCap"}
    /\ current \in Chunk \cup {NoChunk}
    /\ preroll \in Seq(Nat) /\ hold \in Seq(Nat)
    /\ dir \in DirNames /\ rolloverAt \in Nat
    /\ lastSpeechAt \in DirNames /\ idle \in BOOLEAN
    /\ sessions \in Seq(DirNames)
    /\ Len(sessions) > 0 /\ sessions[Len(sessions)] = dir
    /\ nextIndex \in Nat /\ kept \in Nat /\ sessionFrames \in Nat
    /\ closedChunks \in Nat
    /\ dirs \subseteq DirNames
    /\ meta \in [DirNames -> Seq(Chunk)]
    /\ index \in [DirNames -> Row]
    /\ jobs \in Seq(Job)
    /\ runts \subseteq Nat /\ begun \subseteq DirNames

(* No spoken frame is ever lost: once its batch is written, a frame with      *)
(* speech is in a kept chunk of the session under way when it was read, in    *)
(* the open chunk of that session, or in a chunk discarded as too short.      *)
(* Cuts, rollovers, retried rollovers and failures included (record).         *)
SpeechIsFiled ==
    \A i \in Frames \ InFlight :
        heard[i].speech =>
            \/ i \in runts
            \/ i \in FramesOf(SessionOf(i))
            \/ /\ current # NoChunk
               /\ i \in Elems(current.frames)
               /\ dir = SessionOf(i)

(* A frame of the stream is in one kept chunk at most, and chunks follow each *)
(* other in the order they were spoken: the buffers carried over a cut or a   *)
(* rollover never leak audio from one chunk, or one session, to the next.     *)
ChunksInOrder ==
    \A d, e \in DirNames : \A k \in 1..Len(meta[d]), m \in 1..Len(meta[e]) :
        (d < e \/ (d = e /\ k < m)) =>
            \A i \in Elems(meta[d][k].frames), j \in Elems(meta[e][m].frames) : i < j

(* A kept chunk hugs its talk: no more silence before its first spoken frame  *)
(* than the pre-roll holds, and none after its last beyond the tail.          *)
Spoken(chunk) == {k \in 1..Len(chunk.frames) : heard[chunk.frames[k]].speech}
ChunksHugSpeech ==
    \A d \in DirNames : \A k \in 1..Len(meta[d]) :
        LET c == meta[d][k]
        IN  /\ \E p \in Spoken(c) : p <= PrerollCap + 1
            /\ \E p \in Spoken(c) : p >= Len(c.frames) - TailCap

(* No file outgrows what the transcription model accepts: the reserve of a    *)
(* second covers the pre-roll, the tail and the batch that crosses the limit  *)
(* (Chunker::new, max_chunk_bytes).                                           *)
ChunkFitsLimit ==
    /\ current # NoChunk => Len(current.frames) <= SizeLimit
    /\ \A d \in DirNames : \A k \in 1..Len(meta[d]) : Len(meta[d][k].frames) <= SizeLimit

(* The file the writer would open next is one no meta.json lists: a reset or  *)
(* repeated index would truncate audio already queued for transcription.      *)
NextFileIsNew ==
    pc \in {"read", "feed", "cut"} => \A k \in 1..Len(meta[dir]) :
        /\ meta[dir][k].index < nextIndex
        /\ current # NoChunk => meta[dir][k].index < current.index

(* What meta.json lists it lists forever: no step shortens or rewrites the    *)
(* list, so a session never starts in a directory that was used before        *)
(* (begin_session overwrites the file).                                       *)
Prolongs(new, old) == Len(new) >= Len(old) /\ SubSeq(new, 1, Len(old)) = old
KeptForever == [][\A d \in DirNames : Prolongs(meta'[d], meta[d])]_vars

(* The writer implements SessionLog: whatever the chunker, the buffers and    *)
(* the failures do, speech reaches the log of the session under way a stretch *)
(* at a time, once, in order, and a session begins with nothing left over.    *)
SpokenOf(positions) == {i \in positions : heard[i].speech}
LogKept == [d \in DirNames |-> SpokenOf(FramesOf(d))]
LogPending == IF current = NoChunk THEN {} ELSE SpokenOf(Elems(current.frames))
LogDropped == SpokenOf(runts)
Log == INSTANCE SessionLog WITH
    Names <- DirNames, First <- StartTime,
    session <- dir, log <- LogKept, pending <- LogPending, dropped <- LogDropped
LogsSpeech == Log!Spec

(* The directory of a rollover is new: names have the resolution of a second  *)
(* and a failed rollover may leave one behind (session_dir, begin_session).   *)
FreshDirectory == pc = "rollover" /\ RolloverDue => now \notin dirs

(* The summary main compresses and uploads from is complete: it names every   *)
(* session that kept a chunk, and counts every chunk sent to transcription.   *)
SummaryComplete ==
    pc = "done" =>
        /\ \A d \in DirNames : meta[d] # <<>> => d \in Elems(sessions)
        /\ closedChunks + kept = Len(jobs)
        /\ \A k, m \in 1..Len(sessions) : k < m => sessions[k] < sessions[m]

(* While the index works, a session that kept audio ends up ended, with       *)
(* exactly the chunks of its meta.json and their number, however often it     *)
(* was finished on the way (idle, then continued by a failed rollover).       *)
IndexAgrees ==
    pc = "done" /\ "index" \notin Faults => \A d \in DirNames : meta[d] # <<>> =>
        /\ index[d].row /\ index[d].ended # Never
        /\ index[d].total = Len(meta[d])
        /\ index[d].chunks = {meta[d][k].index : k \in 1..Len(meta[d])}

(* Each calendar day is logged on its own: unless a rollover fails, what a    *)
(* session keeps was spoken on the day it began (next_midnight), however long *)
(* the machine slept.                                                         *)
DaysAreSeparate ==
    "rollover" \notin Faults => \A d \in DirNames : \A i \in FramesOf(d) :
        heard[i].speech => heard[i].at \div Day = d \div Day

(* Nobody talks from frame i, or the start of the recording, up to frame m:   *)
(* long enough for a chunk to be cut by frame k, read before m, and for       *)
(* IDLE_ROLLOVER to have passed when m was read.                              *)
Talk == {0} \cup {i \in Frames \ InFlight : heard[i].speech}
SpokenAt(i) == IF i = 0 THEN StartTime ELSE heard[i].at
LongQuiet(i, k, m) ==
    /\ i + SilenceToCut <= k /\ \A q \in i+1..m : ~heard[q].speech
    /\ heard[k].at < heard[m].at
    /\ SpokenAt(i) + IdleRollover <= heard[m].at

(* The conversation after such a quiet is another session, whatever the clock *)
(* does meanwhile: one begins after the talk before it, and no later than the *)
(* talk that ends it.  A rollover that fails takes back the end of a session. *)
IdleGapSplits ==
    "rollover" \notin Faults =>
        \A i, j \in Talk : \A k, m \in (i+1..j-1) \ InFlight :
            k < m /\ LongQuiet(i, k, m) =>
                \E d \in begun : SpokenAt(i) < d /\ d <= heard[j].at

(* A session's end is stamped when the talking stopped, not when the next     *)
(* talk begins or the recorder quits: no earlier than anything said in it,    *)
(* and no later than the moment the quiet after that had lasted IDLE_ROLLOVER.*)
SpokenIn(i, d) ==
    d <= SpokenAt(i) /\ \A e \in begun : e <= SpokenAt(i) => e <= d
EndStampNearTalk ==
    "rollover" \notin Faults =>
        \A d \in begun, i \in Talk :
            index[d].ended # Never /\ SpokenIn(i, d) =>
                /\ SpokenAt(i) <= index[d].ended
                /\ \A k, m \in Frames \ InFlight :
                       k < m /\ LongQuiet(i, k, m) => index[d].ended <= heard[m].at
=============================================================================
