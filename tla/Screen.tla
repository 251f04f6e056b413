------------------------------- MODULE Screen -------------------------------
(* What the terminal shows (ui.rs) of what the writer and the transcriber do. *)
(* Both send statuses into one channel whenever they like; the UI drains it,  *)
(* draws, and waits a tick for a key.  Only the statuses that say where a     *)
(* recording stands are modelled: Level, Silence and Overrun set a meter each *)
(* and nothing else.  A chunk is <<session, index>>, sessions are numbered (a  *)
(* row of the screen shows only the index); when the writer cuts and rolls    *)
(* over is Recorder's business.                                               *)
EXTENDS Naturals, Sequences, SequencesExt

CONSTANTS
    ChunkHistory,       \* CHUNK_HISTORY
    TranscriptHistory,  \* TRANSCRIPT_HISTORY
    MaxLines,           \* bound: lines of a chunk's transcript
    MaxChunks,          \* bound: chunks opened in the run
    MaxSession,         \* bound: the last session
    MaxPauses,          \* bound: idle stretches and failed rollovers
    MaxBehind,          \* bound: statuses the UI has not read yet
    Faults,             \* the failures that may happen, of FaultKinds
    None

FaultKinds == {"rollover", "whisper", "model", "writer"}

ASSUME ScreenAssumption ==
    /\ ChunkHistory \in Nat \ {0} /\ TranscriptHistory \in Nat \ {0}
    /\ MaxLines \in Nat /\ MaxChunks \in Nat /\ MaxSession \in Nat /\ MaxPauses \in Nat
    /\ MaxBehind \in Nat \ {0}
    /\ Faults \subseteq FaultKinds
    /\ None \notin Nat \cup (Nat \X Nat)

Chunk == Nat \X Nat
Line == [chunk: Chunk, n: Nat]
Kinds == {"ChunkOpened", "ChunkClosed", "ChunkDiscarded", "SessionStarted",
          "SessionIdle", "Warning", "Finished", "TranscribeStarted", "Transcript",
          "TranscribeDone", "TranscribeFailed", "TranscribeBacklog"}

VARIABLES
    writer,         \* where the writer is
    closing,        \* why it closes a chunk
    ses, next,      \* its session, and the index of the open or next chunk
    open,           \* whether a chunk is open
    idle,           \* its session ended for want of speech
    closed,         \* history: the chunks it closed in this session
    jobs, queue,    \* jobs sent, and those the transcriber has taken in
    asr, job,       \* where the transcriber is, and the chunk it works on
    read,           \* history: the chunks with lines, as they were sent
    done,           \* history: the chunks it has transcribed
    channel,        \* the statuses on their way
    app,            \* App
    ui, stop,       \* where the UI is, the StopFlag
    unannounced,    \* history: idleness was left without a status
    opened, pauses

writerVars == <<writer, closing, ses, next, open, idle, closed, unannounced, opened, pauses>>
asrVars    == <<queue, asr, job, read, done>>
uiVars     == <<app, ui, stop>>
vars == <<writerVars, jobs, asrVars, channel, uiVars>>

Fails(kind) == kind \in Faults

(* tx.send: into nothing once the UI has returned and dropped the receiver.   *)
Tells(kind, what) ==
    IF ui = "off"
    THEN UNCHANGED channel
    ELSE /\ Len(channel) < MaxBehind
         /\ channel' = Append(channel, [kind |-> kind, what |-> what])

NewApp == [session |-> 0, idle |-> FALSE, current |-> 0, chunks |-> <<>>,
           warned |-> FALSE, finished |-> FALSE, transcribing |-> None, backlog |-> 0,
           transcribed |-> <<>>, transcript |-> <<>>]

Init ==
    /\ writer = "loop" /\ closing = None /\ ses = 0 /\ next = 0 /\ open = FALSE /\ idle = FALSE
    /\ closed = <<>> /\ unannounced = FALSE /\ opened = 0 /\ pauses = 0
    /\ jobs = <<>> /\ queue = <<>> /\ asr = "loading" /\ job = None /\ read = <<>> /\ done = <<>>
    /\ channel = <<>>
    /\ app = NewApp /\ ui = "drain" /\ stop = FALSE

-----------------------------------------------------------------------------
(* The writer.                                                                *)

(* Speech, with no chunk open and the session's beginning settled.            *)
OpenChunk ==
    /\ writer = "loop" /\ ~open /\ ~idle /\ opened < MaxChunks
    /\ open' = TRUE /\ opened' = opened + 1
    /\ Tells("ChunkOpened", <<ses, next>>)
    /\ UNCHANGED <<writer, closing, ses, next, idle, closed, unannounced, pauses, jobs, asrVars, uiVars>>

(* finish_chunk, for a cut, a rollover or the end.  A kept chunk's job is     *)
(* sent before the UI hears that it was closed.                               *)
After(why) == IF why = "cut" THEN "loop" ELSE why
IndexAfter(why) == IF why = "cut" THEN next + 1 ELSE next
Discard(why) ==
    /\ writer = "loop" /\ open /\ open' = FALSE /\ UNCHANGED closing
    /\ Tells("ChunkDiscarded", <<ses, next>>)
    /\ writer' = After(why) /\ next' = IndexAfter(why)
    /\ UNCHANGED <<ses, idle, closed, unannounced, opened, pauses, jobs, asrVars, uiVars>>
SendJob(why) ==
    /\ writer = "loop" /\ open /\ open' = FALSE
    /\ jobs' = Append(jobs, <<ses, next>>)
    /\ writer' = "closing" /\ closing' = why
    /\ UNCHANGED <<ses, next, idle, closed, unannounced, opened, pauses, asrVars, channel, uiVars>>
SayClosed(why) ==
    /\ writer = "closing" /\ closing = why /\ closing' = None
    /\ closed' = Append(closed, <<ses, next>>)
    /\ Tells("ChunkClosed", <<ses, next>>)
    /\ writer' = After(why) /\ next' = IndexAfter(why)
    /\ UNCHANGED <<ses, open, idle, unannounced, opened, pauses, jobs, asrVars, uiVars>>

(* The old session is over: by way of its last chunk if one was open.         *)
MayRollOver == ses < MaxSession
StartSession ==
    /\ writer = "rollover" \/ (writer = "loop" /\ ~open)
    /\ MayRollOver
    /\ ses' = ses + 1 /\ next' = 0 /\ idle' = FALSE /\ closed' = <<>>
    /\ unannounced' = FALSE
    /\ Tells("SessionStarted", ses')
    /\ writer' = "loop"
    /\ UNCHANGED <<closing, open, opened, pauses, jobs, asrVars, uiVars>>

(* The next session cannot be made: the old one goes on, idle or not.         *)
FailedRollover ==
    /\ writer = "loop" /\ Fails("rollover") /\ pauses < MaxPauses
    /\ idle' = FALSE /\ unannounced' = (unannounced \/ idle)
    /\ pauses' = pauses + 1
    /\ Tells("Warning", None)
    /\ UNCHANGED <<writer, closing, ses, next, open, closed, opened, jobs, asrVars, uiVars>>

GoIdle ==
    /\ writer = "loop" /\ ~open /\ ~idle /\ pauses < MaxPauses
    /\ idle' = TRUE /\ unannounced' = FALSE
    /\ pauses' = pauses + 1
    /\ Tells("SessionIdle", None)
    /\ UNCHANGED <<writer, closing, ses, next, open, closed, opened, jobs, asrVars, uiVars>>

(* The flag is up and the ring is empty; the last chunk is closed first.      *)
Finish ==
    /\ writer = "ending" \/ (writer = "loop" /\ stop /\ ~open)
    /\ writer' = "done"
    /\ Tells("Finished", None)
    /\ UNCHANGED <<closing, ses, next, open, idle, closed, unannounced, opened, pauses, jobs,
                   asrVars, uiVars>>

(* A file operation's error ends the thread; nobody is told.                  *)
WriterFails ==
    /\ writer = "loop" /\ open /\ Fails("writer")
    /\ writer' = "failed"
    /\ UNCHANGED <<closing, ses, next, open, idle, closed, unannounced, opened, pauses, jobs,
                   asrVars, channel, uiVars>>

Reasons == {"cut"} \cup (IF MayRollOver THEN {"rollover"} ELSE {})
                   \cup (IF stop THEN {"ending"} ELSE {})
Writer ==
    \/ OpenChunk
    \/ \E why \in Reasons : Discard(why) \/ SendJob(why)
    \/ \E why \in {"cut", "rollover", "ending"} : SayClosed(why)
    \/ StartSession \/ FailedRollover \/ GoIdle \/ Finish \/ WriterFails

-----------------------------------------------------------------------------
(* The transcriber.                                                           *)

LoadModel ==
    /\ asr = "loading"
    /\ asr' = "wait" \/ (Fails("model") /\ asr' = "gone")
    /\ UNCHANGED <<writerVars, jobs, queue, job, read, done, channel, uiVars>>

(* All jobs that have come are taken in; the first is worked on.              *)
TakeJob ==
    /\ asr = "wait" /\ queue \o jobs # <<>>
    /\ job' = Head(queue \o jobs) /\ queue' = Tail(queue \o jobs)
    /\ jobs' = <<>>
    /\ asr' = "work"
    /\ Tells("TranscribeStarted", job')
    /\ UNCHANGED <<writerVars, read, done, uiVars>>

(* No lines are no status.                                                    *)
Recognize(lines) ==
    /\ asr = "work"
    /\ asr' = "lines"
    /\ IF lines = 0
       THEN UNCHANGED <<channel, read>>
       ELSE /\ Tells("Transcript", [n \in 1..lines |-> [chunk |-> job, n |-> n]])
            /\ read' = Append(read, <<job, lines>>)
    /\ UNCHANGED <<writerVars, jobs, queue, job, done, uiVars>>
Done ==
    /\ asr = "lines"
    /\ asr' = "report"
    /\ done' = Append(done, job)
    /\ Tells("TranscribeDone", job)
    /\ UNCHANGED <<writerVars, jobs, queue, job, read, uiVars>>
(* meta.json cannot be read, or whisper fails.                                *)
Failed ==
    /\ asr = "work" /\ Fails("whisper")
    /\ asr' = "report"
    /\ Tells("TranscribeFailed", job)
    /\ UNCHANGED <<writerVars, jobs, queue, job, read, done, uiVars>>

(* What it has taken in and not begun.                                        *)
Pending == Len(queue)
Report ==
    /\ asr = "report"
    /\ asr' = "wait" /\ job' = None
    /\ Tells("TranscribeBacklog", Pending)
    /\ UNCHANGED <<writerVars, jobs, queue, read, done, uiVars>>

AsrReturns ==
    /\ asr = "wait" /\ queue \o jobs = <<>> /\ writer \in {"done", "failed"}
    /\ asr' = "gone"
    /\ UNCHANGED <<writerVars, jobs, queue, job, read, done, channel, uiVars>>

Transcriber ==
    \/ LoadModel \/ TakeJob \/ \E n \in 0..MaxLines : Recognize(n)
    \/ Done \/ Failed \/ Report \/ AsrReturns

-----------------------------------------------------------------------------
(* The UI.                                                                    *)

Newest(seq, bound) == SubSeq(seq, 1, IF Len(seq) < bound THEN Len(seq) ELSE bound)
Onto(x, seq) == <<x>> \o seq

(* App::apply, one definition for each status.                                *)
ApplyOpened(a, chunk) == [a EXCEPT !.current = chunk[2]]
ApplyClosed(a, chunk) == [a EXCEPT !.chunks = Newest(Onto(chunk, @), ChunkHistory)]
ApplySessionKeepingList(a, s) == [a EXCEPT !.session = s, !.idle = FALSE, !.current = 0]
ApplySessionKeepingIdle(a, s) == [a EXCEPT !.session = s, !.current = 0, !.chunks = <<>>]
ApplySession(a, s) ==
    [a EXCEPT !.session = s, !.idle = FALSE, !.current = 0, !.chunks = <<>>]
ApplyDone(a, chunk) ==
    [a EXCEPT !.transcribing = None, !.transcribed = Newest(Onto(chunk, @), ChunkHistory)]
ApplyFailedUnmarked(a) == [a EXCEPT !.warned = TRUE]
ApplyFailed(a) == [a EXCEPT !.transcribing = None, !.warned = TRUE]
(* Each line goes on top, the last first, so that a chunk reads downwards;    *)
(* the bound drops lines at the other end.                                    *)
ApplyTranscriptUpwards(a, lines) ==
    [a EXCEPT !.transcript = Newest(Reverse(lines) \o @, TranscriptHistory)]
ApplyTranscript(a, lines) ==
    [a EXCEPT !.transcript = Newest(lines \o @, TranscriptHistory)]

Applied(a, s) ==
    CASE s.kind = "ChunkOpened"       -> ApplyOpened(a, s.what)
      [] s.kind = "ChunkClosed"       -> ApplyClosed(a, s.what)
      [] s.kind = "ChunkDiscarded"    -> a
      [] s.kind = "SessionStarted"    -> ApplySession(a, s.what)
      [] s.kind = "SessionIdle"       -> [a EXCEPT !.idle = TRUE]
      [] s.kind = "Warning"           -> [a EXCEPT !.warned = TRUE]
      [] s.kind = "Finished"          -> [a EXCEPT !.finished = TRUE]
      [] s.kind = "TranscribeStarted" -> [a EXCEPT !.transcribing = s.what[2]]
      [] s.kind = "Transcript"        -> ApplyTranscript(a, s.what)
      [] s.kind = "TranscribeDone"    -> ApplyDone(a, s.what)
      [] s.kind = "TranscribeFailed"  -> ApplyFailed(a)
      [] s.kind = "TranscribeBacklog" -> [a EXCEPT !.backlog = s.what]

(* What is drawn of it, given room for all panes.                             *)
Header == [says |-> IF app.idle THEN "idle" ELSE "recording", session |-> app.session]
StatusLine == [chunk |-> app.current, transcribing |-> app.transcribing,
               queued |-> app.backlog]
(* The session's chunks, and under them what the transcriber has done.        *)
Rows(kind, chunks) == [j \in 1..Len(chunks) |-> [row |-> kind, chunk |-> chunks[j]]]
ChunkList == Rows("closed", app.chunks) \o Rows("transcribed", app.transcribed)
TranscriptText == app.transcript

Drain ==
    /\ ui = "drain" /\ channel # <<>>
    /\ app' = Applied(app, Head(channel)) /\ channel' = Tail(channel)
    /\ UNCHANGED <<writerVars, jobs, asrVars, ui, stop>>

(* The channel is empty: both senders may be gone.  The screen is drawn.      *)
Draw ==
    /\ ui = "drain" /\ channel = <<>>
    /\ app' = IF writer \in {"done", "failed"} /\ asr = "gone"
              THEN [app EXCEPT !.finished = TRUE] ELSE app
    /\ ui' = "poll"
    /\ UNCHANGED <<writerVars, jobs, asrVars, channel, stop>>

PollTick ==
    /\ ui = "poll" /\ ui' = "drain"
    /\ UNCHANGED <<writerVars, jobs, asrVars, channel, app, stop>>
(* q, Esc or Ctrl-C.                                                          *)
QuitKey ==
    /\ ui = "poll" /\ ui' = "off" /\ stop' = TRUE
    /\ channel' = <<>>
    /\ UNCHANGED <<writerVars, jobs, asrVars, app>>

UI == Drain \/ Draw \/ PollTick \/ QuitKey

(* Once all threads have returned.                                            *)
Over ==
    /\ ui = "off" /\ writer \in {"done", "failed"} /\ asr = "gone"
    /\ UNCHANGED vars

Next == Writer \/ Transcriber \/ UI \/ Over
Spec == Init /\ [][Next]_vars

-----------------------------------------------------------------------------
(* Properties.                                                                *)

(* Everything that was sent has been applied: what the next drawing shows.    *)
UpToDate == ui # "off" /\ channel = <<>>

(* The chunk pane: first the durability list of the session in the header,    *)
(* the chunks closed in it, newest first, none of the session before; then    *)
(* what the transcriber has done, newest first, the chunks of the session     *)
(* before included until newer ones push them out (App::apply, draw_chunks).  *)
ChunkPane ==
    UpToDate /\ writer \in {"loop", "done", "failed"} =>
        /\ Header.session = ses
        /\ ChunkList = Rows("closed", Newest(Reverse(closed), ChunkHistory))
                          \o Rows("transcribed", Newest(Reverse(done), ChunkHistory))
        /\ open => StatusLine.chunk = next

(* The transcript pane reads newest chunk first and downwards within a chunk, *)
(* with no line missing above another, across sessions, failures and the      *)
(* bound on its length (Status::Transcript, run).                             *)
Before(c, d) == c[1] < d[1] \/ (c[1] = d[1] /\ c[2] < d[2])
FirstLine(entry) == [chunk |-> entry[1], n |-> 1]
LastLine(entry) == [chunk |-> entry[1], n |-> entry[2]]
Under(x, y, rd) ==
    \E k \in 1..Len(rd) :
        \/ /\ x.chunk = rd[k][1] /\ x.n < rd[k][2]
           /\ y = [x EXCEPT !.n = @ + 1]
        \/ k > 1 /\ x = LastLine(rd[k]) /\ y = FirstLine(rd[k - 1])
(* A text of the first m chunks.                                              *)
ReadsDown(text, m, rd) ==
    /\ Len(text) <= TranscriptHistory
    /\ IF m = 0 THEN text = <<>>
       ELSE /\ text # <<>> /\ text[1] = FirstLine(rd[m])
            /\ Len(text) < TranscriptHistory => text[Len(text)] = LastLine(rd[1])
    /\ \A j \in 2..Len(text) : Under(text[j - 1], text[j], rd)
TranscriptPane ==
    /\ \A k, m \in 1..Len(read) : k < m => Before(read[k][1], read[m][1])
    /\ UpToDate => ReadsDown(TranscriptText, Len(read), read)

(* The status line names the chunk being transcribed while one is, and none   *)
(* and no backlog when the transcriber has nothing to do, failed chunks       *)
(* included (TranscribeFailed, TranscribeBacklog).                            *)
AsrShown ==
    UpToDate =>
        /\ asr = "work" => StatusLine.transcribing = job[2]
        /\ asr \in {"report", "wait", "gone"} => StatusLine.transcribing = None
        /\ asr = "wait" => StatusLine.queued = Len(queue)

(* The header says that a session is idle when it is, and when it says so it  *)
(* is, unless a rollover failed since: that sends a warning only, and the     *)
(* recorder goes on writing under the word "idle" (SessionIdle).              *)
IdleShown ==
    UpToDate => (Header.says = "idle" <=> idle \/ unannounced)
=============================================================================
