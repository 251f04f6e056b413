------------------------------ MODULE Pipeline ------------------------------
(* From a closed chunk to a searchable transcript, and how a recording ends.  *)
(* Four actors share the recordings directory and the SQLite index:           *)
(*   the writer (chunk.rs: finish_chunk, begin_session, discard_empty_session)*)
(*   the transcriber (transcribe.rs: run), fed by the job queue               *)
(*   main (main.rs), which joins them in order once the UI has returned       *)
(*   meetrs --reindex (db.rs: rebuild), another process that takes no lock    *)
(* Each file replacement and each SQL transaction is a step of its own, and   *)
(* the recorder may be killed between any two.  A chunk is <<session, index>>.*)
EXTENDS Integers, Sequences, FiniteSets

CONSTANTS
    Sessions,       \* the sessions of the run, in order; the first is 1
    MaxIndex,       \* bound: the last chunk index of a session
    Faults,         \* the failures that may happen, of FaultKinds
    MaxReindex,     \* bound: how often --reindex is run
    ReindexLive,    \* whether it may run beside a recording
    None

FaultKinds == {"index", "json", "text", "whisper", "model", "writer", "ui",
               "killed", "lost"}

ASSUME PipelineAssumption ==
    /\ Sessions \subseteq Nat /\ 1 \in Sessions
    /\ MaxIndex \in Nat /\ MaxReindex \in Nat
    /\ Faults \subseteq FaultKinds
    /\ ReindexLive \in BOOLEAN
    /\ None \notin Nat /\ None \notin Nat \X Nat

Chunks == Sessions \X (0..MaxIndex)

VARIABLES
    writer,         \* where the writer is
    ses, target,    \* its session, and the next one while it switches
    next,           \* the next chunk index
    meta,           \* the chunks listed by the meta.json of each session
    rows, ended,    \* index: sessions, and those with an end
    status,         \* index: the status of each chunk row
    queue,          \* jobs sent and not taken yet, by either queue
    asr,            \* where the transcriber is
    job,            \* the chunk it works on
    text,           \* SessionState: a session and the transcript so far
    json,           \* chunks with a chunk-NNN.json
    unsaved,        \* history: those whose chunk-NNN.json could not be written
    md,             \* what each transcript.md holds
    main,           \* where main is
    uiFailed,       \* outcome, once the UI has returned
    re, reTodo, reSes, reChunks, reChunk, reindexes, \* --reindex
    asked,          \* history: jobs sent
    told, gaveUp    \* history: jobs transcribed, in order, and jobs that failed

writerVars == <<writer, ses, target, next, asked>>
indexVars  == <<rows, ended, status>>
asrVars    == <<asr, job, text, json, unsaved, md, told, gaveUp>>
mainVars   == <<main, uiFailed>>
reVars     == <<re, reTodo, reSes, reChunks, reChunk, reindexes>>
vars == <<writerVars, meta, indexVars, queue, asrVars, mainVars, reVars>>

Outcomes(kind) == IF kind \in Faults THEN BOOLEAN ELSE {TRUE}
With(m, k, x) == [j \in DOMAIN m \cup {k} |-> IF j = k THEN x ELSE m[j]]
Live == main \notin {"exit", "error", "killed"}

(* Db: each is one transaction; without the row it needs it is an error.      *)
StartRow(s) == rows' = rows \cup {s}
FinishRow(s) ==
    IF s \in rows THEN ended' = ended \cup {s}
                  ELSE UNCHANGED ended
RecordChunk(c) ==
    status' = IF c[1] \in rows /\ c \notin DOMAIN status
              THEN With(status, c, "recorded") ELSE status
MarkChunk(c, as) ==
    status' = IF c \in DOMAIN status THEN With(status, c, as) ELSE status
DeleteRow(s) ==
    /\ rows' = rows \ {s} /\ ended' = ended \ {s}
    /\ status' = [c \in {d \in DOMAIN status : d[1] # s} |-> status[c]]

Init ==
    /\ writer = "idle" /\ ses = 1 /\ target = None /\ next = 0 /\ asked = <<>>
    /\ meta = [s \in {1} |-> {}]
    /\ \E ok \in Outcomes("index") : rows = IF ok THEN {1} ELSE {}
    /\ ended = {} /\ status = <<>>
    /\ queue = <<>>
    /\ asr = "loading" /\ job = None /\ text = [session |-> None, chunks |-> <<>>]
    /\ json = {} /\ unsaved = {} /\ md = <<>> /\ told = <<>> /\ gaveUp = {}
    /\ main = "running" /\ uiFailed = FALSE
    /\ re = "off" /\ reTodo = {} /\ reSes = None /\ reChunks = {}
    /\ reChunk = None /\ reindexes = 0

-----------------------------------------------------------------------------
(* The writer.                                                                *)

(* finish_chunk for a chunk worth keeping: meta.json first ...                *)
ListChunk ==
    /\ Live /\ writer = "idle" /\ next <= MaxIndex
    /\ meta' = [meta EXCEPT ![ses] = @ \cup {next}]
    /\ writer' = "listed"
    /\ UNCHANGED <<ses, target, next, asked, indexVars, queue, asrVars, mainVars, reVars>>

(* ... then the index, best effort ...                                        *)
IndexChunk ==
    /\ Live /\ writer = "listed"
    /\ \E ok \in Outcomes("index") :
           IF ok THEN RecordChunk(<<ses, next>>) ELSE UNCHANGED status
    /\ writer' = "indexed"
    /\ UNCHANGED <<ses, target, next, asked, meta, rows, ended, queue, asrVars,
                   mainVars, reVars>>

(* ... then the queue; a transcriber that is gone takes nothing.              *)
SendJob ==
    /\ Live /\ writer = "indexed"
    /\ asked' = Append(asked, <<ses, next>>)
    /\ queue' = IF asr = "broken" THEN queue ELSE Append(queue, <<ses, next>>)
    /\ next' = next + 1
    /\ writer' = "idle"
    /\ UNCHANGED <<ses, target, meta, indexVars, asrVars, mainVars, reVars>>

(* The next session, before the old one is retired.                           *)
BeginSession(s) ==
    /\ Live /\ writer = "idle" /\ target = None /\ s > ses
    /\ meta' = With(meta, s, {})
    /\ \E ok \in Outcomes("index") : IF ok THEN StartRow(s) ELSE UNCHANGED rows
    /\ target' = s
    /\ UNCHANGED <<writer, ses, next, asked, ended, status, queue, asrVars,
                   mainVars, reVars>>

MovedOn == ses' = target /\ target' = None /\ next' = 0

(* A session with chunks is finished ...                                      *)
NothingKept(s) == meta[s] = {}
RetireSession ==
    /\ Live /\ writer = "idle" /\ target # None /\ ~NothingKept(ses)
    /\ \E ok \in Outcomes("index") :
           IF ok THEN FinishRow(ses) ELSE UNCHANGED ended
    /\ MovedOn
    /\ UNCHANGED <<writer, asked, meta, rows, status, queue, asrVars, mainVars, reVars>>

(* ... one without is discarded: its row, then its directory.                 *)
DropRow ==
    /\ Live /\ writer = "idle" /\ target # None /\ NothingKept(ses)
    /\ \E ok \in Outcomes("index") :
           IF ok THEN DeleteRow(ses) ELSE UNCHANGED <<rows, ended, status>>
    /\ writer' = "dropping"
    /\ UNCHANGED <<ses, target, next, asked, meta, queue, asrVars, mainVars, reVars>>

DropDir ==
    /\ Live /\ writer = "dropping"
    /\ meta' = [s \in DOMAIN meta \ {ses} |-> meta[s]]
    /\ MovedOn
    /\ writer' = "idle"
    /\ UNCHANGED <<asked, indexVars, queue, asrVars, mainVars, reVars>>

(* The StopFlag is up: finish the session and return, dropping the sender.    *)
WriterReturns ==
    /\ Live /\ writer = "idle" /\ target = None /\ main # "running"
    /\ \E ok \in Outcomes("index") :
           IF ok THEN FinishRow(ses) ELSE UNCHANGED ended
    /\ writer' = "off"
    /\ UNCHANGED <<ses, target, next, asked, meta, rows, status, queue, asrVars,
                   mainVars, reVars>>

(* A file operation fails, and record() returns the error.                    *)
WriterFails ==
    /\ Live /\ "writer" \in Faults /\ writer = "idle"
    /\ writer' = "failed"
    /\ UNCHANGED <<ses, target, next, asked, meta, indexVars, queue, asrVars, mainVars,
                   reVars>>

-----------------------------------------------------------------------------
(* The transcriber.                                                           *)

LoadModel ==
    /\ Live /\ asr = "loading"
    /\ \E ok \in Outcomes("model") :
           /\ asr' = IF ok THEN "wait" ELSE "broken"
           /\ queue' = IF ok THEN queue ELSE <<>>
    /\ UNCHANGED <<job, text, json, unsaved, md, told, gaveUp, writerVars, meta, indexVars,
                   mainVars, reVars>>

(* session_for: a job from another directory starts its transcript afresh.    *)
KeepsText(s) == text
TextFor(s) == IF text.session = s THEN text ELSE [session |-> s, chunks |-> <<>>]

(* Take the next job and load its session's meta.json, which must be there.   *)
TakeJob ==
    /\ Live /\ asr = "wait" /\ queue # <<>>
    /\ LET c == Head(queue)
       IN  /\ text' = TextFor(c[1])
           /\ IF c[1] \in DOMAIN meta
              THEN job' = c /\ asr' = "infer" /\ UNCHANGED gaveUp
              ELSE gaveUp' = gaveUp \cup {c} /\ UNCHANGED <<job, asr>>
    /\ queue' = Tail(queue)
    /\ UNCHANGED <<json, unsaved, md, told, writerVars, meta, indexVars, mainVars, reVars>>

TranscribeUnsaved ==
    /\ Live /\ asr = "infer"
    /\ asr' = "index"
    /\ UNCHANGED <<job, text, json, unsaved, md, told, gaveUp, writerVars, meta,
                   indexVars, queue, mainVars, reVars>>
Transcribe ==
    /\ Live /\ asr = "infer"
    /\ asr' = "json"
    /\ UNCHANGED <<job, text, json, unsaved, md, told, gaveUp, writerVars, meta,
                   indexVars, queue, mainVars, reVars>>

(* process_job failed: only the index learns of it.                           *)
MarkFailed ==
    /\ Live /\ asr = "infer" /\ "whisper" \in Faults
    /\ \E ok \in Outcomes("index") :
           IF ok THEN MarkChunk(job, "failed") ELSE UNCHANGED status
    /\ gaveUp' = gaveUp \cup {job}
    /\ asr' = "wait" /\ job' = None
    /\ UNCHANGED <<text, json, unsaved, md, told, writerVars, meta, rows, ended, queue,
                   mainVars, reVars>>

(* Every sink is best effort: a failed one does not keep the next from being  *)
(* written.                                                                   *)
WriteJson ==
    /\ Live /\ asr = "json"
    /\ \E ok \in Outcomes("json") :
           IF ok THEN json' = json \cup {job} /\ UNCHANGED unsaved
                 ELSE unsaved' = unsaved \cup {job} /\ UNCHANGED json
    /\ asr' = "text"
    /\ UNCHANGED <<job, text, md, told, gaveUp, writerVars, meta,
                   indexVars, queue, mainVars, reVars>>

WriteText ==
    /\ Live /\ asr = "text"
    /\ text' = [text EXCEPT !.chunks = Append(@, job)]
    /\ \E ok \in Outcomes("text") :
           md' = IF ok THEN With(md, job[1], text'.chunks) ELSE md
    /\ told' = Append(told, job)
    /\ asr' = "index"
    /\ UNCHANGED <<job, json, unsaved, gaveUp, writerVars, meta, indexVars, queue,
                   mainVars, reVars>>

RecordSegments ==
    /\ Live /\ asr = "index"
    /\ \E ok \in Outcomes("index") :
           IF ok THEN MarkChunk(job, "transcribed") ELSE UNCHANGED status
    /\ asr' = "wait" /\ job' = None
    /\ UNCHANGED <<text, json, unsaved, md, told, gaveUp, writerVars, meta, rows, ended,
                   queue, mainVars, reVars>>

(* recv fails: the sender is gone and the queue is empty.                     *)
QueueClosed == writer \in {"off", "failed"}
QueueDrained == writer \in {"off", "failed"} /\ queue = <<>>
TranscriberSpins == Live /\ asr = "wait" /\ QueueDrained /\ UNCHANGED vars
TranscriberReturns ==
    /\ Live /\ asr = "wait" /\ QueueDrained
    /\ asr' = "off"
    /\ UNCHANGED <<job, text, json, unsaved, md, told, gaveUp, writerVars, meta,
                   indexVars, queue, mainVars, reVars>>

-----------------------------------------------------------------------------
(* main.                                                                      *)

UiReturns ==
    /\ main = "running"
    /\ main' = "joinWriter"
    /\ uiFailed' \in {~ok : ok \in Outcomes("ui")}
    /\ UNCHANGED <<writerVars, meta, indexVars, queue, asrVars, reVars>>

(* outcome? and write_result? leave main before the transcriber is joined.    *)
JoinWriter ==
    /\ main = "joinWriter" /\ writer \in {"off", "failed"}
    /\ main' = IF uiFailed \/ writer = "failed" THEN "error" ELSE "joinAsr"
    /\ UNCHANGED <<uiFailed, writerVars, meta, indexVars, queue, asrVars, reVars>>

JoinTranscriber ==
    /\ main = "joinAsr" /\ asr \in {"off", "broken"}
    /\ main' = "exit"
    /\ UNCHANGED <<uiFailed, writerVars, meta, indexVars, queue, asrVars, reVars>>

Killed ==
    /\ Live /\ "killed" \in Faults
    /\ main' = "killed"
    /\ UNCHANGED <<uiFailed, writerVars, meta, indexVars, queue, asrVars, reVars>>

-----------------------------------------------------------------------------
(* meetrs --reindex.                                                          *)

(* meetrs.db is lost, or deleted, when nobody uses it.                        *)
LoseIndex ==
    /\ "lost" \in Faults /\ ~Live /\ re = "off"
    /\ rows' = {} /\ ended' = {} /\ status' = <<>>
    /\ UNCHANGED <<writerVars, meta, queue, asrVars, mainVars, reVars>>

StartReindex ==
    /\ re \in {"off", "done"} /\ reindexes < MaxReindex /\ (ReindexLive \/ ~Live)
    /\ reindexes' = reindexes + 1
    /\ reTodo' = DOMAIN meta
    /\ re' = "dir"
    /\ UNCHANGED <<reSes, reChunks, reChunk, writerVars, meta, indexVars, queue, asrVars,
                   mainVars>>

(* Read one meta.json; a directory without one is passed over.                *)
ReadMeta ==
    /\ re = "dir" /\ reTodo # {}
    /\ \E s \in reTodo :
           /\ reTodo' = reTodo \ {s}
           /\ IF s \in DOMAIN meta
              THEN re' = "row" /\ reSes' = s /\ reChunks' = meta[s]
              ELSE UNCHANGED <<re, reSes, reChunks>>
    /\ UNCHANGED <<reChunk, reindexes, writerVars, meta, indexVars, queue, asrVars,
                   mainVars>>

UpsertRow ==
    /\ re = "row"
    /\ StartRow(reSes)
    /\ re' = "chunk"
    /\ UNCHANGED <<reTodo, reSes, reChunks, reChunk, reindexes, writerVars, meta, ended,
                   status, queue, asrVars, mainVars>>

(* Each listed chunk: its row, which keeps the status it has ...              *)
ReplaceChunk(c) == status' = IF c[1] \in rows THEN With(status, c, "recorded") ELSE status
UpsertChunkRow(c) == RecordChunk(c)
UpsertChunk ==
    /\ re = "chunk"
    /\ \E i \in reChunks :
           /\ reChunks' = reChunks \ {i} /\ reChunk' = <<reSes, i>>
           /\ UpsertChunkRow(reChunk')
    /\ re' = "segments"
    /\ UNCHANGED <<reTodo, reSes, reindexes, writerVars, meta, rows, ended,
                   queue, asrVars, mainVars>>

(* ... then its segments, when there is a chunk-NNN.json.                     *)
NoSegments(c) == UNCHANGED status
Segments(c) == IF c \in json THEN MarkChunk(c, "transcribed") ELSE UNCHANGED status
UpsertSegments ==
    /\ re = "segments"
    /\ Segments(reChunk)
    /\ re' = "chunk" /\ reChunk' = None
    /\ UNCHANGED <<reTodo, reSes, reChunks, reindexes, writerVars, meta, rows, ended,
                   queue, asrVars, mainVars>>

SessionDone ==
    /\ re = "chunk" /\ reChunks = {}
    /\ re' = "dir" /\ reSes' = None
    /\ UNCHANGED <<reTodo, reChunks, reChunk, reindexes, writerVars, meta, indexVars,
                   queue, asrVars, mainVars>>

ReindexDone ==
    /\ re = "dir" /\ reTodo = {}
    /\ re' = "done"
    /\ UNCHANGED <<reTodo, reSes, reChunks, reChunk, reindexes, writerVars, meta,
                   indexVars, queue, asrVars, mainVars>>

Terminated == ~Live /\ re \in {"off", "done"} /\ UNCHANGED vars

-----------------------------------------------------------------------------
Writer == ListChunk \/ IndexChunk \/ SendJob \/ (\E s \in Sessions : BeginSession(s))
          \/ RetireSession \/ DropRow \/ DropDir \/ WriterReturns \/ WriterFails
Transcriber == LoadModel \/ TakeJob \/ Transcribe \/ MarkFailed \/ WriteJson
               \/ WriteText \/ RecordSegments \/ TranscriberReturns
Main == JoinWriter \/ JoinTranscriber
Reindex == StartReindex \/ ReadMeta \/ UpsertRow \/ UpsertChunk \/ UpsertSegments
           \/ SessionDone \/ ReindexDone

Next == Writer \/ Transcriber \/ Main \/ UiReturns \/ Killed \/ LoseIndex \/ Reindex
        \/ Terminated

Spec == Init /\ [][Next]_vars

(* Both threads are scheduled and each inference ends; main joins once it can.*)
FairSpec == Spec /\ WF_vars(Writer) /\ WF_vars(Transcriber) /\ WF_vars(Main)

-----------------------------------------------------------------------------
(* Properties.                                                                *)

Elems(s) == {s[k] : k \in 1..Len(s)}

(* Every variable stays in its domain.                                        *)
TypeOK ==
    /\ writer \in {"idle", "listed", "indexed", "dropping", "off", "failed"}
    /\ ses \in DOMAIN meta /\ target \in DOMAIN meta \cup {None} /\ next \in Nat
    /\ DOMAIN meta \subseteq Sessions
    /\ \A s \in DOMAIN meta : meta[s] \subseteq 0..MaxIndex
    /\ rows \subseteq Sessions /\ ended \subseteq rows
    /\ DOMAIN status \subseteq Chunks
    /\ \A c \in DOMAIN status : /\ c[1] \in rows
                                /\ status[c] \in {"recorded", "transcribed", "failed"}
    /\ queue \in Seq(Chunks) /\ job \in Chunks \cup {None}
    /\ asr \in {"loading", "wait", "infer", "json", "text", "index", "off", "broken"}
    /\ json \subseteq Chunks /\ unsaved \subseteq Chunks /\ DOMAIN md \subseteq Sessions
    /\ main \in {"running", "joinWriter", "joinAsr", "exit", "error", "killed"}
    /\ re \in {"off", "dir", "row", "chunk", "segments", "done"}

(* The index is never ahead of the files it is derived from: at every         *)
(* instant, and after a kill, a chunk it knows is listed in meta.json, and    *)
(* one it calls transcribed has its chunk-NNN.json, unless writing that very  *)
(* file failed, which does not stop the other sinks (finish_chunk, run).      *)
IndexBehindFiles ==
    \A c \in DOMAIN status :
        /\ c[1] \in DOMAIN meta /\ c[2] \in meta[c[1]]
        /\ status[c] = "transcribed" => c \in json \cup unsaved

(* transcript.md never mixes sessions and skips nothing: it is the transcribed*)
(* chunks of its own session, in order, up to its last successful write; what *)
(* a failed write missed comes with the next (session_for, run).              *)
IsTranscriptOf(s, m) ==
    \E before \in 0..(Len(told) - Len(m)) :
        /\ \A p \in 1..before : told[p][1] # s
        /\ \A k \in 1..Len(m) : m[k] = told[before + k] /\ m[k][1] = s
TranscriptIsItsSessions == \A s \in DOMAIN md : IsTranscriptOf(s, md[s])

(* A recording that ends well has transcribed, or given up on, every chunk it *)
(* kept, and gave up on none because its session was discarded: what is asked *)
(* for stays on disk to be tried again (finish_chunk, run).                   *)
NothingLeftQueued ==
    main = "exit" /\ asr = "off" =>
        /\ Elems(asked) = Elems(told) \cup gaveUp
        /\ \A s \in DOMAIN meta : \A i \in meta[s] : <<s, i>> \in Elems(told) \cup gaveUp
        /\ \A c \in gaveUp : c[1] \in DOMAIN meta /\ c[2] \in meta[c[1]]

(* --reindex after a recording that ended or was killed, also with the index  *)
(* lost meanwhile: every session and listed chunk is in the index, and each   *)
(* chunk with a chunk-NNN.json is searchable (rebuild).                       *)
IndexRestored ==
    re = "done" /\ ~Live /\ ~ReindexLive =>
        /\ DOMAIN meta \subseteq rows
        /\ \A s \in DOMAIN meta : \A i \in meta[s] :
               /\ <<s, i>> \in DOMAIN status
               /\ <<s, i>> \in json => status[<<s, i>>] = "transcribed"

(* A recording that ends well while the index works has every transcribed     *)
(* chunk searchable and every session ended, also when --reindex was rewriting*)
(* the same rows meanwhile (record_chunk keeps the status of a row).          *)
ExitIndexed ==
    main = "exit" /\ Faults \cap {"index", "lost"} = {} =>
        /\ \A c \in Elems(told) : c \in DOMAIN status /\ status[c] = "transcribed"
        /\ DOMAIN meta \subseteq ended

(* Once the UI has returned, main gets to its end: the writer finishes, the   *)
(* transcriber works its queue off, and nobody waits on a queue that is never *)
(* closed.                                                                    *)
MainReturns == main = "joinWriter" ~> main \in {"exit", "error"}
=============================================================================
