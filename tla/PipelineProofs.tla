--------------------------- MODULE PipelineProofs ---------------------------
(* The index stays behind the files, no job is left behind, and the index is  *)
(* complete at the exit and after --reindex: for any number of sessions and   *)
(* chunks, and any combination of failures.                                   *)
EXTENDS Pipeline, TLAPS

USE PipelineAssumption

-----------------------------------------------------------------------------
(* What each actor may rely on, whatever the others do.                       *)

(* The writer: directories are never older than their successor, the chunk it *)
(* is about to index is listed, and what it drops is empty.                   *)
WriterInv ==
    /\ target # None => target > ses
    /\ \A s \in DOMAIN meta : s <= ses \/ s = target
    /\ writer \in {"listed", "indexed"} => next \in meta[ses]
    /\ writer = "dropping" => target # None /\ meta[ses] = {}

(* The transcriber: it marks a chunk only once the chunk's file was tried.    *)
AsrInv ==
    /\ asr \in {"infer", "json", "text", "index"} => job \in Chunks
    /\ asr \in {"text", "index"} => job \in json \cup unsaved

(* --reindex: what it read from a meta.json is still listed there, or it read *)
(* nothing from it.                                                           *)
ReInv ==
    /\ reTodo \subseteq Sessions
    /\ re \in {"row", "chunk", "segments"} =>
           /\ reSes \in Sessions
           /\ reChunks # {} => reSes \in DOMAIN meta /\ reChunks \subseteq meta[reSes]
    /\ re = "segments" => reChunk \in Chunks

IInv == TypeOK /\ WriterInv /\ AsrInv /\ ReInv /\ IndexBehindFiles

(* A chunk is a session and an index.                                         *)
LEMMA ChunkIs ==
  ASSUME NEW s \in Sessions, NEW i \in 0..MaxIndex
  PROVE  <<s, i>> \in Chunks /\ <<s, i>>[1] = s /\ <<s, i>>[2] = i /\ <<s, i>> # None
  BY DEF Chunks

(* The index alone: rows, ends and chunk rows that agree with each other and  *)
(* with the files.                                                            *)
IndexOK ==
    /\ rows \subseteq Sessions /\ ended \subseteq rows
    /\ DOMAIN status \subseteq Chunks
    /\ \A c \in DOMAIN status :
           /\ c[1] \in rows
           /\ status[c] \in {"recorded", "transcribed", "failed"}
           /\ c[1] \in DOMAIN meta /\ c[2] \in meta[c[1]]
           /\ status[c] = "transcribed" => c \in json \cup unsaved

(* The rest of the types.                                                     *)
StateOK ==
    /\ writer \in {"idle", "listed", "indexed", "dropping", "off", "failed"}
    /\ ses \in DOMAIN meta /\ target \in DOMAIN meta \cup {None} /\ next \in Nat
    /\ DOMAIN meta \subseteq Sessions
    /\ \A s \in DOMAIN meta : meta[s] \subseteq 0..MaxIndex
    /\ queue \in Seq(Chunks) /\ job \in Chunks \cup {None}
    /\ asr \in {"loading", "wait", "infer", "json", "text", "index", "off", "broken"}
    /\ json \subseteq Chunks /\ unsaved \subseteq Chunks /\ DOMAIN md \subseteq Sessions
    /\ main \in {"running", "joinWriter", "joinAsr", "exit", "error", "killed"}
    /\ re \in {"off", "dir", "row", "chunk", "segments", "done"}

Parts == StateOK /\ IndexOK /\ WriterInv /\ AsrInv /\ ReInv

(* The parts are the invariant, sorted by who can disturb them.               *)
LEMMA PartsAre == Parts <=> IInv
  BY DEF Parts, StateOK, IndexOK, IInv, TypeOK, IndexBehindFiles

(* A listed chunk gets a row, unless its session has none.                    *)
LEMMA RecordChunkOK ==
  ASSUME IndexOK, NEW c \in Chunks, RecordChunk(c), UNCHANGED <<rows, ended, meta, json, unsaved>>,
         c[1] \in DOMAIN meta, c[2] \in meta[c[1]]
  PROVE  IndexOK'
  <1>1. CASE status' = status
    BY <1>1 DEF IndexOK
  <1>0. /\ DOMAIN With(status, c, "recorded") = DOMAIN status \cup {c}
        /\ With(status, c, "recorded")[c] = "recorded"
        /\ \A d \in DOMAIN status : d # c => With(status, c, "recorded")[d] = status[d]
    BY DEF With
  <1>2. CASE status' = With(status, c, "recorded") /\ c[1] \in rows
    <2>1. /\ DOMAIN status' = DOMAIN status \cup {c} /\ status'[c] = "recorded"
          /\ \A d \in DOMAIN status : d # c => status'[d] = status[d]
      BY <1>0, <1>2
    <2>2. DOMAIN status' \subseteq Chunks
      BY <2>1 DEF IndexOK
    <2>3. ASSUME NEW d \in DOMAIN status'
          PROVE  /\ d[1] \in rows
                 /\ status'[d] \in {"recorded", "transcribed", "failed"}
                 /\ d[1] \in DOMAIN meta /\ d[2] \in meta[d[1]]
                 /\ status'[d] = "transcribed" => d \in json \cup unsaved
      <3>1. CASE d = c
        BY <3>1, <2>1, <1>2
      <3>2. CASE d # c
        BY <3>2, <2>1 DEF IndexOK
      <3> QED BY <3>1, <3>2
    <2> QED BY <2>2, <2>3 DEF IndexOK
  <1> QED BY <1>1, <1>2 DEF RecordChunk

(* Marking changes the status of a row there is.                              *)
LEMMA MarkChunkOK ==
  ASSUME IndexOK, NEW c, NEW as \in {"transcribed", "failed"}, MarkChunk(c, as),
         UNCHANGED <<rows, ended, meta, json, unsaved>>,
         as = "transcribed" => c \in json \cup unsaved
  PROVE  IndexOK'
  <1>1. CASE status' = status
    BY <1>1 DEF IndexOK
  <1>0. /\ DOMAIN With(status, c, as) = DOMAIN status \cup {c}
        /\ With(status, c, as)[c] = as
        /\ \A d \in DOMAIN status : d # c => With(status, c, as)[d] = status[d]
    BY DEF With
  <1>2. CASE status' = With(status, c, as) /\ c \in DOMAIN status
    <2>1. /\ DOMAIN status' = DOMAIN status /\ status'[c] = as
          /\ \A d \in DOMAIN status : d # c => status'[d] = status[d]
      BY <1>0, <1>2
    <2>2. ASSUME NEW d \in DOMAIN status'
          PROVE  /\ d[1] \in rows
                 /\ status'[d] \in {"recorded", "transcribed", "failed"}
                 /\ d[1] \in DOMAIN meta /\ d[2] \in meta[d[1]]
                 /\ status'[d] = "transcribed" => d \in json \cup unsaved
      <3>1. CASE d = c
        BY <3>1, <2>1 DEF IndexOK
      <3>2. CASE d # c
        BY <3>2, <2>1 DEF IndexOK
      <3> QED BY <3>1, <3>2
    <2> QED BY <2>1, <2>2 DEF IndexOK
  <1> QED BY <1>1, <1>2 DEF MarkChunk

(* An index left alone stays right while files are only added.                *)
LEMMA IndexGrows ==
  ASSUME IndexOK, UNCHANGED <<rows, ended, status>>,
         \A s \in DOMAIN meta : s \in DOMAIN meta' /\ meta[s] \subseteq meta'[s],
         json \subseteq json', unsaved \subseteq unsaved'
  PROVE  IndexOK'
  BY DEF IndexOK

(* Rows come, and are ended, without touching the chunks.                     *)
LEMMA RowsOK ==
  ASSUME IndexOK, UNCHANGED <<status, meta, json, unsaved>>,
         rows \subseteq rows', rows' \subseteq Sessions, ended' \subseteq rows'
  PROVE  IndexOK'
  BY DEF IndexOK

(* The first session is being recorded.                                       *)
LEMMA InitParts == Init => Parts
  <1> SUFFICES ASSUME Init PROVE Parts
    OBVIOUS
  <1>1. DOMAIN status = {} /\ DOMAIN md = {} /\ DOMAIN meta = {1} /\ meta[1] = {}
    BY DEF Init
  <1>2. queue \in Seq(Chunks)
    BY DEF Init
  <1>3. StateOK
    BY <1>1, <1>2 DEF Init, StateOK
  <1>4. IndexOK
    BY <1>1 DEF Init, IndexOK
  <1>5. WriterInv /\ AsrInv /\ ReInv
    BY <1>1 DEF Init, WriterInv, AsrInv, ReInv
  <1> QED BY <1>3, <1>4, <1>5 DEF Parts

-----------------------------------------------------------------------------
(* What each part needs left alone.                                           *)
LEMMA WriterFrame == WriterInv /\ UNCHANGED <<writerVars, meta>> => WriterInv'
  BY DEF WriterInv, writerVars

LEMMA AsrFrame == AsrInv /\ UNCHANGED asrVars => AsrInv'
  BY DEF AsrInv, asrVars

(* Directories may grow, and lose what --reindex read nothing from.           *)
LEMMA ReFrame ==
  ASSUME ReInv, UNCHANGED reVars,
         \A s \in DOMAIN meta : \/ s \in DOMAIN meta' /\ meta[s] \subseteq meta'[s]
                               \/ meta[s] = {}
  PROVE  ReInv'
  BY DEF ReInv, reVars

LEMMA IndexFrame == IndexOK /\ UNCHANGED <<indexVars, meta, json, unsaved>> => IndexOK'
  BY DEF IndexOK, indexVars

-----------------------------------------------------------------------------
(* The writer.                                                                *)

(* A chunk is listed before anything is told of it.                           *)
LEMMA ListChunkParts == Parts /\ ListChunk => Parts'
  <1> SUFFICES ASSUME Parts, ListChunk PROVE Parts'
    OBVIOUS
  <1>1. DOMAIN meta' = DOMAIN meta /\ meta'[ses] = meta[ses] \cup {next}
      /\ \A s \in DOMAIN meta : s # ses => meta'[s] = meta[s]
    BY DEF ListChunk, Parts, StateOK
  <1>2. next \in 0..MaxIndex
    BY DEF ListChunk, Parts, StateOK
  <1>3. StateOK'
    BY <1>1, <1>2 DEF ListChunk, Parts, StateOK, writerVars, indexVars, asrVars, mainVars, reVars
  <1>4. IndexOK'
    BY <1>1, IndexGrows DEF Parts, ListChunk, indexVars, asrVars
  <1>5. WriterInv'
    BY <1>1 DEF Parts, StateOK, WriterInv, ListChunk
  <1>6. AsrInv'
    BY AsrFrame DEF Parts, ListChunk
  <1>7. ReInv'
    BY <1>1, ReFrame DEF Parts, ListChunk
  <1> QED BY <1>1, <1>2, <1>3, <1>4, <1>5, <1>6, <1>7 DEF Parts

LEMMA IndexChunkParts == Parts /\ IndexChunk => Parts'
  <1> SUFFICES ASSUME Parts, IndexChunk PROVE Parts'
    OBVIOUS
  <1>1. <<ses, next>> \in Chunks /\ <<ses, next>>[1] = ses /\ <<ses, next>>[2] = next
      /\ next \in meta[ses] /\ ses \in DOMAIN meta
    BY ChunkIs DEF IndexChunk, Parts, StateOK, WriterInv
  <1>2. StateOK'
    BY DEF Parts, StateOK, IndexChunk, writerVars, indexVars, asrVars, mainVars, reVars
  <1>3. IndexOK'
    <2>1. CASE RecordChunk(<<ses, next>>)
      BY <2>1, <1>1, RecordChunkOK DEF Parts, IndexChunk, asrVars
    <2>2. CASE UNCHANGED status
      BY <2>2 DEF Parts, IndexOK, IndexChunk, asrVars
    <2> QED BY <2>1, <2>2 DEF IndexChunk
  <1>4. WriterInv'
    BY DEF Parts, WriterInv, IndexChunk
  <1>5. AsrInv'
    BY AsrFrame DEF Parts, IndexChunk
  <1>6. ReInv'
    BY ReFrame DEF Parts, IndexChunk
  <1> QED BY <1>1, <1>2, <1>3, <1>4, <1>5, <1>6 DEF Parts

LEMMA SendJobParts == Parts /\ SendJob => Parts'
  <1> SUFFICES ASSUME Parts, SendJob PROVE Parts'
    OBVIOUS
  <1>1. ses \in Sessions /\ next \in 0..MaxIndex
    BY DEF SendJob, Parts, StateOK, WriterInv
  <1>2. <<ses, next>> \in Chunks /\ next + 1 \in Nat
    BY <1>1, ChunkIs
  <1>3. queue' \in Seq(Chunks)
    BY <1>2 DEF SendJob, Parts, StateOK
  <1>4. StateOK'
    BY <1>2, <1>3 DEF SendJob, Parts, StateOK, writerVars, indexVars, asrVars, mainVars, reVars
  <1>5. IndexOK'
    BY IndexFrame DEF Parts, SendJob, asrVars
  <1>6. WriterInv'
    BY DEF Parts, WriterInv, SendJob
  <1>7. AsrInv'
    BY AsrFrame DEF Parts, SendJob
  <1>8. ReInv'
    BY ReFrame DEF Parts, SendJob
  <1> QED BY <1>1, <1>2, <1>3, <1>4, <1>5, <1>6, <1>7, <1>8 DEF Parts

(* The next session is later than all there are, so its directory is new.     *)
LEMMA BeginParts == Parts /\ (\E s \in Sessions : BeginSession(s)) => Parts'
  <1> SUFFICES ASSUME Parts, (\E s \in Sessions : BeginSession(s)) PROVE Parts'
    OBVIOUS
  <1>1. PICK s \in Sessions : BeginSession(s)
    OBVIOUS
  <1>2. s \notin DOMAIN meta /\ s # None /\ s > ses
    BY <1>1 DEF Parts, StateOK, WriterInv, BeginSession
  <1>3. DOMAIN meta' = DOMAIN meta \cup {s} /\ meta'[s] = {}
      /\ \A t \in DOMAIN meta : meta'[t] = meta[t]
    BY <1>1, <1>2 DEF BeginSession, With
  <1>4. StateOK'
    BY <1>1, <1>2, <1>3 DEF BeginSession, Parts, StateOK, writerVars, indexVars, asrVars, mainVars, reVars
  <1>5. IndexOK'
    <2>1. rows \subseteq rows' /\ rows' \subseteq Sessions
      BY <1>1 DEF Parts, IndexOK, BeginSession, StartRow
    <2>2. UNCHANGED <<ended, status, json, unsaved>>
      BY <1>1 DEF BeginSession, asrVars
    <2> QED BY <1>3, <2>1, <2>2 DEF Parts, IndexOK
  <1>6. WriterInv'
    BY <1>1, <1>2, <1>3 DEF Parts, StateOK, WriterInv, BeginSession
  <1>7. AsrInv'
    BY <1>1, AsrFrame DEF Parts, BeginSession
  <1>8. ReInv'
    BY <1>1, <1>3, ReFrame DEF Parts, BeginSession
  <1> QED BY <1>1, <1>2, <1>3, <1>4, <1>5, <1>6, <1>7, <1>8 DEF Parts

LEMMA RetireParts == Parts /\ RetireSession => Parts'
  <1> SUFFICES ASSUME Parts, RetireSession PROVE Parts'
    OBVIOUS
  <1>1. target \in Nat /\ target \in DOMAIN meta /\ target > ses /\ ses \in Nat
    BY DEF Parts, StateOK, WriterInv, RetireSession
  <1>2. StateOK'
    BY <1>1 DEF RetireSession, MovedOn, Parts, StateOK, writerVars, indexVars, asrVars, mainVars, reVars
  <1>3. IndexOK'
    <2>1. ended' \subseteq rows
      BY DEF Parts, IndexOK, RetireSession, FinishRow
    <2> QED BY <2>1 DEF Parts, IndexOK, RetireSession, asrVars
  <1>4. ses' = target /\ target' = None /\ writer' = "idle"
    BY DEF RetireSession, MovedOn
  <1>5. ASSUME NEW s \in DOMAIN meta' PROVE s <= ses'
    <2>1. s \in DOMAIN meta /\ s \in Nat
      BY <1>1, PipelineAssumption DEF Parts, StateOK, RetireSession
    <2>2. s <= ses \/ s = target
      BY <2>1 DEF Parts, WriterInv
    <2> QED BY <2>1, <2>2, <1>1, <1>4
  <1>6. WriterInv'
    BY <1>4, <1>5 DEF WriterInv
  <1>7. AsrInv'
    BY AsrFrame DEF Parts, RetireSession
  <1>8. ReInv'
    BY ReFrame DEF Parts, RetireSession
  <1> QED BY <1>1, <1>2, <1>3, <1>4, <1>5, <1>6, <1>7, <1>8 DEF Parts

(* The discarded session has no chunk row, for it listed none.                *)
LEMMA DropRowParts == Parts /\ DropRow => Parts'
  <1> SUFFICES ASSUME Parts, DropRow PROVE Parts'
    OBVIOUS
  <1>1. StateOK'
    BY DEF Parts, StateOK, DropRow, writerVars, indexVars, asrVars, mainVars, reVars
  <1>2. IndexOK'
    <2>1. CASE DeleteRow(ses)
      BY <2>1 DEF Parts, IndexOK, DropRow, DeleteRow, NothingKept, asrVars
    <2>2. CASE UNCHANGED <<rows, ended, status>>
      BY <2>2 DEF Parts, IndexOK, DropRow, asrVars
    <2> QED BY <2>1, <2>2 DEF DropRow
  <1>3. WriterInv'
    BY DEF Parts, WriterInv, DropRow, NothingKept
  <1>4. AsrInv'
    BY AsrFrame DEF Parts, DropRow
  <1>5. ReInv'
    BY ReFrame DEF Parts, DropRow
  <1> QED BY <1>1, <1>2, <1>3, <1>4, <1>5 DEF Parts

(* Nor does anyone hold a chunk of it when its directory goes.                *)
LEMMA DropDirParts == Parts /\ DropDir => Parts'
  <1> SUFFICES ASSUME Parts, DropDir PROVE Parts'
    OBVIOUS
  <1>1. target \in Nat /\ target \in DOMAIN meta /\ target > ses /\ ses \in Nat /\ meta[ses] = {}
    BY DEF Parts, StateOK, WriterInv, DropDir
  <1>2. DOMAIN meta' = DOMAIN meta \ {ses} /\ \A t \in DOMAIN meta' : meta'[t] = meta[t]
    BY DEF DropDir
  <1>3. StateOK'
    BY <1>1, <1>2 DEF DropDir, MovedOn, Parts, StateOK, writerVars, indexVars, asrVars, mainVars, reVars
  <1>4. IndexOK'
    BY <1>1, <1>2 DEF Parts, IndexOK, DropDir, indexVars, asrVars
  <1>5. ses' = target /\ target' = None /\ writer' = "idle"
    BY DEF DropDir, MovedOn
  <1>6. ASSUME NEW s \in DOMAIN meta' PROVE s <= ses'
    <2>1. s \in DOMAIN meta /\ s \in Nat
      BY <1>1, <1>2, PipelineAssumption DEF Parts, StateOK, DropDir
    <2>2. s <= ses \/ s = target
      BY <2>1 DEF Parts, WriterInv
    <2> QED BY <2>1, <2>2, <1>1, <1>5
  <1>7. WriterInv'
    BY <1>5, <1>6 DEF WriterInv
  <1>8. AsrInv'
    BY AsrFrame DEF Parts, DropDir
  <1>9. ReInv'
    BY <1>1, <1>2, ReFrame DEF Parts, DropDir
  <1> QED BY <1>1, <1>2, <1>3, <1>4, <1>5, <1>6, <1>7, <1>8, <1>9 DEF Parts

LEMMA WriterReturnsParts == Parts /\ WriterReturns => Parts'
  <1> SUFFICES ASSUME Parts, WriterReturns PROVE Parts'
    OBVIOUS
  <1>1. StateOK'
    BY DEF Parts, StateOK, WriterReturns, writerVars, indexVars, asrVars, mainVars, reVars
  <1>2. IndexOK'
    <2>1. ended' \subseteq rows
      BY DEF Parts, IndexOK, WriterReturns, FinishRow
    <2> QED BY <2>1 DEF Parts, IndexOK, WriterReturns, asrVars
  <1>3. WriterInv'
    BY DEF Parts, WriterInv, WriterReturns
  <1>4. AsrInv'
    BY AsrFrame DEF Parts, WriterReturns
  <1>5. ReInv'
    BY ReFrame DEF Parts, WriterReturns
  <1> QED BY <1>1, <1>2, <1>3, <1>4, <1>5 DEF Parts

LEMMA WriterFailsParts == Parts /\ WriterFails => Parts'
  <1> SUFFICES ASSUME Parts, WriterFails PROVE Parts'
    OBVIOUS
  <1>1. StateOK'
    BY DEF Parts, StateOK, WriterFails, writerVars, indexVars, asrVars, mainVars, reVars
  <1>2. IndexOK'
    BY IndexFrame DEF Parts, WriterFails, asrVars
  <1>3. WriterInv'
    BY DEF Parts, WriterInv, WriterFails
  <1>4. AsrInv'
    BY AsrFrame DEF Parts, WriterFails
  <1>5. ReInv'
    BY ReFrame DEF Parts, WriterFails
  <1> QED BY <1>1, <1>2, <1>3, <1>4, <1>5 DEF Parts

-----------------------------------------------------------------------------
(* The transcriber.                                                           *)

LEMMA LoadModelParts == Parts /\ LoadModel => Parts'
  <1> SUFFICES ASSUME Parts, LoadModel PROVE Parts'
    OBVIOUS
  <1>1. queue' \in Seq(Chunks)
    BY DEF Parts, StateOK, LoadModel
  <1>2. StateOK'
    BY <1>1 DEF LoadModel, Parts, StateOK, writerVars, indexVars, asrVars, mainVars, reVars
  <1>3. IndexOK'
    BY IndexFrame DEF Parts, LoadModel, asrVars
  <1>4. WriterInv'
    BY WriterFrame DEF Parts, LoadModel
  <1>5. AsrInv'
    BY DEF Parts, AsrInv, LoadModel
  <1>6. ReInv'
    BY ReFrame DEF Parts, LoadModel
  <1> QED BY <1>1, <1>2, <1>3, <1>4, <1>5, <1>6 DEF Parts

LEMMA TakeJobParts == Parts /\ TakeJob => Parts'
  <1> SUFFICES ASSUME Parts, TakeJob PROVE Parts'
    OBVIOUS
  <1>1. Head(queue) \in Chunks /\ Tail(queue) \in Seq(Chunks)
    BY DEF Parts, StateOK, TakeJob
  <1>2. job' \in Chunks \cup {None} /\ asr' \in {"wait", "infer"} /\ (asr' = "infer" => job' \in Chunks)
    BY <1>1 DEF Parts, StateOK, TakeJob
  <1>3. StateOK'
    BY <1>1, <1>2 DEF TakeJob, Parts, StateOK, writerVars, indexVars, asrVars, mainVars, reVars
  <1>4. IndexOK'
    BY IndexFrame DEF Parts, TakeJob, asrVars
  <1>5. WriterInv'
    BY WriterFrame DEF Parts, TakeJob
  <1>6. AsrInv'
    BY <1>2 DEF AsrInv
  <1>7. ReInv'
    BY ReFrame DEF Parts, TakeJob
  <1> QED BY <1>1, <1>2, <1>3, <1>4, <1>5, <1>6, <1>7 DEF Parts

LEMMA TranscribeParts == Parts /\ Transcribe => Parts'
  <1> SUFFICES ASSUME Parts, Transcribe PROVE Parts'
    OBVIOUS
  <1>1. StateOK'
    BY DEF Parts, StateOK, Transcribe, writerVars, indexVars, asrVars, mainVars, reVars
  <1>2. IndexOK'
    BY IndexFrame DEF Parts, Transcribe, asrVars
  <1>3. WriterInv'
    BY WriterFrame DEF Parts, Transcribe
  <1>4. AsrInv'
    BY DEF Parts, AsrInv, Transcribe
  <1>5. ReInv'
    BY ReFrame DEF Parts, Transcribe
  <1> QED BY <1>1, <1>2, <1>3, <1>4, <1>5 DEF Parts

LEMMA MarkFailedParts == Parts /\ MarkFailed => Parts'
  <1> SUFFICES ASSUME Parts, MarkFailed PROVE Parts'
    OBVIOUS
  <1>1. StateOK'
    BY DEF Parts, StateOK, MarkFailed, writerVars, indexVars, asrVars, mainVars, reVars
  <1>2. IndexOK'
    <2>1. CASE MarkChunk(job, "failed")
      BY <2>1, MarkChunkOK DEF Parts, MarkFailed
    <2>2. CASE UNCHANGED status
      BY <2>2 DEF Parts, IndexOK, MarkFailed
    <2> QED BY <2>1, <2>2 DEF MarkFailed
  <1>3. WriterInv'
    BY WriterFrame DEF Parts, MarkFailed
  <1>4. AsrInv'
    BY DEF AsrInv, MarkFailed
  <1>5. ReInv'
    BY ReFrame DEF Parts, MarkFailed
  <1> QED BY <1>1, <1>2, <1>3, <1>4, <1>5 DEF Parts

(* A chunk's file is written, or given up, before its rows are.               *)
LEMMA WriteJsonParts == Parts /\ WriteJson => Parts'
  <1> SUFFICES ASSUME Parts, WriteJson PROVE Parts'
    OBVIOUS
  <1>1. job \in Chunks
    BY DEF Parts, AsrInv, WriteJson
  <1>2. json \subseteq json' /\ unsaved \subseteq unsaved' /\ json' \subseteq Chunks /\ unsaved' \subseteq Chunks
      /\ job \in json' \cup unsaved'
    BY <1>1 DEF Parts, StateOK, WriteJson
  <1>3. StateOK'
    BY <1>2 DEF WriteJson, Parts, StateOK, writerVars, indexVars, asrVars, mainVars, reVars
  <1>4. IndexOK'
    BY <1>2, IndexGrows DEF Parts, WriteJson, indexVars
  <1>5. WriterInv'
    BY WriterFrame DEF Parts, WriteJson
  <1>6. AsrInv'
    BY <1>1, <1>2 DEF AsrInv, WriteJson
  <1>7. ReInv'
    BY ReFrame DEF Parts, WriteJson
  <1> QED BY <1>1, <1>2, <1>3, <1>4, <1>5, <1>6, <1>7 DEF Parts

LEMMA WriteTextParts == Parts /\ WriteText => Parts'
  <1> SUFFICES ASSUME Parts, WriteText PROVE Parts'
    OBVIOUS
  <1>1. job \in Chunks /\ job[1] \in Sessions /\ job \in json \cup unsaved
    BY DEF Parts, AsrInv, WriteText, Chunks
  <1>2. DOMAIN md' \subseteq Sessions
    BY <1>1 DEF Parts, StateOK, WriteText, With
  <1>3. StateOK'
    BY <1>2 DEF WriteText, Parts, StateOK, writerVars, indexVars, asrVars, mainVars, reVars
  <1>4. IndexOK'
    BY IndexFrame DEF Parts, WriteText, asrVars
  <1>5. WriterInv'
    BY WriterFrame DEF Parts, WriteText
  <1>6. AsrInv'
    BY <1>1 DEF AsrInv, WriteText
  <1>7. ReInv'
    BY ReFrame DEF Parts, WriteText
  <1> QED BY <1>1, <1>2, <1>3, <1>4, <1>5, <1>6, <1>7 DEF Parts

LEMMA RecordSegmentsParts == Parts /\ RecordSegments => Parts'
  <1> SUFFICES ASSUME Parts, RecordSegments PROVE Parts'
    OBVIOUS
  <1>1. StateOK'
    BY DEF Parts, StateOK, RecordSegments, writerVars, indexVars, asrVars, mainVars, reVars
  <1>2. IndexOK'
    <2>1. CASE MarkChunk(job, "transcribed")
      BY <2>1, MarkChunkOK DEF Parts, AsrInv, RecordSegments
    <2>2. CASE UNCHANGED status
      BY <2>2 DEF Parts, IndexOK, RecordSegments
    <2> QED BY <2>1, <2>2 DEF RecordSegments
  <1>3. WriterInv'
    BY WriterFrame DEF Parts, RecordSegments
  <1>4. AsrInv'
    BY DEF AsrInv, RecordSegments
  <1>5. ReInv'
    BY ReFrame DEF Parts, RecordSegments
  <1> QED BY <1>1, <1>2, <1>3, <1>4, <1>5 DEF Parts

LEMMA TranscriberReturnsParts == Parts /\ TranscriberReturns => Parts'
  <1> SUFFICES ASSUME Parts, TranscriberReturns PROVE Parts'
    OBVIOUS
  <1>1. StateOK'
    BY DEF Parts, StateOK, TranscriberReturns, writerVars, indexVars, asrVars, mainVars, reVars
  <1>2. IndexOK'
    BY IndexFrame DEF Parts, TranscriberReturns, asrVars
  <1>3. WriterInv'
    BY WriterFrame DEF Parts, TranscriberReturns
  <1>4. AsrInv'
    BY DEF Parts, AsrInv, TranscriberReturns
  <1>5. ReInv'
    BY ReFrame DEF Parts, TranscriberReturns
  <1> QED BY <1>1, <1>2, <1>3, <1>4, <1>5 DEF Parts

-----------------------------------------------------------------------------
(* main, and an index that is lost.                                           *)

LEMMA MainParts ==
  Parts /\ (JoinWriter \/ JoinTranscriber \/ UiReturns \/ Killed) => Parts'
  <1> SUFFICES ASSUME Parts, JoinWriter \/ JoinTranscriber \/ UiReturns \/ Killed
               PROVE  Parts'
    OBVIOUS
  <1>1. UNCHANGED <<writerVars, meta, indexVars, queue, asrVars, reVars>>
        /\ main' \in {"running", "joinWriter", "joinAsr", "exit", "error", "killed"}
    BY DEF JoinWriter, JoinTranscriber, UiReturns, Killed
  <1>2. StateOK'
    BY <1>1 DEF Parts, StateOK, writerVars, asrVars, reVars
  <1>3. IndexOK'
    BY <1>1, IndexFrame DEF Parts, asrVars
  <1>4. WriterInv' /\ AsrInv' /\ ReInv'
    BY <1>1, WriterFrame, AsrFrame, ReFrame DEF Parts
  <1> QED BY <1>2, <1>3, <1>4 DEF Parts

LEMMA LoseIndexParts == Parts /\ LoseIndex => Parts'
  <1> SUFFICES ASSUME Parts, LoseIndex PROVE Parts'
    OBVIOUS
  <1>1. StateOK'
    BY DEF Parts, StateOK, LoseIndex, writerVars, indexVars, asrVars, mainVars, reVars
  <1>2. IndexOK'
    <2>1. DOMAIN status' = {}
      BY DEF LoseIndex
    <2> QED BY <2>1 DEF IndexOK, LoseIndex
  <1>3. WriterInv'
    BY WriterFrame DEF Parts, LoseIndex
  <1>4. AsrInv'
    BY AsrFrame DEF Parts, LoseIndex
  <1>5. ReInv'
    BY ReFrame DEF Parts, LoseIndex
  <1> QED BY <1>1, <1>2, <1>3, <1>4, <1>5 DEF Parts

-----------------------------------------------------------------------------
(* meetrs --reindex.                                                          *)

LEMMA StartReindexParts == Parts /\ StartReindex => Parts'
  <1> SUFFICES ASSUME Parts, StartReindex PROVE Parts'
    OBVIOUS
  <1>1. StateOK'
    BY DEF Parts, StateOK, StartReindex, writerVars, indexVars, asrVars, mainVars, reVars
  <1>2. IndexOK'
    BY IndexFrame DEF Parts, StartReindex, asrVars
  <1>3. WriterInv'
    BY WriterFrame DEF Parts, StartReindex
  <1>4. AsrInv'
    BY AsrFrame DEF Parts, StartReindex
  <1>5. ReInv'
    BY DEF Parts, StateOK, ReInv, StartReindex
  <1> QED BY <1>1, <1>2, <1>3, <1>4, <1>5 DEF Parts

LEMMA ReadMetaParts == Parts /\ ReadMeta => Parts'
  <1> SUFFICES ASSUME Parts, ReadMeta PROVE Parts'
    OBVIOUS
  <1>1. StateOK'
    BY DEF Parts, StateOK, ReadMeta, writerVars, indexVars, asrVars, mainVars, reVars
  <1>2. IndexOK'
    BY IndexFrame DEF Parts, ReadMeta, asrVars
  <1>3. WriterInv'
    BY WriterFrame DEF Parts, ReadMeta
  <1>4. AsrInv'
    BY AsrFrame DEF Parts, ReadMeta
  <1>5. ReInv'
    BY DEF Parts, StateOK, ReInv, ReadMeta
  <1> QED BY <1>1, <1>2, <1>3, <1>4, <1>5 DEF Parts

LEMMA UpsertRowParts == Parts /\ UpsertRow => Parts'
  <1> SUFFICES ASSUME Parts, UpsertRow PROVE Parts'
    OBVIOUS
  <1>1. StateOK'
    BY DEF Parts, StateOK, UpsertRow, writerVars, indexVars, asrVars, mainVars, reVars
  <1>2. IndexOK'
    <2>1. rows \subseteq rows' /\ rows' \subseteq Sessions /\ ended' \subseteq rows'
      BY DEF Parts, IndexOK, ReInv, UpsertRow, StartRow
    <2> QED BY <2>1, RowsOK DEF Parts, UpsertRow, asrVars
  <1>3. WriterInv'
    BY WriterFrame DEF Parts, UpsertRow
  <1>4. AsrInv'
    BY AsrFrame DEF Parts, UpsertRow
  <1>5. ReInv'
    BY DEF Parts, ReInv, UpsertRow
  <1> QED BY <1>1, <1>2, <1>3, <1>4, <1>5 DEF Parts

(* What it takes from meta.json is still listed when its row is written.      *)
LEMMA UpsertChunkParts == Parts /\ UpsertChunk => Parts'
  <1> SUFFICES ASSUME Parts, UpsertChunk PROVE Parts'
    OBVIOUS
  <1>1. PICK i \in reChunks : /\ reChunks' = reChunks \ {i} /\ reChunk' = <<reSes, i>>
                              /\ RecordChunk(reChunk')
    BY DEF UpsertChunk, UpsertChunkRow
  <1>2. reSes \in Sessions /\ reSes \in DOMAIN meta /\ i \in meta[reSes] /\ i \in 0..MaxIndex
    BY <1>1 DEF Parts, StateOK, ReInv, UpsertChunk
  <1>3. <<reSes, i>> \in Chunks /\ <<reSes, i>>[1] = reSes /\ <<reSes, i>>[2] = i
    BY <1>2, ChunkIs
  <1>4. StateOK'
    BY DEF Parts, StateOK, UpsertChunk, writerVars, indexVars, asrVars, mainVars, reVars
  <1>5. IndexOK'
    <2>1. RecordChunk(<<reSes, i>>)
      BY <1>1
    <2>2. UNCHANGED <<rows, ended, meta, json, unsaved>>
      BY DEF UpsertChunk, asrVars
    <2> QED BY <2>1, <2>2, <1>2, <1>3, RecordChunkOK DEF Parts
  <1>6. WriterInv'
    BY WriterFrame DEF Parts, UpsertChunk
  <1>7. AsrInv'
    BY AsrFrame DEF Parts, UpsertChunk
  <1>8. ReInv'
    BY <1>1, <1>2, <1>3 DEF Parts, ReInv, UpsertChunk
  <1> QED BY <1>1, <1>2, <1>3, <1>4, <1>5, <1>6, <1>7, <1>8 DEF Parts

LEMMA UpsertSegmentsParts == Parts /\ UpsertSegments => Parts'
  <1> SUFFICES ASSUME Parts, UpsertSegments PROVE Parts'
    OBVIOUS
  <1>1. StateOK'
    BY DEF Parts, StateOK, UpsertSegments, writerVars, indexVars, asrVars, mainVars, reVars
  <1>2. IndexOK'
    <2>1. UNCHANGED <<rows, ended, meta, json, unsaved>>
      BY DEF UpsertSegments, asrVars
    <2>2. CASE MarkChunk(reChunk, "transcribed") /\ reChunk \in json
      BY <2>1, <2>2, MarkChunkOK DEF Parts
    <2>3. CASE UNCHANGED status
      BY <2>1, <2>3 DEF Parts, IndexOK
    <2> QED BY <2>2, <2>3 DEF UpsertSegments, Segments
  <1>3. WriterInv'
    BY WriterFrame DEF Parts, UpsertSegments
  <1>4. AsrInv'
    BY AsrFrame DEF Parts, UpsertSegments
  <1>5. ReInv'
    BY DEF Parts, ReInv, UpsertSegments
  <1> QED BY <1>1, <1>2, <1>3, <1>4, <1>5 DEF Parts

LEMMA SessionDoneParts == Parts /\ SessionDone => Parts'
  <1> SUFFICES ASSUME Parts, SessionDone PROVE Parts'
    OBVIOUS
  <1>1. StateOK'
    BY DEF Parts, StateOK, SessionDone, writerVars, indexVars, asrVars, mainVars, reVars
  <1>2. IndexOK'
    BY IndexFrame DEF Parts, SessionDone, asrVars
  <1>3. WriterInv'
    BY WriterFrame DEF Parts, SessionDone
  <1>4. AsrInv'
    BY AsrFrame DEF Parts, SessionDone
  <1>5. ReInv'
    BY DEF Parts, ReInv, SessionDone
  <1> QED BY <1>1, <1>2, <1>3, <1>4, <1>5 DEF Parts

LEMMA ReindexDoneParts == Parts /\ ReindexDone => Parts'
  <1> SUFFICES ASSUME Parts, ReindexDone PROVE Parts'
    OBVIOUS
  <1>1. StateOK'
    BY DEF Parts, StateOK, ReindexDone, writerVars, indexVars, asrVars, mainVars, reVars
  <1>2. IndexOK'
    BY IndexFrame DEF Parts, ReindexDone, asrVars
  <1>3. WriterInv'
    BY WriterFrame DEF Parts, ReindexDone
  <1>4. AsrInv'
    BY AsrFrame DEF Parts, ReindexDone
  <1>5. ReInv'
    BY DEF Parts, ReInv, ReindexDone
  <1> QED BY <1>1, <1>2, <1>3, <1>4, <1>5 DEF Parts

-----------------------------------------------------------------------------
LEMMA NextParts == Parts /\ [Next]_vars => Parts'
  <1> SUFFICES ASSUME Parts, [Next]_vars PROVE Parts'
    OBVIOUS
  <1>1. CASE Writer
    BY <1>1, ListChunkParts, IndexChunkParts, SendJobParts, BeginParts, RetireParts, DropRowParts, DropDirParts, WriterReturnsParts, WriterFailsParts DEF Writer
  <1>2. CASE Transcriber
    BY <1>2, LoadModelParts, TakeJobParts, TranscribeParts, MarkFailedParts, WriteJsonParts, WriteTextParts, RecordSegmentsParts, TranscriberReturnsParts DEF Transcriber
  <1>3. CASE Main \/ UiReturns \/ Killed
    BY <1>3, MainParts DEF Main
  <1>4. CASE LoseIndex
    BY <1>4, LoseIndexParts
  <1>5. CASE Reindex
    BY <1>5, StartReindexParts, ReadMetaParts, UpsertRowParts, UpsertChunkParts, UpsertSegmentsParts, SessionDoneParts, ReindexDoneParts DEF Reindex
  <1>6. CASE Terminated \/ UNCHANGED vars
    <2>1. UNCHANGED <<writerVars, meta, indexVars, queue, asrVars, mainVars, reVars>>
      BY <1>6 DEF Terminated, vars
    <2>2. StateOK'
      BY <2>1 DEF Parts, StateOK, writerVars, asrVars, mainVars, reVars
    <2>3. IndexOK'
      BY <2>1, IndexFrame DEF Parts, asrVars
    <2>4. WriterInv' /\ AsrInv' /\ ReInv'
      BY <2>1, WriterFrame, AsrFrame, ReFrame DEF Parts
    <2> QED BY <2>2, <2>3, <2>4 DEF Parts
  <1> QED BY <1>1, <1>2, <1>3, <1>4, <1>5, <1>6 DEF Next

LEMMA Invariant == Spec => []Parts
  <1>1. Init => Parts
    BY InitParts
  <1>2. Parts /\ [Next]_vars => Parts'
    BY NextParts
  <1> QED BY <1>1, <1>2, PTL DEF Spec

(* Every variable stays in its domain, for any number of sessions and chunks, *)
(* every failure, a kill at any step and --reindex beside the recording.      *)
THEOREM PipelineTypes == Spec => []TypeOK
  <1>1. Parts => TypeOK
    BY PartsAre DEF IInv
  <1> QED BY <1>1, Invariant, PTL

(* At no instant, and so at no kill, is the index ahead of the files it is    *)
(* derived from (finish_chunk, process_job, rebuild).                         *)
THEOREM IndexStaysBehind == Spec => []IndexBehindFiles
  <1>1. Parts => IndexBehindFiles
    BY PartsAre DEF IInv
  <1> QED BY <1>1, Invariant, PTL

-----------------------------------------------------------------------------

(* What is being worked on and not yet answered, and what was answered.       *)
InWork == IF asr \in {"infer", "json", "text"} THEN {job} ELSE {}
Answers == Elems(told) \cup gaveUp

(* Each chunk listed is asked for, or about to be; each chunk asked for is    *)
(* listed, and is answered, queued or in work, unless there is no model.      *)
QueueInv ==
    /\ asked \in Seq(Chunks) /\ told \in Seq(Chunks)
    /\ asr # "broken" => Elems(asked) = Answers \cup Elems(queue) \cup InWork
    /\ \A c \in Elems(asked) : c[1] \in DOMAIN meta /\ c[2] \in meta[c[1]]
    /\ \A s \in DOMAIN meta : \A i \in meta[s] :
           \/ <<s, i>> \in Elems(asked)
           \/ writer \in {"listed", "indexed"} /\ s = ses /\ i = next
    /\ asr = "off" => writer \in {"off", "failed"} /\ queue = <<>>
    /\ main \in {"joinAsr", "exit"} => writer = "off"

(* What the ends of a queue do to what is in it.                              *)
LEMMA ElemsAppend ==
  ASSUME NEW S, NEW q \in Seq(S), NEW c \in S
  PROVE  Elems(Append(q, c)) = Elems(q) \cup {c}
  <1>1. Len(Append(q, c)) = Len(q) + 1 /\ Len(q) \in Nat
    OBVIOUS
  <1>2. /\ \A k \in 1..Len(q) : Append(q, c)[k] = q[k]
        /\ Append(q, c)[Len(q) + 1] = c
    OBVIOUS
  <1>3. 1..(Len(q) + 1) = (1..Len(q)) \cup {Len(q) + 1}
    BY <1>1
  <1> QED BY <1>1, <1>2, <1>3 DEF Elems

LEMMA ElemsHead ==
  ASSUME NEW S, NEW q \in Seq(S), q # <<>>
  PROVE  /\ Elems(q) = {Head(q)} \cup Elems(Tail(q))
         /\ Head(q) \in S /\ Tail(q) \in Seq(S)
  <1>1. /\ Len(q) \in Nat /\ Len(q) > 0 /\ Len(Tail(q)) = Len(q) - 1 /\ Head(q) = q[1]
        /\ Head(q) \in S /\ Tail(q) \in Seq(S)
    OBVIOUS
  <1>2. \A k \in 1..Len(Tail(q)) : Tail(q)[k] = q[k + 1]
    OBVIOUS
  <1>3. Elems(q) \subseteq {Head(q)} \cup Elems(Tail(q))
    <2> SUFFICES ASSUME NEW k \in 1..Len(q) PROVE q[k] \in {Head(q)} \cup Elems(Tail(q))
      BY DEF Elems
    <2>1. CASE k = 1
      BY <2>1, <1>1
    <2>2. CASE k # 1
      <3>1. k - 1 \in 1..Len(Tail(q)) /\ Tail(q)[k - 1] = q[k]
        BY <2>2, <1>1, <1>2
      <3> QED BY <3>1 DEF Elems
    <2> QED BY <2>1, <2>2
  <1>4. Elems(Tail(q)) \subseteq Elems(q)
    <2> SUFFICES ASSUME NEW k \in 1..Len(Tail(q)) PROVE Tail(q)[k] \in Elems(q)
      BY DEF Elems
    <2>1. k + 1 \in 1..Len(q) /\ Tail(q)[k] = q[k + 1]
      BY <1>1, <1>2
    <2> QED BY <2>1 DEF Elems
  <1>5. Head(q) \in Elems(q)
    BY <1>1 DEF Elems
  <1> QED BY <1>1, <1>3, <1>4, <1>5

LEMMA ElemsEmpty == Elems(<<>>) = {}
  BY DEF Elems

(* Nothing is asked for at first.                                             *)
LEMMA InitQueue == Init => QueueInv
  <1> SUFFICES ASSUME Init PROVE QueueInv
    OBVIOUS
  <1>1. /\ asked = <<>> /\ told = <<>> /\ queue = <<>> /\ gaveUp = {} /\ asr = "loading"
        /\ main = "running" /\ DOMAIN meta = {1} /\ meta[1] = {}
    BY DEF Init
  <1> QED BY <1>1, ElemsEmpty DEF QueueInv, Answers, InWork

(* A step that leaves jobs, answers and listings alone.                       *)
LEMMA QueueFrame ==
  ASSUME QueueInv, UNCHANGED <<asked, told, gaveUp, queue, meta>>,
         InWork' = InWork, asr' # "broken" => asr # "broken",
         asr' = "off" => asr = "off" \/ (writer \in {"off", "failed"} /\ queue = <<>>),
         \/ UNCHANGED <<writer, ses, next>>
         \/ writer = "idle" /\ writer' \in {"idle", "dropping", "off", "failed"}
         \/ writer = "listed" /\ writer' = "indexed" /\ UNCHANGED <<ses, next>>,
         main' \in {"joinAsr", "exit"} => \/ main \in {"joinAsr", "exit"} /\ writer' = writer
                                          \/ writer' = "off"
  PROVE  QueueInv'
  BY DEF QueueInv, Answers

(* The writer: a chunk is listed, then asked for; what it discards held none. *)
LEMMA QueueWriter ==
  ASSUME Parts, QueueInv, Writer
  PROVE  QueueInv'
  <1> USE DEF Live
  <1>1. /\ ses \in DOMAIN meta /\ DOMAIN meta \subseteq Sessions /\ next \in Nat
        /\ queue \in Seq(Chunks) /\ \A s \in DOMAIN meta : meta[s] \subseteq 0..MaxIndex
    BY DEF Parts, StateOK
  <1>2. CASE ListChunk
    <2>1. /\ DOMAIN meta' = DOMAIN meta /\ meta'[ses] = meta[ses] \cup {next}
          /\ \A s \in DOMAIN meta : s # ses => meta'[s] = meta[s]
          /\ writer = "idle" /\ writer' = "listed" /\ main' = main
          /\ UNCHANGED <<ses, next, asked, queue, asr, job, told, gaveUp>>
      BY <1>1, <1>2 DEF ListChunk, asrVars, mainVars
    <2>2. InWork' = InWork /\ Answers' = Answers
      BY <2>1 DEF InWork, Answers
    <2>3. \A c \in Elems(asked) : c[1] \in DOMAIN meta' /\ c[2] \in meta'[c[1]]
      BY <2>1 DEF QueueInv
    <2>4. \A s \in DOMAIN meta' : \A i \in meta'[s] :
             \/ <<s, i>> \in Elems(asked)
             \/ writer' \in {"listed", "indexed"} /\ s = ses /\ i = next
      BY <2>1 DEF QueueInv
    <2> QED BY <2>1, <2>2, <2>3, <2>4 DEF QueueInv
  <1>3. CASE IndexChunk
    <2>1. InWork' = InWork
      BY <1>3 DEF IndexChunk, asrVars, InWork
    <2>2. main \notin {"joinAsr", "exit"}
      BY <1>3 DEF IndexChunk, QueueInv
    <2> QED BY <1>3, <2>1, <2>2, QueueFrame DEF IndexChunk, asrVars, mainVars
  <1>4. CASE SendJob
    <2>1. PICK c : c = <<ses, next>>
      OBVIOUS
    <2>2. /\ writer = "indexed" /\ writer' = "idle" /\ asked' = Append(asked, c)
          /\ queue' = IF asr = "broken" THEN queue ELSE Append(queue, c)
          /\ UNCHANGED <<ses, meta, asr, job, told, gaveUp, main>>
      BY <1>4, <2>1 DEF SendJob, asrVars, mainVars
    <2>3. c \in Chunks /\ c[1] = ses /\ c[2] = next /\ next \in meta[ses]
      BY <1>1, <2>1, <2>2, ChunkIs DEF Parts, WriterInv
    <2>4. Elems(asked') = Elems(asked) \cup {c} /\ asked' \in Seq(Chunks)
      BY <2>2, <2>3, ElemsAppend DEF QueueInv
    <2>5. asr # "broken" => Elems(queue') = Elems(queue) \cup {c}
      BY <1>1, <2>2, <2>3, ElemsAppend
    <2>6. InWork' = InWork /\ Answers' = Answers
      BY <2>2 DEF InWork, Answers
    <2>7. asr # "broken" => Elems(asked)' = Answers' \cup Elems(queue)' \cup InWork'
      BY <2>4, <2>5, <2>6 DEF QueueInv
    <2>8. \A s \in DOMAIN meta : \A i \in meta[s] : <<s, i>> \in Elems(asked')
      BY <2>1, <2>4 DEF QueueInv
    <2>9. asr # "off"
      BY <2>2 DEF QueueInv
    <2>10. main \notin {"joinAsr", "exit"}
      BY <2>2 DEF QueueInv
    <2>11. \A d \in Elems(asked') : d[1] \in DOMAIN meta /\ d[2] \in meta[d[1]]
      BY <1>1, <2>3, <2>4 DEF QueueInv
    <2> QED BY <2>2, <2>4, <2>7, <2>8, <2>9, <2>10, <2>11 DEF QueueInv
  <1>5. ASSUME NEW s \in Sessions, BeginSession(s) PROVE QueueInv'
    <2>1. /\ DOMAIN meta' = DOMAIN meta \cup {s} /\ meta'[s] = {} /\ s \notin DOMAIN meta
          /\ \A t \in DOMAIN meta : meta'[t] = meta[t]
      <3>1. s \notin DOMAIN meta
        <4>1. Sessions \subseteq Nat /\ None \notin Nat
          BY PipelineAssumption
        <4>2. s \in Nat /\ ses \in Nat /\ s > ses /\ target = None
          BY <1>1, <1>5, <4>1 DEF BeginSession
        <4>3. \A t \in DOMAIN meta : t <= ses \/ t = target
          BY DEF Parts, WriterInv
        <4> QED BY <4>1, <4>2, <4>3
      <3> QED BY <1>5, <3>1 DEF BeginSession, With
    <2>2. /\ UNCHANGED <<writer, ses, next, asked, queue, asr, job, told, gaveUp, main>>
      BY <1>5 DEF BeginSession, asrVars, mainVars
    <2>3. InWork' = InWork /\ Answers' = Answers
      BY <2>2 DEF InWork, Answers
    <2> QED BY <2>1, <2>2, <2>3 DEF QueueInv
  <1>6. CASE RetireSession \/ DropRow \/ WriterReturns \/ WriterFails
    <2>1. InWork' = InWork
      BY <1>6 DEF RetireSession, DropRow, WriterReturns, WriterFails, asrVars, InWork
    <2>2. main \notin {"joinAsr", "exit"}
      BY <1>6 DEF RetireSession, DropRow, WriterReturns, WriterFails, QueueInv
    <2> QED BY <1>6, <2>1, <2>2, QueueFrame
            DEF RetireSession, DropRow, WriterReturns, WriterFails, asrVars, mainVars
  <1>7. CASE DropDir
    <2>1. /\ DOMAIN meta' = DOMAIN meta \ {ses} /\ meta[ses] = {}
          /\ \A s \in DOMAIN meta' : meta'[s] = meta[s]
          /\ writer = "dropping" /\ writer' = "idle"
          /\ UNCHANGED <<asked, queue, asr, job, told, gaveUp, main>>
      BY <1>7 DEF DropDir, asrVars, mainVars, Parts, WriterInv
    <2>2. InWork' = InWork /\ Answers' = Answers
      BY <2>1 DEF InWork, Answers
    <2>3. \A c \in Elems(asked) : c[1] \in DOMAIN meta' /\ c[2] \in meta'[c[1]]
      BY <2>1 DEF QueueInv
    <2> QED BY <2>1, <2>2, <2>3 DEF QueueInv
  <1> QED BY <1>2, <1>3, <1>4, <1>5, <1>6, <1>7 DEF Writer

(* The transcriber: a job is answered once it is neither queued nor in work.  *)
LEMMA QueueTranscriber ==
  ASSUME Parts, QueueInv, Transcriber
  PROVE  QueueInv'
  <1>1. queue \in Seq(Chunks)
    BY DEF Parts, StateOK
  <1>2. CASE LoadModel
    <2>1. /\ asr = "loading" /\ UNCHANGED <<asked, told, gaveUp, meta, writer, ses, next, main, job>>
          /\ (asr' = "wait" /\ queue' = queue) \/ asr' = "broken"
      BY <1>2 DEF LoadModel, writerVars, mainVars
    <2> QED BY <2>1 DEF QueueInv, Answers, InWork
  <1>3. CASE TakeJob
    <2>1. PICK c : c = Head(queue)
      OBVIOUS
    <2>2. /\ asr = "wait" /\ queue # <<>> /\ queue' = Tail(queue)
          /\ UNCHANGED <<asked, told, meta, writer, ses, next, main>>
          /\ \/ job' = c /\ asr' = "infer" /\ gaveUp' = gaveUp
             \/ gaveUp' = gaveUp \cup {c} /\ asr' = asr
      BY <1>3, <2>1 DEF TakeJob, writerVars, mainVars
    <2>3. Elems(queue) = {c} \cup Elems(queue')
      BY <1>1, <2>1, <2>2, ElemsHead
    <2>4. Answers' \cup Elems(queue') \cup InWork' = Answers \cup Elems(queue) \cup InWork
      BY <2>2, <2>3 DEF Answers, InWork
    <2>5. Elems(asked)' = Answers' \cup Elems(queue)' \cup InWork'
      BY <2>2, <2>4 DEF QueueInv
    <2> QED BY <2>2, <2>5 DEF QueueInv
  <1>4. CASE Transcribe \/ WriteJson \/ TranscriberReturns
    <2>1. InWork' = InWork
      BY <1>4 DEF Transcribe, WriteJson, TranscriberReturns, InWork
    <2> QED BY <1>4, <2>1, QueueFrame
            DEF Transcribe, WriteJson, TranscriberReturns, QueueDrained, writerVars, mainVars
  <1>5. CASE MarkFailed
    <2>1. /\ asr = "infer" /\ asr' = "wait" /\ gaveUp' = gaveUp \cup {job}
          /\ UNCHANGED <<asked, told, queue, meta, writer, ses, next, main>>
      BY <1>5 DEF MarkFailed, writerVars, mainVars
    <2> QED BY <2>1 DEF QueueInv, Answers, InWork
  <1>6. CASE WriteText
    <2>1. /\ asr = "text" /\ asr' = "index" /\ told' = Append(told, job)
          /\ UNCHANGED <<asked, gaveUp, queue, meta, writer, ses, next, main>>
      BY <1>6 DEF WriteText, writerVars, mainVars
    <2>2. job \in Chunks
      BY <2>1 DEF Parts, AsrInv
    <2>3. Elems(told') = Elems(told) \cup {job} /\ told' \in Seq(Chunks)
      BY <2>1, <2>2, ElemsAppend DEF QueueInv
    <2> QED BY <2>1, <2>3 DEF QueueInv, Answers, InWork
  <1>7. CASE RecordSegments
    <2>1. InWork' = InWork
      BY <1>7 DEF RecordSegments, InWork
    <2> QED BY <1>7, <2>1, QueueFrame DEF RecordSegments, writerVars, mainVars
  <1> QED BY <1>2, <1>3, <1>4, <1>5, <1>6, <1>7 DEF Transcriber

(* main and --reindex take no job.                                            *)
LEMMA QueueRest ==
  ASSUME Parts, QueueInv,
         \/ Main \/ UiReturns \/ Killed \/ LoseIndex \/ Reindex \/ Terminated
         \/ UNCHANGED vars
  PROVE  QueueInv'
  <1>1. CASE Main \/ UiReturns \/ Killed
    <2>1. UNCHANGED <<writerVars, meta, queue, asrVars>>
      BY <1>1 DEF Main, JoinWriter, JoinTranscriber, UiReturns, Killed
    <2>2. InWork' = InWork
      BY <2>1 DEF InWork, asrVars
    <2>3. main' \in {"joinAsr", "exit"} => main \in {"joinAsr", "exit"} \/ writer = "off"
      BY <1>1 DEF Main, JoinWriter, JoinTranscriber, UiReturns, Killed
    <2> QED BY <2>1, <2>2, <2>3, QueueFrame DEF writerVars, asrVars
  <1>2. CASE LoseIndex \/ Reindex \/ Terminated \/ UNCHANGED vars
    <2>1. UNCHANGED <<writerVars, meta, queue, asrVars, mainVars>>
      BY <1>2 DEF LoseIndex, Reindex, StartReindex, ReadMeta, UpsertRow, UpsertChunk,
                  UpsertSegments, SessionDone, ReindexDone, Terminated, vars
    <2>2. InWork' = InWork
      BY <2>1 DEF InWork, asrVars
    <2> QED BY <2>1, <2>2, QueueFrame DEF writerVars, asrVars, mainVars
  <1> QED BY <1>1, <1>2

LEMMA QueueStep == Parts /\ QueueInv /\ [Next]_vars => QueueInv'
  BY QueueWriter, QueueTranscriber, QueueRest DEF Next

(* A recording that ends well leaves no job behind, and refuses none because  *)
(* its session went, for any number of sessions and chunks (finish_chunk).    *)
THEOREM NothingIsLeft == Spec => []NothingLeftQueued
  <1>1. Parts /\ QueueInv => NothingLeftQueued
    <2> SUFFICES ASSUME Parts, QueueInv, main = "exit", asr = "off" PROVE NothingLeftQueued
      BY DEF NothingLeftQueued
    <2>1. writer = "off" /\ queue = <<>> /\ InWork = {}
      BY DEF QueueInv, InWork
    <2>2. Elems(asked) = Elems(told) \cup gaveUp
      BY <2>1, ElemsEmpty DEF QueueInv, Answers
    <2>3. \A s \in DOMAIN meta : \A i \in meta[s] : <<s, i>> \in Elems(told) \cup gaveUp
      BY <2>1, <2>2 DEF QueueInv
    <2>4. \A c \in gaveUp : c[1] \in DOMAIN meta /\ c[2] \in meta[c[1]]
      BY <2>2 DEF QueueInv
    <2> QED BY <2>2, <2>3, <2>4 DEF NothingLeftQueued
  <1> QED BY <1>1, InitQueue, QueueStep, Invariant, PTL DEF Spec

-----------------------------------------------------------------------------
(* No chunk is asked for twice, so none is marked as failed that was already  *)
(* transcribed.                                                               *)
JobsInv ==
    /\ \A c \in Elems(asked) : c[1] < ses \/ (c[1] = ses /\ c[2] < next)
    /\ Elems(told) \cup Elems(queue) \cup InWork \subseteq Elems(asked)
    /\ Elems(told) \cap Elems(queue) = {}
    /\ InWork \cap (Elems(told) \cup Elems(queue)) = {}
    /\ \A j, k \in 1..Len(queue) : queue[j] = queue[k] => j = k
    /\ asr = "index" => job \in Elems(told)
    /\ main = "exit" => asr \in {"off", "broken"}
    /\ writer = "off" => target = None

(* At first nothing is asked for.                                             *)
LEMMA InitJobs == Init => JobsInv
  <1> SUFFICES ASSUME Init PROVE JobsInv
    OBVIOUS
  <1>1. /\ asked = <<>> /\ told = <<>> /\ queue = <<>> /\ asr = "loading"
        /\ main = "running" /\ writer = "idle"
    BY DEF Init
  <1> QED BY <1>1, ElemsEmpty DEF JobsInv, InWork

(* A step that leaves the jobs alone.                                         *)
LEMMA JobsFrame ==
  ASSUME JobsInv, UNCHANGED <<asked, told, queue>>, InWork' = InWork,
         asr' = "index" => asr = "index" /\ job' = job,
         \/ UNCHANGED <<ses, next, target>> /\ (writer' = "off" => writer = "off" \/ target = None)
         \/ UNCHANGED <<ses, next>> /\ writer # "off" /\ writer' # "off"
         \/ ses' > ses /\ ses \in Nat /\ ses' \in Nat /\ writer' # "off"
            /\ \A c \in Elems(asked) : c[1] \in Nat,
         main' = "exit" => asr' \in {"off", "broken"}
  PROVE  JobsInv'
  BY DEF JobsInv

(* The writer asks for indices it has not used.                               *)
LEMMA JobsWriter ==
  ASSUME Parts, QueueInv, JobsInv, Writer
  PROVE  JobsInv'
  <1> USE DEF Live
  <1>1. /\ ses \in DOMAIN meta /\ DOMAIN meta \subseteq Sessions /\ next \in Nat /\ ses \in Nat
        /\ queue \in Seq(Chunks) /\ \A s \in DOMAIN meta : meta[s] \subseteq 0..MaxIndex
    BY PipelineAssumption DEF Parts, StateOK
  <1>2. \A c \in Elems(asked) : c[1] \in Nat /\ c[2] \in Nat
    <2>1. Sessions \subseteq Nat /\ 0..MaxIndex \subseteq Nat
      BY PipelineAssumption
    <2> TAKE c \in Elems(asked)
    <2>2. c[1] \in DOMAIN meta /\ c[2] \in meta[c[1]]
      BY DEF QueueInv
    <2>3. c[2] \in 0..MaxIndex
      BY <1>1, <2>2
    <2> QED BY <1>1, <2>1, <2>2, <2>3
  <1>3. main # "exit"
    BY DEF Writer, ListChunk, IndexChunk, SendJob, BeginSession, RetireSession, DropRow, DropDir,
           WriterReturns, WriterFails
  <1>4. CASE ListChunk \/ IndexChunk \/ DropRow \/ WriterReturns \/ WriterFails
    <2>1. UNCHANGED <<ses, next, target, asked, told, queue, asr, job, main>>
      BY <1>4 DEF ListChunk, IndexChunk, DropRow, WriterReturns, WriterFails, asrVars, mainVars
    <2>2. writer' = "off" => writer = "off" \/ target = None
      BY <1>4 DEF ListChunk, IndexChunk, DropRow, WriterReturns, WriterFails
    <2>3. InWork' = InWork
      BY <2>1 DEF InWork
    <2> QED BY <1>3, <2>1, <2>2, <2>3, JobsFrame
  <1>5. ASSUME NEW s \in Sessions, BeginSession(s) PROVE JobsInv'
    <2>1. /\ UNCHANGED <<ses, next, asked, told, queue, asr, job, main>>
          /\ writer = "idle" /\ writer' = "idle"
      BY <1>5 DEF BeginSession, asrVars, mainVars
    <2>2. InWork' = InWork
      BY <2>1 DEF InWork
    <2> QED BY <1>3, <2>1, <2>2, JobsFrame
  <1>6. CASE RetireSession \/ DropDir
    <2>1. /\ UNCHANGED <<asked, told, queue, asr, job, main>>
          /\ ses' = target /\ writer' = "idle"
      BY <1>6 DEF RetireSession, DropDir, MovedOn, asrVars, mainVars
    <2>2. target # None
      BY <1>6 DEF RetireSession, DropDir, Parts, WriterInv
    <2>3. ses' > ses /\ ses' \in Nat
      BY <1>1, <2>1, <2>2, PipelineAssumption DEF Parts, StateOK, WriterInv
    <2>4. InWork' = InWork
      BY <2>1 DEF InWork
    <2> QED BY <1>1, <1>2, <1>3, <2>1, <2>3, <2>4, JobsFrame
  <1>7. CASE SendJob
    <2>1. PICK c : c = <<ses, next>>
      OBVIOUS
    <2>2. /\ writer = "indexed" /\ writer' = "idle" /\ asked' = Append(asked, c)
          /\ queue' = IF asr = "broken" THEN queue ELSE Append(queue, c)
          /\ next' = next + 1
          /\ UNCHANGED <<ses, asr, job, told, main>>
      BY <1>7, <2>1 DEF SendJob, asrVars, mainVars
    <2>3. c \in Chunks /\ c[1] = ses /\ c[2] = next
      BY <1>1, <2>1, <2>2, ChunkIs DEF Parts, WriterInv
    <2>4. c \notin Elems(asked)
      BY <1>1, <2>3 DEF JobsInv
    <2>5. Elems(asked') = Elems(asked) \cup {c}
      BY <2>2, <2>3, ElemsAppend DEF QueueInv
    <2>6. Elems(queue') \subseteq Elems(queue) \cup {c}
      BY <1>1, <2>2, <2>3, ElemsAppend
    <2>7. c \notin Elems(queue) /\ c \notin Elems(told) /\ c \notin InWork
      BY <2>4 DEF JobsInv
    <2>8. \A j, k \in 1..Len(queue') : queue'[j] = queue'[k] => j = k
      <3>1. CASE queue' = queue
        BY <3>1 DEF JobsInv
      <3>2. CASE queue' = Append(queue, c)
        <4>1. Len(queue) \in Nat /\ Len(queue') = Len(queue) + 1 /\ queue'[Len(queue) + 1] = c
              /\ \A k \in 1..Len(queue) : queue'[k] = queue[k]
          BY <1>1, <2>3, <3>2
        <4>2. \A k \in 1..Len(queue) : queue[k] # c
          BY <2>7 DEF Elems
        <4> TAKE j, k \in 1..Len(queue')
        <4>3. (j \in 1..Len(queue) \/ j = Len(queue) + 1) /\ (k \in 1..Len(queue) \/ k = Len(queue) + 1)
          BY <4>1
        <4> QED BY <4>1, <4>2, <4>3 DEF JobsInv
      <3> QED BY <2>2, <3>1, <3>2
    <2>9. InWork' = InWork
      BY <2>2 DEF InWork
    <2>10. \A d \in Elems(asked') : d[1] < ses \/ (d[1] = ses /\ d[2] < next')
      BY <1>1, <1>2, <2>2, <2>3, <2>5 DEF JobsInv
    <2> QED BY <1>3, <2>2, <2>5, <2>6, <2>7, <2>8, <2>9, <2>10 DEF JobsInv
  <1> QED BY <1>4, <1>5, <1>6, <1>7 DEF Writer

(* A job moves from the queue to the work, and from there to the told ones.   *)
LEMMA JobsTranscriber ==
  ASSUME Parts, QueueInv, JobsInv, Transcriber
  PROVE  JobsInv'
  <1>1. queue \in Seq(Chunks) /\ main # "exit"
    BY DEF Parts, StateOK, Transcriber, LoadModel, TakeJob, Transcribe, MarkFailed, WriteJson,
           WriteText, RecordSegments, TranscriberReturns, Live
  <1>2. UNCHANGED <<asked, ses, next, target, writer, main>>
    BY DEF Transcriber, LoadModel, TakeJob, Transcribe, MarkFailed, WriteJson,
           WriteText, RecordSegments, TranscriberReturns, writerVars, mainVars
  <1>3. CASE LoadModel
    <2>1. /\ asr = "loading" /\ told' = told
          /\ \/ asr' = "wait" /\ queue' = queue
             \/ asr' = "broken" /\ queue' = <<>>
      BY <1>3 DEF LoadModel
    <2>2. queue' = queue \/ (Elems(queue') = {} /\ 1..Len(queue') = {})
      BY <2>1, ElemsEmpty
    <2>3. InWork' = {} /\ InWork = {}
      BY <2>1 DEF InWork
    <2> QED BY <1>1, <1>2, <2>1, <2>2, <2>3 DEF JobsInv
  <1>4. CASE TakeJob
    <2>1. PICK c : c = Head(queue)
      OBVIOUS
    <2>2. /\ asr = "wait" /\ queue # <<>> /\ queue' = Tail(queue) /\ told' = told
          /\ \/ job' = c /\ asr' = "infer"
             \/ asr' = asr
      BY <1>4, <2>1 DEF TakeJob
    <2>3. Elems(queue) = {c} \cup Elems(queue')
      BY <1>1, <2>1, <2>2, ElemsHead
    <2>4. /\ Len(queue) \in Nat /\ Len(queue) > 0 /\ Len(queue') = Len(queue) - 1
          /\ queue[1] = c /\ \A k \in 1..Len(queue') : queue'[k] = queue[k + 1]
      BY <1>1, <2>1, <2>2
    <2>5. c \notin Elems(queue')
      <3> SUFFICES ASSUME NEW k \in 1..Len(queue'), queue'[k] = c PROVE FALSE
        BY DEF Elems
      <3>1. k + 1 \in 1..Len(queue) /\ 1 \in 1..Len(queue) /\ queue[k + 1] = queue[1]
        BY <2>4
      <3>2. k + 1 = 1
        BY <3>1 DEF JobsInv
      <3> QED BY <3>2
    <2>6. \A j, k \in 1..Len(queue') : queue'[j] = queue'[k] => j = k
      <3> TAKE j, k \in 1..Len(queue')
      <3>1. j + 1 \in 1..Len(queue) /\ k + 1 \in 1..Len(queue)
        BY <2>4
      <3>2. queue[j + 1] = queue[k + 1] => j + 1 = k + 1
        BY <3>1 DEF JobsInv
      <3> QED BY <2>4, <3>2
    <2>7. InWork' \subseteq {c} /\ asr' # "index"
      BY <2>2 DEF InWork
    <2> QED BY <1>1, <1>2, <2>2, <2>3, <2>5, <2>6, <2>7 DEF JobsInv
  <1>5. CASE Transcribe \/ WriteJson \/ TranscriberReturns \/ MarkFailed \/ RecordSegments
    <2>1. /\ UNCHANGED <<told, queue>> /\ asr' # "index"
          /\ InWork' \subseteq InWork
      BY <1>5 DEF Transcribe, WriteJson, TranscriberReturns, MarkFailed, RecordSegments, InWork
    <2> QED BY <1>1, <1>2, <2>1 DEF JobsInv
  <1>6. CASE WriteText
    <2>1. /\ asr = "text" /\ asr' = "index" /\ told' = Append(told, job) /\ job' = job
          /\ queue' = queue
      BY <1>6 DEF WriteText
    <2>2. job \in Chunks
      BY <2>1 DEF Parts, AsrInv
    <2>3. Elems(told') = Elems(told) \cup {job}
      BY <2>1, <2>2, ElemsAppend DEF QueueInv
    <2>4. InWork = {job} /\ InWork' = {}
      BY <2>1 DEF InWork
    <2> QED BY <1>1, <1>2, <2>1, <2>3, <2>4 DEF JobsInv
  <1> QED BY <1>3, <1>4, <1>5, <1>6 DEF Transcriber

(* Nobody else touches a job.                                                 *)
LEMMA JobsRest ==
  ASSUME Parts, JobsInv,
         \/ Main \/ UiReturns \/ Killed \/ LoseIndex \/ Reindex \/ Terminated
         \/ UNCHANGED vars
  PROVE  JobsInv'
  <1>1. UNCHANGED <<writerVars, queue, asrVars>>
    BY DEF Main, JoinWriter, JoinTranscriber, UiReturns, Killed,
           LoseIndex, Reindex, StartReindex, ReadMeta, UpsertRow, UpsertChunk,
           UpsertSegments, SessionDone, ReindexDone, Terminated, vars
  <1>2. main' = "exit" => main = "exit" \/ asr \in {"off", "broken"}
    BY DEF Main, JoinWriter, JoinTranscriber, UiReturns, Killed,
           LoseIndex, Reindex, StartReindex, ReadMeta, UpsertRow, UpsertChunk,
           UpsertSegments, SessionDone, ReindexDone, Terminated, vars, mainVars
  <1>3. InWork' = InWork
    BY <1>1 DEF InWork, asrVars
  <1> QED BY <1>1, <1>2, <1>3, JobsFrame DEF writerVars, asrVars, JobsInv

(* So every step keeps it.                                                    *)
LEMMA JobsStep == Parts /\ QueueInv /\ JobsInv /\ [Next]_vars => JobsInv'
  BY JobsWriter, JobsTranscriber, JobsRest DEF Next

-----------------------------------------------------------------------------
(* The transcript the transcriber has in memory is the end of what it told:   *)
(* all its chunks are of one session, and everything told before them is of   *)
(* an earlier one, since the queue never goes back to a session.  So what is  *)
(* written of it begins with the session's first chunk and skips none.        *)
TextTypes ==
    /\ told \in Seq(Chunks)
    /\ text \in [session : Sessions \cup {None}, chunks : Seq(Chunks)]
    /\ DOMAIN md \subseteq Sessions /\ \A s \in DOMAIN md : md[s] \in Seq(Chunks)

QueueOrder ==
    /\ \A j, k \in 1..Len(queue) : j <= k => queue[j][1] <= queue[k][1]
    /\ \A k \in 1..Len(queue) : queue[k][1] <= ses

TextIsTail ==
    LET before == Len(told) - Len(text.chunks)
    IN  /\ before >= 0
        /\ \A p \in 1..before : told[p][1] < text.session
        /\ \A k \in 1..Len(text.chunks) :
               text.chunks[k] = told[before + k] /\ text.chunks[k][1] = text.session

TextAhead ==
    /\ text.session <= ses
    /\ \A k \in 1..Len(queue) : text.session <= queue[k][1]

TextInv ==
    /\ asr \in {"infer", "json", "text"} => job[1] = text.session
    /\ text.session = None => told = <<>> /\ text.chunks = <<>>
    /\ text.session # None => TextIsTail /\ TextAhead

TranscriptInv == TextTypes /\ QueueOrder /\ TextInv /\ TranscriptIsItsSessions

(* At first nothing is told and nothing written.                              *)
LEMMA InitTranscript == Init => TranscriptInv
  <1> SUFFICES ASSUME Init PROVE TranscriptInv
    OBVIOUS
  <1>1. /\ queue = <<>> /\ text = [session |-> None, chunks |-> <<>>] /\ md = <<>>
        /\ told = <<>> /\ asr = "loading"
    BY DEF Init
  <1>2. text.session = None /\ text.chunks = <<>> /\ DOMAIN md = {}
    BY <1>1
  <1>3. TextTypes
    BY <1>1, <1>2 DEF TextTypes
  <1>4. QueueOrder
    BY <1>1 DEF QueueOrder
  <1>5. TextInv
    BY <1>1, <1>2 DEF TextInv
  <1>6. TranscriptIsItsSessions
    BY <1>2 DEF TranscriptIsItsSessions
  <1> QED BY <1>3, <1>4, <1>5, <1>6 DEF TranscriptInv

(* A chunk's session is a number.                                             *)
LEMMA ChunkSession ==
  ASSUME NEW c \in Chunks
  PROVE  c[1] \in Sessions /\ c[1] \in Nat /\ c[1] # None
  BY DEF Chunks

LEMMA SeqSessions ==
  ASSUME NEW q \in Seq(Chunks)
  PROVE  \A k \in 1..Len(q) : q[k] \in Chunks /\ q[k][1] \in Nat
  <1> TAKE k \in 1..Len(q)
  <1>1. q[k] \in Chunks
    OBVIOUS
  <1> QED BY <1>1, ChunkSession

(* Transcripts are right as long as nothing is told or written.               *)
LEMMA TranscriptSame ==
  ASSUME TranscriptIsItsSessions, UNCHANGED <<told, md>>
  PROVE  TranscriptIsItsSessions'
  <1> SUFFICES ASSUME NEW s \in DOMAIN md' PROVE IsTranscriptOf(s, md[s])'
    BY DEF TranscriptIsItsSessions
  <1>1. PICK m : m = md[s]
    OBVIOUS
  <1>2. IsTranscriptOf(s, m)
    BY <1>1 DEF TranscriptIsItsSessions
  <1>3. IsTranscriptOf(s, m)'
    <2>1. PICK before \in 0..(Len(told) - Len(m)) :
             /\ \A p \in 1..before : told[p][1] # s
             /\ \A k \in 1..Len(m) : m[k] = told[before + k] /\ m[k][1] = s
      BY <1>2 DEF IsTranscriptOf
    <2> QED BY <2>1 DEF IsTranscriptOf
  <1> QED BY <1>1, <1>3

(* A step that tells nothing, and leaves the queue alone.                     *)
LEMMA TranscriptFrame ==
  ASSUME TranscriptInv, UNCHANGED <<told, text, md, queue>>,
         asr' \in {"infer", "json", "text"} =>
             asr \in {"infer", "json", "text"} /\ job' = job,
         ses \in Nat, ses' \in Nat, ses' >= ses, queue \in Seq(Chunks)
  PROVE  TranscriptInv'
  <1>1. \A k \in 1..Len(queue) : queue[k][1] \in Nat
    BY SeqSessions
  <1>2. text.session # None => text.session \in Nat
    BY DEF TranscriptInv, TextTypes
  <1>3. TextTypes'
    BY DEF TranscriptInv, TextTypes
  <1>4. QueueOrder'
    BY <1>1 DEF TranscriptInv, QueueOrder
  <1>5. TextIsTail => TextIsTail'
    BY DEF TextIsTail
  <1>6. text.session # None /\ TextAhead => TextAhead'
    BY <1>2 DEF TextAhead
  <1>7. TextInv'
    BY <1>5, <1>6 DEF TranscriptInv, TextInv
  <1>8. TranscriptIsItsSessions'
    BY TranscriptSame DEF TranscriptInv
  <1> QED BY <1>3, <1>4, <1>7, <1>8 DEF TranscriptInv

(* The writer sends a job of its own session, which no earlier job is beyond. *)
LEMMA TranscriptWriter ==
  ASSUME Parts, TranscriptInv, Writer
  PROVE  TranscriptInv'
  <1>1. /\ ses \in Sessions /\ ses \in Nat /\ queue \in Seq(Chunks)
        /\ target = None \/ target \in Nat
    BY DEF Parts, StateOK
  <1>2. UNCHANGED <<told, text, md, asr, job>>
    BY DEF Writer, ListChunk, IndexChunk, SendJob, BeginSession, RetireSession, DropRow,
           DropDir, WriterReturns, WriterFails, asrVars
  <1>3. CASE SendJob
    <2>1. CASE queue' = queue
      BY <1>1, <1>2, <1>3, <2>1, TranscriptFrame DEF SendJob
    <2>2. CASE queue' # queue
      <3>1. PICK c : c = <<ses, next>>
        OBVIOUS
      <3>2. /\ queue' = Append(queue, c) /\ ses' = ses /\ c[1] = ses /\ writer = "indexed"
        BY <1>3, <2>2, <3>1 DEF SendJob
      <3>3. c \in Chunks
        <4>1. next \in meta[ses] /\ meta[ses] \subseteq 0..MaxIndex
          BY <3>2 DEF Parts, WriterInv, StateOK
        <4> QED BY <1>1, <3>1, <4>1, ChunkIs
      <3>4. /\ Len(queue) \in Nat /\ Len(queue') = Len(queue) + 1
            /\ \A k \in 1..Len(queue) : queue'[k] = queue[k]
            /\ queue'[Len(queue) + 1] = c
        BY <1>1, <3>2, <3>3
      <3>5. \A k \in 1..Len(queue') :
               \/ k \in 1..Len(queue) /\ queue'[k] = queue[k]
               \/ k = Len(queue) + 1 /\ queue'[k] = c
        BY <3>4
      <3>6. \A k \in 1..Len(queue) : queue[k][1] \in Nat
        BY <1>1, SeqSessions
      <3>7. \A k \in 1..Len(queue') : queue'[k][1] <= ses
        BY <1>1, <3>2, <3>5 DEF TranscriptInv, QueueOrder
      <3>8. ASSUME NEW j \in 1..Len(queue'), NEW k \in 1..Len(queue'), j <= k
            PROVE  queue'[j][1] <= queue'[k][1]
        <4>1. CASE k \in 1..Len(queue) /\ queue'[k] = queue[k]
          <5>1. j \in 1..Len(queue) /\ queue'[j] = queue[j]
            BY <3>4, <3>8, <4>1
          <5> QED BY <3>8, <4>1, <5>1 DEF TranscriptInv, QueueOrder
        <4>2. CASE k = Len(queue) + 1 /\ queue'[k] = c
          BY <3>2, <3>7, <4>2
        <4> QED BY <3>5, <4>1, <4>2
      <3>9. QueueOrder'
        BY <3>2, <3>7, <3>8 DEF QueueOrder
      <3>10. text.session # None /\ TextAhead => TextAhead'
        BY <1>2, <3>2, <3>5 DEF TextAhead
      <3>11. TextIsTail => TextIsTail'
        BY <1>2 DEF TextIsTail
      <3>12. TextInv'
        BY <1>2, <3>10, <3>11 DEF TranscriptInv, TextInv
      <3>13. TextTypes' /\ TranscriptIsItsSessions'
        BY <1>2, TranscriptSame DEF TranscriptInv, TextTypes
      <3> QED BY <3>9, <3>12, <3>13 DEF TranscriptInv
    <2> QED BY <2>1, <2>2
  <1>4. CASE ~SendJob
    <2>1. queue' = queue
      BY <1>4 DEF Writer, ListChunk, IndexChunk, BeginSession, RetireSession, DropRow,
                  DropDir, WriterReturns, WriterFails
    <2>2. ses' = ses \/ (ses' = target /\ target # None)
      BY <1>4 DEF Writer, ListChunk, IndexChunk, BeginSession, RetireSession, DropRow,
                  DropDir, WriterReturns, WriterFails, MovedOn, Parts, WriterInv
    <2>3. ses' \in Nat /\ ses' >= ses
      BY <1>1, <2>2 DEF Parts, WriterInv
    <2> QED BY <1>1, <1>2, <2>1, <2>3, TranscriptFrame
  <1> QED BY <1>3, <1>4

(* The next job is of the session in memory, or of a later one than all that  *)
(* was told.                                                                  *)
LEMMA TranscriptTake ==
  ASSUME Parts, TranscriptInv, TakeJob
  PROVE  TranscriptInv'
  <1>1. PICK c : c = Head(queue)
    OBVIOUS
  <1>2. PICK s : s = c[1]
    OBVIOUS
  <1>3. /\ asr = "wait" /\ queue # <<>> /\ queue' = Tail(queue) /\ text' = TextFor(s)
        /\ (job' = c /\ asr' = "infer") \/ asr' = asr
        /\ UNCHANGED <<told, md, ses>>
    BY <1>1, <1>2 DEF TakeJob, writerVars
  <1>4. /\ queue \in Seq(Chunks) /\ ses \in Nat
    BY DEF Parts, StateOK
  <1>5. /\ Len(queue) \in Nat /\ Len(queue) > 0 /\ Len(queue') = Len(queue) - 1
        /\ queue[1] = c /\ \A k \in 1..Len(queue') : queue'[k] = queue[k + 1]
    BY <1>1, <1>3, <1>4
  <1>6. 1 \in 1..Len(queue) /\ \A k \in 1..Len(queue') : k + 1 \in 1..Len(queue)
    BY <1>5
  <1>7. c \in Chunks /\ s \in Sessions /\ s \in Nat /\ s # None
    <2>1. c \in Chunks
      BY <1>4, <1>5, <1>6
    <2> QED BY <1>2, <2>1 DEF Chunks
  <1>8. text'.session = s /\ text' \in [session : Sessions \cup {None}, chunks : Seq(Chunks)]
    BY <1>3, <1>7 DEF TextFor, TranscriptInv, TextTypes
  <1>9. TextTypes'
    BY <1>3, <1>8 DEF TranscriptInv, TextTypes
  <1>10. QueueOrder'
    <2>1. ASSUME NEW j \in 1..Len(queue'), NEW k \in 1..Len(queue'), j <= k
          PROVE  queue'[j][1] <= queue'[k][1]
      <3>1. j + 1 \in 1..Len(queue) /\ k + 1 \in 1..Len(queue) /\ j + 1 <= k + 1
        BY <1>6, <2>1
      <3>2. queue[j + 1][1] <= queue[k + 1][1]
        BY <3>1 DEF TranscriptInv, QueueOrder
      <3> QED BY <1>5, <3>2
    <2>2. \A k \in 1..Len(queue') : queue'[k][1] <= ses
      BY <1>5, <1>6 DEF TranscriptInv, QueueOrder
    <2> QED BY <1>3, <2>1, <2>2 DEF QueueOrder
  <1>11. TextAhead'
    <2>1. s <= ses
      BY <1>2, <1>5, <1>6 DEF TranscriptInv, QueueOrder
    <2>2. ASSUME NEW k \in 1..Len(queue') PROVE s <= queue'[k][1]
      <3>1. k + 1 \in 1..Len(queue) /\ 1 <= k + 1
        BY <1>6, <2>2
      <3>2. queue[1][1] <= queue[k + 1][1]
        BY <1>6, <3>1 DEF TranscriptInv, QueueOrder
      <3> QED BY <1>2, <1>5, <3>2
    <2> QED BY <1>3, <1>8, <2>1, <2>2 DEF TextAhead
  <1>12. TextIsTail'
    <2>1. CASE text.session = s
      <3>1. text' = text /\ TextIsTail
        BY <1>3, <1>7, <2>1 DEF TextFor, TranscriptInv, TextInv
      <3> QED BY <1>3, <3>1 DEF TextIsTail
    <2>2. CASE text.session # s
      <3>1. text'.chunks = <<>> /\ text'.session = s
        BY <1>3, <2>2 DEF TextFor
      <3>2. Len(told) \in Nat /\ Len(text'.chunks) = 0
        BY <3>1 DEF TranscriptInv, TextTypes
      <3>3. ASSUME NEW p \in 1..Len(told) PROVE told[p][1] < s
        <4>1. text.session # None /\ TextIsTail
          BY <3>3 DEF TranscriptInv, TextInv
        <4>2. text.session \in Nat /\ text.session < s
          <5>1. text.session <= s
            BY <1>2, <1>5, <1>6, <4>1 DEF TranscriptInv, TextInv, TextAhead
          <5>2. text.session \in Nat
            BY <4>1 DEF TranscriptInv, TextTypes
          <5> QED BY <1>7, <2>2, <5>1, <5>2
        <4>3. told[p][1] \in Nat
          BY <3>3, SeqSessions DEF TranscriptInv, TextTypes
        <4>4. told[p][1] <= text.session
          <5>1. PICK n : n = Len(text.chunks)
            OBVIOUS
          <5>2. n \in Nat
            BY <5>1 DEF TranscriptInv, TextTypes
          <5>3. CASE p <= Len(told) - n
            <6>1. p \in 1..(Len(told) - n)
              BY <3>2, <3>3, <5>2, <5>3
            <6> QED BY <4>1, <4>2, <4>3, <5>1, <6>1 DEF TextIsTail
          <5>4. CASE p > Len(told) - n
            <6>1. PICK k : k = p - (Len(told) - n)
              OBVIOUS
            <6>2. k \in 1..n /\ Len(told) - n + k = p
              BY <3>2, <3>3, <5>2, <5>4, <6>1
            <6>3. told[p][1] = text.session
              BY <4>1, <5>1, <6>2 DEF TextIsTail
            <6> QED BY <4>2, <6>3
          <5> QED BY <3>2, <3>3, <5>2, <5>3, <5>4
        <4> QED BY <1>7, <4>2, <4>3, <4>4
      <3> QED BY <1>3, <3>1, <3>2, <3>3 DEF TextIsTail
    <2> QED BY <2>1, <2>2
  <1>13. TextInv'
    BY <1>2, <1>3, <1>7, <1>8, <1>11, <1>12 DEF TextInv
  <1>14. TranscriptIsItsSessions'
    BY <1>3, TranscriptSame DEF TranscriptInv
  <1> QED BY <1>9, <1>10, <1>13, <1>14 DEF TranscriptInv

(* What is told later changes no transcript that was right.                   *)
LEMMA TranscriptStays ==
  ASSUME told \in Seq(Chunks), NEW c \in Chunks, told' = Append(told, c),
         NEW s, NEW m \in Seq(Chunks), IsTranscriptOf(s, m)
  PROVE  IsTranscriptOf(s, m)'
  <1>1. PICK before \in 0..(Len(told) - Len(m)) :
           /\ \A p \in 1..before : told[p][1] # s
           /\ \A k \in 1..Len(m) : m[k] = told[before + k] /\ m[k][1] = s
    BY DEF IsTranscriptOf
  <1>2. /\ Len(told) \in Nat /\ Len(m) \in Nat /\ Len(told') = Len(told) + 1
        /\ \A p \in 1..Len(told) : told'[p] = told[p]
    OBVIOUS
  <1>3. before \in 0..(Len(told') - Len(m))
    BY <1>2
  <1>4. \A p \in 1..before : told'[p][1] # s
    BY <1>1, <1>2
  <1>5. ASSUME NEW k \in 1..Len(m) PROVE m[k] = told'[before + k] /\ m[k][1] = s
    <2>1. before + k \in 1..Len(told)
      BY <1>2, <1>5
    <2> QED BY <1>1, <1>2, <1>5, <2>1
  <1> QED BY <1>3, <1>4, <1>5 DEF IsTranscriptOf

(* The chunk is told and added to the transcript in memory, which is written  *)
(* or not.                                                                    *)
LEMMA TranscriptText ==
  ASSUME Parts, TranscriptInv, WriteText
  PROVE  TranscriptInv'
  <1>1. PICK s, old, new : s = text.session /\ old = text.chunks /\ new = text'.chunks
    OBVIOUS
  <1>2. /\ asr = "text" /\ asr' = "index" /\ told' = Append(told, job)
        /\ text' = [text EXCEPT !.chunks = Append(@, job)]
        /\ md' = With(md, job[1], new) \/ md' = md
        /\ UNCHANGED <<job, queue, ses>>
    BY <1>1 DEF WriteText, writerVars
  <1>3. job \in Chunks /\ job[1] = s /\ s \in Sessions /\ s # None /\ s \in Nat
    <2>1. job \in Chunks
      BY <1>2 DEF Parts, AsrInv
    <2>2. job[1] = s
      BY <1>1, <1>2 DEF TranscriptInv, TextInv
    <2> QED BY <2>1, <2>2 DEF Chunks
  <1>4. /\ told \in Seq(Chunks) /\ old \in Seq(Chunks)
        /\ new = Append(old, job) /\ text'.session = s
        /\ text' \in [session : Sessions \cup {None}, chunks : Seq(Chunks)]
    <2>1. /\ told \in Seq(Chunks) /\ old \in Seq(Chunks)
          /\ text \in [session : Sessions \cup {None}, chunks : Seq(Chunks)]
      BY <1>1 DEF TranscriptInv, TextTypes
    <2>2. Append(old, job) \in Seq(Chunks)
      BY <1>3, <2>1
    <2>3. text' = [session |-> s, chunks |-> Append(old, job)]
      BY <1>1, <1>2, <2>1
    <2>4. text'.chunks = Append(old, job) /\ text'.session = s
      BY <2>3
    <2>5. text' \in [session : Sessions \cup {None}, chunks : Seq(Chunks)]
      BY <1>3, <2>2, <2>3
    <2> QED BY <1>1, <2>1, <2>4, <2>5
  <1>5. /\ Len(told) \in Nat /\ Len(told') = Len(told) + 1 /\ told' \in Seq(Chunks)
        /\ \A p \in 1..Len(told) : told'[p] = told[p]
        /\ told'[Len(told) + 1] = job
    BY <1>2, <1>3, <1>4
  <1>6. /\ Len(old) \in Nat /\ Len(new) = Len(old) + 1 /\ new \in Seq(Chunks)
        /\ \A k \in 1..Len(old) : new[k] = old[k]
        /\ new[Len(old) + 1] = job
    BY <1>3, <1>4
  <1>7. PICK before : before = Len(told) - Len(old)
    OBVIOUS
  <1>8. /\ before \in Nat /\ Len(told') - Len(new) = before
        /\ \A p \in 1..before : told[p][1] < s
        /\ \A k \in 1..Len(old) : old[k] = told[before + k] /\ old[k][1] = s
    <2>1. TextIsTail
      BY <1>1, <1>3 DEF TranscriptInv, TextInv
    <2>2. /\ before >= 0
          /\ \A p \in 1..before : told[p][1] < s
          /\ \A k \in 1..Len(old) : old[k] = told[before + k] /\ old[k][1] = s
      BY <1>1, <1>7, <2>1 DEF TextIsTail
    <2>3. before \in Nat /\ Len(told') - Len(new) = before
      BY <1>5, <1>6, <1>7, <2>2
    <2> QED BY <2>2, <2>3
  <1>9. \A p \in 1..before : told'[p] = told[p]
    BY <1>5, <1>6, <1>7
  <1>10. ASSUME NEW k \in 1..Len(new) PROVE new[k] = told'[before + k] /\ new[k][1] = s
    <2>1. CASE k \in 1..Len(old)
      <3>1. before + k \in 1..Len(told)
        BY <1>5, <1>6, <1>7, <1>8, <2>1
      <3> QED BY <1>5, <1>6, <1>8, <2>1, <3>1
    <2>2. CASE k = Len(old) + 1
      <3>1. before + k = Len(told) + 1
        BY <1>5, <1>6, <1>7, <2>2
      <3> QED BY <1>3, <1>5, <1>6, <2>2, <3>1
    <2> QED BY <1>6, <1>10, <2>1, <2>2
  <1>11. TextIsTail'
    <2>1. Len(told') - Len(text'.chunks) = before /\ before >= 0
      BY <1>1, <1>8
    <2>2. \A p \in 1..before : told'[p][1] < text'.session
      BY <1>4, <1>8, <1>9
    <2>3. \A k \in 1..Len(text'.chunks) :
             text'.chunks[k] = told'[before + k] /\ text'.chunks[k][1] = text'.session
      BY <1>1, <1>4, <1>10
    <2> QED BY <2>1, <2>2, <2>3 DEF TextIsTail
  <1>12. TextAhead'
    BY <1>1, <1>2, <1>3, <1>4 DEF TranscriptInv, TextInv, TextAhead
  <1>13. TextInv'
    BY <1>2, <1>3, <1>4, <1>11, <1>12 DEF TextInv
  <1>14. QueueOrder'
    BY <1>2 DEF TranscriptInv, QueueOrder
  <1>15. ASSUME NEW r \in DOMAIN md'
         PROVE  r \in Sessions /\ md'[r] \in Seq(Chunks) /\ IsTranscriptOf(r, md[r])'
    <2>1. CASE r \in DOMAIN md /\ md'[r] = md[r]
      <3>1. PICK m : m = md[r]
        OBVIOUS
      <3>2. r \in Sessions /\ m \in Seq(Chunks) /\ IsTranscriptOf(r, m)
        BY <2>1, <3>1 DEF TranscriptInv, TextTypes, TranscriptIsItsSessions
      <3>3. IsTranscriptOf(r, m)'
        BY <1>2, <1>3, <1>4, <3>2, TranscriptStays
      <3> QED BY <2>1, <3>1, <3>2, <3>3
    <2>2. CASE r = s /\ md'[r] = new
      <3>1. before \in 0..(Len(told') - Len(new))
        BY <1>5, <1>6, <1>8
      <3>2. \A p \in 1..before : told'[p][1] # s
        <4> TAKE p \in 1..before
        <4>1. told[p][1] < s /\ told'[p] = told[p]
          BY <1>8, <1>9
        <4> QED BY <1>3, <4>1
      <3>3. IsTranscriptOf(s, new)'
        BY <1>10, <3>1, <3>2 DEF IsTranscriptOf
      <3> QED BY <1>3, <1>6, <2>2, <3>3
    <2> QED BY <1>2, <1>3, <1>15, <2>1, <2>2 DEF With
  <1>16. TextTypes' /\ TranscriptIsItsSessions'
    BY <1>4, <1>5, <1>15 DEF TextTypes, TranscriptIsItsSessions
  <1> QED BY <1>13, <1>14, <1>16 DEF TranscriptInv

(* The transcriber's other steps tell nothing.                                *)
LEMMA TranscriptTranscriber ==
  ASSUME Parts, TranscriptInv, Transcriber
  PROVE  TranscriptInv'
  <1>1. ses \in Nat /\ queue \in Seq(Chunks) /\ (ses' = ses)
    BY DEF Parts, StateOK, Transcriber, LoadModel, TakeJob, Transcribe, MarkFailed, WriteJson,
           WriteText, RecordSegments, TranscriberReturns, writerVars
  <1>2. CASE LoadModel /\ queue' # queue
    <2>1. /\ queue' = <<>> /\ asr' = "broken" /\ UNCHANGED <<told, text, md>>
      BY <1>2 DEF LoadModel
    <2>2. TextIsTail => TextIsTail'
      BY <2>1 DEF TextIsTail
    <2>3. TextAhead => TextAhead'
      BY <1>1, <2>1 DEF TextAhead
    <2>4. TextInv'
      BY <2>1, <2>2, <2>3 DEF TranscriptInv, TextInv
    <2>5. QueueOrder'
      BY <2>1 DEF QueueOrder
    <2>6. TextTypes' /\ TranscriptIsItsSessions'
      BY <2>1, TranscriptSame DEF TranscriptInv, TextTypes
    <2> QED BY <2>4, <2>5, <2>6 DEF TranscriptInv
  <1>3. CASE (LoadModel /\ queue' = queue) \/ Transcribe \/ MarkFailed \/ WriteJson
             \/ RecordSegments \/ TranscriberReturns
    <2>1. UNCHANGED <<told, text, md, queue>>
      BY <1>3 DEF LoadModel, Transcribe, MarkFailed, WriteJson, RecordSegments,
                  TranscriberReturns
    <2>2. asr' \in {"infer", "json", "text"} => asr \in {"infer", "json", "text"} /\ job' = job
      BY <1>3 DEF LoadModel, Transcribe, MarkFailed, WriteJson, RecordSegments,
                  TranscriberReturns
    <2> QED BY <1>1, <2>1, <2>2, TranscriptFrame
  <1> QED BY <1>2, <1>3, TranscriptTake, TranscriptText DEF Transcriber

(* Nobody else touches a transcript, so every step keeps them.                *)
LEMMA TranscriptStep == Parts /\ TranscriptInv /\ [Next]_vars => TranscriptInv'
  <1> SUFFICES ASSUME Parts, TranscriptInv, [Next]_vars PROVE TranscriptInv'
    OBVIOUS
  <1>1. CASE \/ Main \/ UiReturns \/ Killed \/ LoseIndex \/ Reindex \/ Terminated
             \/ UNCHANGED vars
    <2>1. UNCHANGED <<writerVars, queue, asrVars>>
      BY <1>1 DEF Main, JoinWriter, JoinTranscriber, UiReturns, Killed,
             LoseIndex, Reindex, StartReindex, ReadMeta, UpsertRow, UpsertChunk,
             UpsertSegments, SessionDone, ReindexDone, Terminated, vars
    <2>2. UNCHANGED <<told, text, md, queue, asr, job, ses>>
      BY <2>1 DEF writerVars, asrVars
    <2>3. ses \in Nat /\ queue \in Seq(Chunks)
      BY DEF Parts, StateOK
    <2> QED BY <2>2, <2>3, TranscriptFrame
  <1> QED BY <1>1, TranscriptWriter, TranscriptTranscriber DEF Next

(* transcript.md of a session is the session's transcribed chunks, in order   *)
(* and from the first on, whatever fails (session_for, run).                  *)
THEOREM TranscriptsDoNotMix == Spec => []TranscriptIsItsSessions
  <1>1. TranscriptInv => TranscriptIsItsSessions
    BY DEF TranscriptInv
  <1> QED BY <1>1, InitTranscript, TranscriptStep, Invariant, PTL DEF Spec

-----------------------------------------------------------------------------
(* While the index works, rows follow the files: what is asked for has a row, *)
(* what is told is marked or about to be, and a session the writer has left   *)
(* is ended.                                                                  *)
Healthy == Faults \cap {"index", "lost"} = {}

RowsInv ==
    /\ \A s \in DOMAIN meta : s \in rows \/ (writer = "dropping" /\ s = ses)
    /\ \A c \in Elems(asked) : c \in DOMAIN status
    /\ writer = "indexed" => <<ses, next>> \in DOMAIN status
    /\ \A c \in Elems(told) : status[c] = "transcribed" \/ (asr = "index" /\ job = c)
    /\ \A s \in DOMAIN meta : s \in ended \/ (s = ses /\ writer # "off") \/ s = target

(* The index loses nothing of what it had.                                    *)
RowsKept ==
    /\ rows \subseteq rows' /\ ended \subseteq ended'
    /\ DOMAIN status \subseteq DOMAIN status'
    /\ \A c \in DOMAIN status : status[c] = "transcribed" => status'[c] = "transcribed"

(* With a working index every transaction succeeds.                           *)
LEMMA HealthyIndex ==
  ASSUME Healthy
  PROVE  (\A ok \in Outcomes("index") : ok) /\ "lost" \notin Faults
  <1>1. "index" \notin Faults /\ "lost" \notin Faults
    BY DEF Healthy
  <1>2. \A ok \in Outcomes("index") : ok
    BY <1>1, Zenon DEF Outcomes
  <1> QED BY <1>1, <1>2

(* Recording a chunk keeps what there is, and adds its row.                   *)
LEMMA RecordKept ==
  ASSUME NEW c, RecordChunk(c), UNCHANGED <<rows, ended>>
  PROVE  RowsKept /\ (c[1] \in rows => c \in DOMAIN status')
  BY DEF RecordChunk, With, RowsKept

(* So does marking one as transcribed.                                        *)
LEMMA MarkKept ==
  ASSUME NEW c, MarkChunk(c, "transcribed"), UNCHANGED <<rows, ended>>
  PROVE  RowsKept /\ (c \in DOMAIN status => status'[c] = "transcribed")
  BY DEF MarkChunk, With, RowsKept

(* The first session has its row before the threads start.                    *)
LEMMA InitRows == Healthy /\ Init => RowsInv
  <1> SUFFICES ASSUME Healthy, Init PROVE RowsInv
    OBVIOUS
  <1>1. /\ asked = <<>> /\ told = <<>> /\ writer = "idle" /\ ses = 1
        /\ DOMAIN meta = {1} /\ rows = {1}
    BY HealthyIndex DEF Init
  <1> QED BY <1>1, ElemsEmpty DEF RowsInv

(* A step that only adds to the index.                                        *)
LEMMA RowsFrame ==
  ASSUME JobsInv, RowsInv, RowsKept, UNCHANGED <<ses, target, next, asked, told>>,
         DOMAIN meta' = DOMAIN meta,
         writer = "dropping" => writer' = writer,
         writer' = "indexed" => writer = "indexed",
         writer' = "off" => writer = "off" \/ ses \in ended',
         asr = "index" => (asr' = "index" /\ job' = job) \/ status'[job] = "transcribed"
  PROVE  RowsInv'
  <1>1. \A s \in DOMAIN meta' : s \in rows' \/ (writer' = "dropping" /\ s = ses')
    BY DEF RowsInv, RowsKept
  <1>2. \A c \in Elems(asked') : c \in DOMAIN status'
    BY DEF RowsInv, RowsKept
  <1>3. writer' = "indexed" => <<ses', next'>> \in DOMAIN status'
    BY DEF RowsInv, RowsKept
  <1>4. \A c \in Elems(told') : status'[c] = "transcribed" \/ (asr' = "index" /\ job' = c)
    <2> TAKE c \in Elems(told')
    <2>1. c \in DOMAIN status /\ c \in Elems(told)
      BY DEF RowsInv, JobsInv
    <2> QED BY <2>1 DEF RowsInv, RowsKept
  <1>5. \A s \in DOMAIN meta' : s \in ended' \/ (s = ses' /\ writer' # "off") \/ s = target'
    BY DEF RowsInv, RowsKept
  <1> QED BY <1>1, <1>2, <1>3, <1>4, <1>5 DEF RowsInv

(* An index left alone loses nothing.                                         *)
LEMMA SameIsKept ==
  ASSUME UNCHANGED <<rows, ended, status>>
  PROVE  RowsKept
  BY DEF RowsKept

(* The writer drops only rows of a session nothing was asked for.             *)
LEMMA RowsWriter ==
  ASSUME Healthy, Parts, QueueInv, JobsInv, RowsInv, Writer
  PROVE  RowsInv'
  <1>1. UNCHANGED <<asr, job, told>>
    BY DEF Writer, ListChunk, IndexChunk, SendJob, BeginSession, RetireSession, DropRow, DropDir,
           WriterReturns, WriterFails, asrVars
  <1>2. ses \in DOMAIN meta
    BY DEF Parts, StateOK
  <1>3. CASE ListChunk \/ WriterFails
    <2>1. /\ UNCHANGED <<rows, ended, status, ses, target, next, asked>>
          /\ DOMAIN meta' = DOMAIN meta
          /\ writer = "idle" /\ writer' \in {"listed", "failed"}
      BY <1>3 DEF ListChunk, WriterFails, indexVars
    <2> QED BY <1>1, <2>1, SameIsKept, RowsFrame
  <1>4. CASE IndexChunk
    <2>1. PICK c : c = <<ses, next>>
      OBVIOUS
    <2>2. /\ UNCHANGED <<ses, target, next, asked, meta, rows, ended>>
          /\ writer = "listed" /\ writer' = "indexed" /\ RecordChunk(c)
      BY <1>4, <2>1, HealthyIndex DEF IndexChunk
    <2>3. ses \in rows /\ c[1] = ses
      BY <1>2, <2>1, <2>2 DEF RowsInv
    <2>4. RowsKept /\ c \in DOMAIN status'
      BY <2>2, <2>3, RecordKept
    <2>5. \A d \in Elems(told) : status'[d] = "transcribed" \/ (asr = "index" /\ job = d)
      <3> TAKE d \in Elems(told)
      <3>1. d \in DOMAIN status
        BY DEF RowsInv, JobsInv
      <3> QED BY <2>4, <3>1 DEF RowsInv, RowsKept
    <2> QED BY <1>1, <2>1, <2>2, <2>4, <2>5 DEF RowsInv, RowsKept
  <1>5. CASE SendJob
    <2>1. PICK c : c = <<ses, next>>
      OBVIOUS
    <2>2. /\ writer = "indexed" /\ writer' = "idle" /\ asked' = Append(asked, c)
          /\ UNCHANGED <<ses, target, meta, rows, ended, status>>
      BY <1>5, <2>1 DEF SendJob, indexVars
    <2>3. c \in DOMAIN status /\ c \in Chunks
      BY <2>1, <2>2 DEF RowsInv, Parts, IndexOK
    <2>4. Elems(asked') = Elems(asked) \cup {c}
      BY <2>2, <2>3, ElemsAppend DEF QueueInv
    <2> QED BY <1>1, <2>2, <2>3, <2>4 DEF RowsInv
  <1>6. ASSUME NEW s \in Sessions, BeginSession(s) PROVE RowsInv'
    <2>1. /\ DOMAIN meta' = DOMAIN meta \cup {s} /\ rows' = rows \cup {s}
          /\ target = None /\ target' = s /\ writer = "idle" /\ writer' = writer
          /\ UNCHANGED <<ses, next, asked, ended, status>>
      BY <1>6, HealthyIndex DEF BeginSession, With, StartRow
    <2>2. None \notin DOMAIN meta
      BY PipelineAssumption DEF Parts, StateOK
    <2> QED BY <1>1, <2>1, <2>2 DEF RowsInv
  <1>7. CASE RetireSession
    <2>1. /\ FinishRow(ses) /\ ses' = target /\ target' = None /\ writer = "idle"
          /\ target # None /\ UNCHANGED <<writer, asked, meta, rows, status>>
      BY <1>7, HealthyIndex DEF RetireSession, MovedOn
    <2>2. ses \in rows
      BY <1>2, <2>1 DEF RowsInv
    <2>3. ended' = ended \cup {ses}
      BY <2>1, <2>2 DEF FinishRow
    <2> QED BY <1>1, <2>1, <2>3 DEF RowsInv
  <1>8. CASE DropRow
    <2>1. /\ DeleteRow(ses) /\ writer = "idle" /\ writer' = "dropping" /\ meta[ses] = {}
          /\ UNCHANGED <<ses, target, next, asked, meta>>
      BY <1>8, HealthyIndex DEF DropRow, NothingKept
    <2>2. /\ rows' = rows \ {ses} /\ ended' = ended \ {ses}
          /\ \A c \in DOMAIN status : c[1] # ses => c \in DOMAIN status' /\ status'[c] = status[c]
      BY <2>1 DEF DeleteRow
    <2>3. \A c \in Elems(asked) : c[1] # ses
      BY <2>1 DEF QueueInv
    <2>4. Elems(told) \subseteq Elems(asked)
      BY DEF JobsInv
    <2>5. \A c \in Elems(asked) : c \in DOMAIN status' /\ status'[c] = status[c]
      BY <2>2, <2>3 DEF RowsInv
    <2> QED BY <1>1, <2>1, <2>2, <2>4, <2>5 DEF RowsInv
  <1>9. CASE DropDir
    <2>1. /\ DOMAIN meta' = DOMAIN meta \ {ses} /\ writer = "dropping" /\ writer' = "idle"
          /\ ses' = target /\ target' = None
          /\ UNCHANGED <<asked, rows, ended, status>>
      BY <1>9 DEF DropDir, MovedOn, indexVars
    <2> QED BY <1>1, <2>1 DEF RowsInv
  <1>10. CASE WriterReturns
    <2>1. /\ FinishRow(ses) /\ writer = "idle" /\ writer' = "off"
          /\ UNCHANGED <<ses, target, next, asked, meta, rows, status>>
      BY <1>10, HealthyIndex DEF WriterReturns
    <2>2. ses \in rows
      BY <1>2, <2>1 DEF RowsInv
    <2>3. ended' = ended \cup {ses}
      BY <2>1, <2>2 DEF FinishRow
    <2>4. RowsKept
      BY <2>1, <2>3 DEF RowsKept
    <2> QED BY <1>1, <2>1, <2>3, <2>4, RowsFrame
  <1> QED BY <1>3, <1>4, <1>5, <1>6, <1>7, <1>8, <1>9, <1>10 DEF Writer

(* The transcriber marks one failed only if it was never told.                *)
LEMMA RowsTranscriber ==
  ASSUME Healthy, Parts, QueueInv, JobsInv, RowsInv, Transcriber
  PROVE  RowsInv'
  <1>1. UNCHANGED <<writer, ses, target, next, asked, meta>>
    BY DEF Transcriber, LoadModel, TakeJob, Transcribe, MarkFailed, WriteJson,
           WriteText, RecordSegments, TranscriberReturns, writerVars
  <1>2. CASE LoadModel \/ TakeJob \/ Transcribe \/ WriteJson \/ TranscriberReturns
    <2>1. UNCHANGED <<rows, ended, status, told>> /\ asr # "index"
      BY <1>2 DEF LoadModel, TakeJob, Transcribe, WriteJson, TranscriberReturns, indexVars
    <2> QED BY <1>1, <2>1, SameIsKept, RowsFrame
  <1>3. CASE MarkFailed
    <2>1. /\ MarkChunk(job, "failed") /\ asr = "infer" /\ UNCHANGED <<rows, ended, told>>
      BY <1>3, HealthyIndex DEF MarkFailed
    <2>2. job \notin Elems(told)
      BY <2>1 DEF JobsInv, InWork
    <2>3. /\ DOMAIN status' = DOMAIN status
          /\ \A c \in DOMAIN status : c # job => status'[c] = status[c]
      BY <2>1 DEF MarkChunk, With
    <2>4. \A c \in Elems(told) : c \in DOMAIN status /\ status[c] = "transcribed"
      BY <2>1 DEF RowsInv, JobsInv
    <2> QED BY <1>1, <2>1, <2>2, <2>3, <2>4 DEF RowsInv
  <1>4. CASE WriteText
    <2>1. /\ asr = "text" /\ asr' = "index" /\ told' = Append(told, job) /\ job' = job
          /\ UNCHANGED <<rows, ended, status>>
      BY <1>4 DEF WriteText, indexVars
    <2>2. job \in Chunks
      BY <2>1 DEF Parts, AsrInv
    <2>3. Elems(told') = Elems(told) \cup {job}
      BY <2>1, <2>2, ElemsAppend DEF QueueInv
    <2> QED BY <1>1, <2>1, <2>3 DEF RowsInv
  <1>5. CASE RecordSegments
    <2>1. /\ MarkChunk(job, "transcribed") /\ asr = "index" /\ UNCHANGED <<rows, ended, told>>
      BY <1>5, HealthyIndex DEF RecordSegments
    <2>2. job \in DOMAIN status
      BY <2>1 DEF RowsInv, JobsInv
    <2> QED BY <1>1, <2>1, <2>2, MarkKept, RowsFrame
  <1> QED BY <1>2, <1>3, <1>4, <1>5 DEF Transcriber

(* --reindex adds to the index, and never resets a status.                    *)
LEMMA RowsRest ==
  ASSUME Healthy, Parts, JobsInv, RowsInv,
         \/ Main \/ UiReturns \/ Killed \/ LoseIndex \/ Reindex \/ Terminated
         \/ UNCHANGED vars
  PROVE  RowsInv'
  <1>1. UNCHANGED <<writer, ses, target, next, asked, asr, job, told, meta>>
    BY DEF Main, JoinWriter, JoinTranscriber, UiReturns, Killed,
           LoseIndex, Reindex, StartReindex, ReadMeta, UpsertRow, UpsertChunk,
           UpsertSegments, SessionDone, ReindexDone, Terminated, vars, writerVars, asrVars
  <1>2. CASE UpsertRow
    <2>1. rows' = rows \cup {reSes} /\ UNCHANGED <<ended, status>>
      BY <1>2 DEF UpsertRow, StartRow
    <2> QED BY <1>1, <2>1, RowsFrame DEF RowsKept
  <1>3. CASE UpsertChunk
    <2>1. PICK i \in reChunks : reChunk' = <<reSes, i>> /\ UpsertChunkRow(reChunk')
      BY <1>3 DEF UpsertChunk
    <2>2. PICK c : c = <<reSes, i>>
      OBVIOUS
    <2>3. RecordChunk(c) /\ UNCHANGED <<rows, ended>>
      BY <1>3, <2>1, <2>2 DEF UpsertChunk, UpsertChunkRow
    <2> QED BY <1>1, <2>3, RecordKept, RowsFrame
  <1>4. CASE UpsertSegments
    <2>1. /\ MarkChunk(reChunk, "transcribed") \/ status' = status
          /\ UNCHANGED <<rows, ended>>
      BY <1>4 DEF UpsertSegments, Segments
    <2>2. RowsKept
      BY <2>1, MarkKept, SameIsKept
    <2> QED BY <1>1, <2>2, RowsFrame
  <1>5. CASE UNCHANGED <<rows, ended, status>>
    BY <1>1, <1>5, SameIsKept, RowsFrame
  <1>6. ~LoseIndex
    BY HealthyIndex DEF LoseIndex
  <1> QED BY <1>2, <1>3, <1>4, <1>5, <1>6
    DEF Main, JoinWriter, JoinTranscriber, UiReturns, Killed, Reindex, StartReindex, ReadMeta,
        SessionDone, ReindexDone, Terminated, vars, indexVars

(* So every step keeps it.                                                    *)
LEMMA RowsStep == Healthy /\ Parts /\ QueueInv /\ JobsInv /\ RowsInv /\ [Next]_vars => RowsInv'
  BY RowsWriter, RowsTranscriber, RowsRest DEF Next

(* A recording that ends well while the index works has every transcribed     *)
(* chunk searchable and every session ended, whatever --reindex rewrote       *)
(* meanwhile (record_chunk, mark_transcribed, finish_session).                *)
THEOREM ExitLeavesIndex == Spec => []ExitIndexed
  <1>1. (Healthy => RowsInv) /\ QueueInv /\ JobsInv /\ Parts => ExitIndexed
    <2> SUFFICES ASSUME Parts, QueueInv, JobsInv, main = "exit", RowsInv
                 PROVE  /\ \A c \in Elems(told) : c \in DOMAIN status /\ status[c] = "transcribed"
                        /\ DOMAIN meta \subseteq ended
      BY DEF ExitIndexed, Healthy
    <2>1. writer = "off" /\ target = None /\ asr # "index"
      BY DEF QueueInv, JobsInv
    <2>2. \A c \in Elems(told) : c \in DOMAIN status /\ status[c] = "transcribed"
      BY <2>1 DEF RowsInv, JobsInv
    <2>3. DOMAIN meta \subseteq ended
      BY <2>1, PipelineAssumption DEF RowsInv, Parts, StateOK
    <2> QED BY <2>2, <2>3
  <1>2. Init => (Healthy => RowsInv)
    BY InitRows
  <1>3. Parts /\ QueueInv /\ JobsInv /\ (Healthy => RowsInv) /\ [Next]_vars
            => (Healthy => RowsInv)'
    BY RowsStep DEF Healthy
  <1> QED BY <1>1, <1>2, <1>3, InitQueue, QueueStep, InitJobs, JobsStep, Invariant, PTL DEF Spec

-----------------------------------------------------------------------------
(* --reindex once no recording runs: every session is still to do, in work, or*)
(* done, and of one in work every chunk is.                                   *)
Restored(c) == c \in DOMAIN status /\ (c \in json => status[c] = "transcribed")

Held(s, i) ==
    \/ Restored(<<s, i>>)
    \/ re \in {"chunk", "segments"} /\ s = reSes /\ i \in reChunks
    \/ re = "segments" /\ reChunk = <<s, i>>

RestoreInv ==
    ~ReindexLive /\ re # "off" =>
        /\ ~Live
        /\ \A s \in DOMAIN meta :
               \/ s \in reTodo
               \/ re = "row" /\ s = reSes
               \/ s \in rows /\ \A i \in meta[s] : Held(s, i)
        /\ re = "row" => reSes \in DOMAIN meta /\ reChunks = meta[reSes]
        /\ re \in {"chunk", "segments"} => reSes \in rows
        /\ re = "segments" => reChunk \in DOMAIN status
        /\ re = "done" => reTodo = {}

(* What is restored stays so while the index loses nothing.                   *)
LEMMA RestoredStays ==
  ASSUME RowsKept, json' = json, NEW c, Restored(c)
  PROVE  Restored(c)'
  BY DEF RowsKept, Restored

(* After the recording only --reindex and the loss of the index take steps.   *)
LEMMA AfterRecording ==
  ASSUME ~Live, Next
  PROVE  ~Live' /\ (LoseIndex \/ Reindex \/ UNCHANGED vars)
  <1>1. ~Writer /\ ~Transcriber /\ ~Main /\ ~UiReturns /\ ~Killed
    BY DEF Live, Writer, ListChunk, IndexChunk, SendJob, BeginSession, RetireSession, DropRow,
           DropDir, WriterReturns, WriterFails, Transcriber, LoadModel, TakeJob, Transcribe,
           MarkFailed, WriteJson, WriteText, RecordSegments, TranscriberReturns, Main,
           JoinWriter, JoinTranscriber, UiReturns, Killed
  <1>2. LoseIndex \/ Reindex \/ UNCHANGED vars
    BY <1>1 DEF Next, Terminated
  <1>3. main' = main
    BY <1>2 DEF LoseIndex, Reindex, StartReindex, ReadMeta, UpsertRow, UpsertChunk,
                UpsertSegments, SessionDone, ReindexDone, vars, mainVars
  <1> QED BY <1>2, <1>3 DEF Live

(* It starts with every session to do.                                        *)
LEMMA RestoreStart == StartReindex => RestoreInv'
  <1> SUFFICES ASSUME StartReindex, ~ReindexLive PROVE RestoreInv'
    BY DEF RestoreInv
  <1>1. ~Live /\ main' = main /\ re' = "dir" /\ reTodo' = DOMAIN meta /\ meta' = meta
    BY DEF StartReindex, mainVars
  <1> QED BY <1>1 DEF RestoreInv, Live

(* Each of its steps takes one session, or one chunk, from to do to done.     *)
LEMMA RestoreStep ==
  ASSUME Parts, RestoreInv, [Next]_vars
  PROVE  RestoreInv'
  <1>1. CASE re = "off" \/ ReindexLive
    <2>1. re' = "off" \/ ReindexLive \/ StartReindex
      BY <1>1 DEF Next, Writer, ListChunk, IndexChunk, SendJob, BeginSession, RetireSession,
           DropRow, DropDir, WriterReturns, WriterFails, Transcriber, LoadModel, TakeJob,
           Transcribe, MarkFailed, WriteJson, WriteText, RecordSegments, TranscriberReturns,
           Main, JoinWriter, JoinTranscriber, UiReturns, Killed, LoseIndex, Reindex, ReadMeta,
           UpsertRow, UpsertChunk, UpsertSegments, SessionDone, ReindexDone, Terminated, vars,
           reVars
    <2> QED BY <2>1, RestoreStart DEF RestoreInv
  <1> SUFFICES ASSUME re # "off", ~ReindexLive PROVE RestoreInv'
    BY <1>1
  <1>2. ~Live /\ ~Live' /\ (Reindex \/ UNCHANGED vars)
    BY AfterRecording DEF RestoreInv, LoseIndex, vars, mainVars, Live
  <1>3. CASE UNCHANGED vars
    BY <1>3, <1>2 DEF vars, asrVars, indexVars, reVars, mainVars, RestoreInv, Held, Restored
  <1>4. CASE ReadMeta
    <2>1. PICK s \in reTodo : /\ reTodo' = reTodo \ {s}
                              /\ IF s \in DOMAIN meta
                                 THEN re' = "row" /\ reSes' = s /\ reChunks' = meta[s]
                                 ELSE UNCHANGED <<re, reSes, reChunks>>
      BY <1>4 DEF ReadMeta
    <2>2. re = "dir" /\ UNCHANGED <<reChunk, meta, rows, status, json>>
      BY <1>4 DEF ReadMeta, indexVars, asrVars
    <2>3. \A d \in DOMAIN meta : d \notin reTodo => d \in rows /\ \A i \in meta[d] : Restored(<<d, i>>)
      BY <2>2 DEF RestoreInv, Held
    <2>4. \A d \in DOMAIN meta : d \notin reTodo => d \in rows' /\ \A i \in meta[d] : Held(d, i)'
      BY <2>2, <2>3 DEF Held, Restored
    <2> QED BY <1>2, <2>1, <2>2, <2>4 DEF RestoreInv
  <1>5. CASE UpsertRow
    <2>1. /\ re = "row" /\ re' = "chunk" /\ rows' = rows \cup {reSes}
          /\ UNCHANGED <<reTodo, reSes, reChunks, reChunk, meta, status, json>>
      BY <1>5 DEF UpsertRow, StartRow, asrVars
    <2>2. reChunks = meta[reSes]
      BY <2>1 DEF RestoreInv
    <2>3. \A d \in DOMAIN meta : \A i \in meta[d] : d = reSes \/ Held(d, i) => Held(d, i)'
      BY <2>1, <2>2 DEF Held, Restored
    <2> QED BY <1>2, <2>1, <2>3 DEF RestoreInv
  <1>6. CASE UpsertChunk
    <2>1. PICK i \in reChunks : /\ reChunks' = reChunks \ {i} /\ reChunk' = <<reSes, i>>
                                /\ UpsertChunkRow(reChunk')
      BY <1>6 DEF UpsertChunk
    <2>2. PICK c : c = <<reSes, i>>
      OBVIOUS
    <2>3. /\ re = "chunk" /\ re' = "segments" /\ reChunk' = c
          /\ UNCHANGED <<reTodo, reSes, meta, rows, ended, json>>
      BY <1>6, <2>1, <2>2 DEF UpsertChunk, asrVars
    <2>4. RecordChunk(c) /\ c[1] \in rows
      BY <2>1, <2>2, <2>3 DEF UpsertChunkRow, RestoreInv
    <2>5. RowsKept /\ c \in DOMAIN status'
      BY <2>3, <2>4, RecordKept
    <2>6. \A d \in DOMAIN meta : \A k \in meta[d] : Held(d, k) => Held(d, k)'
      BY <2>1, <2>2, <2>3, <2>5, RestoredStays DEF Held
    <2> QED BY <1>2, <2>1, <2>3, <2>5, <2>6 DEF RestoreInv
  <1>7. CASE UpsertSegments
    <2>1. PICK c : c = reChunk
      OBVIOUS
    <2>2. /\ re = "segments" /\ re' = "chunk"
          /\ IF c \in json THEN MarkChunk(c, "transcribed") ELSE status' = status
          /\ UNCHANGED <<reTodo, reSes, reChunks, meta, rows, ended, json>>
      BY <1>7, <2>1 DEF UpsertSegments, Segments, asrVars
    <2>3. RowsKept
      BY <2>2, MarkKept, SameIsKept
    <2>4. c \in DOMAIN status
      BY <2>1, <2>2 DEF RestoreInv
    <2>5. Restored(c)'
      BY <2>2, <2>3, <2>4, MarkKept DEF Restored, RowsKept
    <2>6. \A d \in DOMAIN meta : \A k \in meta[d] : Held(d, k) => Held(d, k)'
      <3> SUFFICES ASSUME NEW d, NEW k, Held(d, k) PROVE Held(d, k)'
        OBVIOUS
      <3>1. CASE Restored(<<d, k>>)
        <4>1. PICK e : e = <<d, k>>
          OBVIOUS
        <4>2. Restored(e)'
          BY <2>2, <2>3, <3>1, <4>1, RestoredStays
        <4> QED BY <4>1, <4>2 DEF Held
      <3>2. CASE d = reSes /\ k \in reChunks
        BY <2>2, <3>2 DEF Held
      <3>3. CASE c = <<d, k>>
        BY <2>5, <3>3 DEF Held
      <3> QED BY <2>1, <3>1, <3>2, <3>3 DEF Held
    <2>7. rows' = rows /\ (re' = "chunk" => reSes' \in rows')
      BY <2>2 DEF RestoreInv
    <2> QED BY <1>2, <2>2, <2>6, <2>7 DEF RestoreInv
  <1>8. CASE SessionDone
    <2>1. /\ re = "chunk" /\ re' = "dir" /\ reChunks = {}
          /\ UNCHANGED <<reTodo, meta, rows, status, json>>
      BY <1>8 DEF SessionDone, indexVars, asrVars
    <2>2. \A d \in DOMAIN meta : \A k \in meta[d] : Held(d, k) => Held(d, k)'
      BY <2>1 DEF Held, Restored
    <2> QED BY <1>2, <2>1, <2>2 DEF RestoreInv
  <1>9. CASE ReindexDone
    <2>1. /\ re = "dir" /\ re' = "done" /\ reTodo = {}
          /\ UNCHANGED <<reTodo, meta, rows, status, json>>
      BY <1>9 DEF ReindexDone, indexVars, asrVars
    <2>2. \A d \in DOMAIN meta : \A k \in meta[d] : Held(d, k) => Held(d, k)'
      BY <2>1 DEF Held, Restored
    <2> QED BY <1>2, <2>1, <2>2 DEF RestoreInv
  <1> QED BY <1>2, <1>3, <1>4, <1>5, <1>6, <1>7, <1>8, <1>9, RestoreStart DEF Reindex

(* --reindex after a recording that ended or was killed at any step, also with*)
(* the index lost meanwhile, brings back every session and chunk, and makes   *)
(* each chunk with a chunk-NNN.json searchable, for any number of them        *)
(* (rebuild).                                                                 *)
THEOREM ReindexRestores == Spec => []IndexRestored
  <1>1. RestoreInv => IndexRestored
    <2> SUFFICES ASSUME RestoreInv, re = "done", ~ReindexLive PROVE IndexRestored
      BY DEF IndexRestored
    <2>1. \A s \in DOMAIN meta : s \in rows /\ \A i \in meta[s] : Restored(<<s, i>>)
      BY DEF RestoreInv, Held
    <2> QED BY <2>1 DEF IndexRestored, Restored
  <1>2. Init => RestoreInv
    BY DEF Init, RestoreInv
  <1> QED BY <1>1, <1>2, RestoreStep, Invariant, PTL DEF Spec
=============================================================================
