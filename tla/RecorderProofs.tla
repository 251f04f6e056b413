--------------------------- MODULE RecorderProofs ---------------------------
(* Theorems about the writer, for every choice of its constants.              *)
EXTENDS Recorder, SequenceTheorems, TLAPS

USE ChunkerAssumption, RecorderAssumption

-----------------------------------------------------------------------------
(* What the operators the writer is built from return.                        *)

(* The size cap is a number of frames, also when the reserve exceeds the      *)
(* limit (Chunker::new saturates).                                            *)
LEMMA MaxFramesType == MaxFrames \in Nat
  BY DEF MaxFrames

(* feed() keeps the chunker's counters in their types.                        *)
LEMMA FedType ==
  ASSUME NEW c \in ChunkerState, NEW s \in BOOLEAN, NEW n \in Nat
  PROVE  Fed(c, s, n) \in ChunkerState
  BY DEF Fed, ChunkerState

(* reset_after_cut keeps the chunker's counters in their types.               *)
LEMMA ResetType ==
  ASSUME NEW c \in ChunkerState
  PROVE  ResetAfterCut(c) \in ChunkerState
  BY DEF ResetAfterCut, ChunkerState

(* feed() answers no cut, a cut for silence or a hard cap.                    *)
LEMMA CutType ==
  ASSUME NEW c
  PROVE  CutOf(c) \in {"None", "Silence", "HardCap"}
  BY DEF CutOf

(* push_preroll never keeps more than its cap.                                *)
LEMMA KeepLastType ==
  ASSUME NEW b \in Seq(Nat), NEW s \in Seq(Nat), NEW cap \in Nat
  PROVE  /\ KeepLast(b, s, cap) \in Seq(Nat)
         /\ Len(KeepLast(b, s, cap)) <= cap
  <1> DEFINE all == b \o s
  <1>1. all \in Seq(Nat)
    OBVIOUS
  <1>2. CASE Len(all) > cap
    <2>1. KeepLast(b, s, cap) = SubSeq(all, Len(all) - cap + 1, Len(all))
      BY <1>2 DEF KeepLast
    <2> DEFINE m == Len(all) - cap + 1
    <2>2. m \in Int /\ Len(all) \in Int /\ m >= 1 /\ Len(all) - m + 1 = cap
      BY <1>1, <1>2
    <2>3. \A i \in m..Len(all) : all[i] \in Nat
      <3> SUFFICES ASSUME NEW i \in m..Len(all) PROVE all[i] \in Nat
        OBVIOUS
      <3>1. i \in 1..Len(all)
        BY <2>2
      <3> QED BY <1>1, <3>1, ElementOfSeq
    <2>4. /\ SubSeq(all, m, Len(all)) \in Seq(Nat)
          /\ Len(SubSeq(all, m, Len(all)))
                = IF m <= Len(all) THEN Len(all) - m + 1 ELSE 0
      <3> HIDE DEF all, m
      <3> QED BY <2>2, <2>3, SubSeqProperties
    <2>5. (IF m <= Len(all) THEN Len(all) - m + 1 ELSE 0) <= cap
      BY <2>2
    <2> QED BY <2>1, <2>4, <2>5
  <1>3. CASE ~(Len(all) > cap)
    BY <1>1, <1>3 DEF KeepLast
  <1> QED BY <1>2, <1>3

(* write_samples keeps a chunk a chunk: its length grows by what is written,  *)
(* its index stays.                                                           *)
LEMMA ExtendType ==
  ASSUME NEW c \in Chunk, NEW more \in Seq(Nat)
  PROVE  /\ Extend(c, more) \in Chunk
         /\ Len(Extend(c, more).frames) = Len(c.frames) + Len(more)
         /\ Extend(c, more).index = c.index
  <1>1. c.frames \in Seq(Nat) /\ c.index \in Nat /\ c.offset \in Nat
    BY DEF Chunk
  <1>2. /\ c.frames \o more \in Seq(Nat)
        /\ Len(c.frames \o more) = Len(c.frames) + Len(more)
    BY <1>1
  <1> QED BY <1>1, <1>2 DEF Extend, Chunk

(* The index: every operation of db.rs keeps a table of rows.                 *)
LEMMA RowsType ==
  ASSUME NEW idx \in [DirNames -> Row], NEW d \in DirNames, NEW n \in Nat,
         now \in DirNames
  PROVE  /\ StartRow(idx, d) \in [DirNames -> Row]
         /\ FinishRow(idx, d, n) \in [DirNames -> Row]
         /\ RecordRow(idx, d, n) \in [DirNames -> Row]
         /\ DeleteRow(idx, d) \in [DirNames -> Row]
  <1>1. idx[d] \in Row /\ NoRow \in Row
    BY DEF Row, NoRow, Never
  <1>2. StartRow(idx, d) \in [DirNames -> Row]
    BY <1>1 DEF StartRow, Row
  <1>3. FinishRow(idx, d, n) \in [DirNames -> Row]
    BY <1>1 DEF FinishRow, Row
  <1>4. RecordRow(idx, d, n) \in [DirNames -> Row]
    BY <1>1 DEF RecordRow, Row
  <1>5. DeleteRow(idx, d) \in [DirNames -> Row]
    BY <1>1 DEF DeleteRow
  <1> QED BY <1>2, <1>3, <1>4, <1>5

(* db.finish_session keeps the index a table of rows, also when it fails.     *)
LEMMA FinishSessionType ==
  ASSUME TypeOK, NEW n \in Nat, FinishSession(n)
  PROVE  index' \in [DirNames -> Row]
  <1>1. index \in [DirNames -> Row] /\ dir \in DirNames /\ now \in DirNames
    BY DEF TypeOK
  <1>2. FinishRow(index, dir, n) \in [DirNames -> Row]
    BY <1>1, RowsType
  <1> QED BY <1>1, <1>2 DEF FinishSession

(* What finish_chunk leaves behind.                                           *)
FinishFrame ==
    /\ kept' \in Nat
    /\ meta' \in [DirNames -> Seq(Chunk)]
    /\ index' \in [DirNames -> Row]
    /\ jobs' \in Seq(Job)
    /\ runts' \subseteq Nat

(* finish_chunk keeps what it writes in its types: runts, meta.json, the      *)
(* index, the queue.                                                          *)
LEMMA FinishChunkType ==
  ASSUME TypeOK, NEW c \in Chunk, FinishChunk(c)
  PROVE  FinishFrame
  <1>1. /\ kept \in Nat /\ dir \in DirNames /\ now \in DirNames
        /\ meta \in [DirNames -> Seq(Chunk)] /\ index \in [DirNames -> Row]
        /\ jobs \in Seq(Job) /\ runts \subseteq Nat
    BY DEF TypeOK
  <1>2. c.index \in Nat /\ c.frames \in Seq(Nat)
    BY DEF Chunk
  <1>3. CASE IsRunt(c)
    <2>1. Elems(c.frames) \subseteq Nat
      BY <1>2 DEF Elems
    <2>2. /\ runts' = runts \cup Elems(c.frames)
          /\ UNCHANGED <<kept, meta, index, jobs>>
      BY <1>3 DEF FinishChunk
    <2> QED BY <1>1, <2>1, <2>2 DEF FinishFrame
  <1>4. CASE ~IsRunt(c)
    <2>1. /\ kept' = kept + 1
          /\ meta' = [meta EXCEPT ![dir] = Append(@, c)]
          /\ \E ok \in Outcomes("index") :
                index' = IF ok THEN RecordRow(index, dir, c.index) ELSE index
          /\ jobs' = Append(jobs, [dir |-> dir, index |-> c.index])
          /\ runts' = runts
      BY <1>4 DEF FinishChunk
    <2>2. index' \in [DirNames -> Row]
      <3>1. RecordRow(index, dir, c.index) \in [DirNames -> Row]
        BY <1>1, <1>2, RowsType
      <3> QED BY <1>1, <2>1, <3>1
    <2>3. jobs' \in Seq(Job)
      <3>1. [dir |-> dir, index |-> c.index] \in Job
        BY <1>1, <1>2 DEF Job
      <3> QED BY <1>1, <2>1, <3>1
    <2>4. meta' \in [DirNames -> Seq(Chunk)]
      <3>1. Append(meta[dir], c) \in Seq(Chunk)
        BY <1>1
      <3> QED BY <1>1, <2>1, <3>1
    <2> QED BY <1>1, <2>1, <2>2, <2>3, <2>4 DEF FinishFrame
  <1> QED BY <1>3, <1>4

-----------------------------------------------------------------------------
(* Type correctness.                                                          *)

(* record() starts from a state of the right types.                           *)
LEMMA InitType == Init => TypeOK
  <1> SUFFICES ASSUME Init PROVE TypeOK
    OBVIOUS
  <1>1. NoRow \in Row
    BY DEF NoRow, Row, Never
  <1>2. [NoRow EXCEPT !.row = TRUE] \in Row
    BY DEF NoRow, Row, Never
  <1>3. index \in [DirNames -> Row]
    <2>1. PICK ok \in Outcomes("index") :
              index = [d \in DirNames |-> IF ok /\ d = StartTime
                                            THEN [NoRow EXCEPT !.row = TRUE] ELSE NoRow]
      BY DEF Init
    <2>2. \A d \in DirNames : (IF ok /\ d = StartTime
                                  THEN [NoRow EXCEPT !.row = TRUE] ELSE NoRow) \in Row
      BY <1>1, <1>2
    <2> QED BY <2>1, <2>2
  <1>4. NextMidnight(StartTime) \in Nat
    BY DEF NextMidnight, DirNames
  <1>5. NewChunker \in ChunkerState
    BY DEF NewChunker, ChunkerState
  <1>6. meta \in [DirNames -> Seq(Chunk)]
    BY DEF Init
  <1>7. /\ sessions \in Seq(DirNames)
        /\ Len(sessions) > 0 /\ sessions[Len(sessions)] = dir
    BY DEF Init
  <1>8. /\ heard \in Seq([at: DirNames, speech: BOOLEAN])
        /\ batch \in Seq(Nat) /\ preroll \in Seq(Nat) /\ hold \in Seq(Nat)
        /\ jobs \in Seq(Job)
    BY DEF Init
  <1> QED BY <1>3, <1>4, <1>5, <1>6, <1>7, <1>8 DEF Init, TypeOK

(* A batch of n frames is n positions of the stream.                          *)
LEMMA NextFramesType ==
  ASSUME NEW n \in Nat, heard \in Seq([at: DirNames, speech: BOOLEAN])
  PROVE  NextFrames(n) \in Seq(Nat) /\ Len(NextFrames(n)) = n
  BY DEF NextFrames

(* Reading a batch, the clock and the VAD keeps the types.                    *)
LEMMA ReadType ==
  ASSUME TypeOK, NEW n \in BatchSizes, NEW spoken \in BOOLEAN, NEW step \in ClockSteps,
         ReadBatch(n, spoken, step)
  PROVE  TypeOK'
  <1>1. now' \in DirNames /\ n \in Nat
    BY DEF ReadBatch, TypeOK, DirNames
  <1>2. heard' \in Seq([at: DirNames, speech: BOOLEAN])
    <2> DEFINE more == [i \in 1..n |-> [at |-> now', speech |-> spoken]]
    <2>1. more \in Seq([at: DirNames, speech: BOOLEAN])
      BY <1>1
    <2>2. heard' = heard \o more
      BY DEF ReadBatch
    <2> QED BY <2>1, <2>2 DEF TypeOK
  <1>3. batch' \in Seq(Nat)
    BY <1>1, NextFramesType DEF ReadBatch, TypeOK
  <1>4. leftover' \in Nat
    BY <1>1 DEF ReadBatch, TypeOK
  <1>5. lastSpeechAt' \in DirNames /\ speech' \in BOOLEAN
    BY <1>1 DEF ReadBatch, TypeOK
  <1>6. UNCHANGED <<stop, audioVars, dir, rolloverAt, idle, sessions, kept,
                    closedChunks, storeVars>> /\ pc' = "rollover"
    BY DEF ReadBatch
  <1> QED BY <1>1, <1>2, <1>3, <1>4, <1>5, <1>6
          DEF TypeOK, audioVars, storeVars

(* next_midnight is strictly later, also at midnight itself.                  *)
LEMMA NextMidnightType ==
  ASSUME NEW t \in Nat
  PROVE  NextMidnight(t) \in Nat /\ NextMidnight(t) > t
  BY DEF NextMidnight

(* The decision to stay, to go idle, to retry or to begin a session keeps the *)
(* types.                                                                     *)
LEMMA RolloverType ==
  ASSUME TypeOK, \/ StayInSession \/ GoIdle \/ RolloverFails \/ BeginNext
  PROVE  TypeOK'
  <1>1. CASE StayInSession
    BY <1>1 DEF StayInSession, TypeOK, inputVars, stopVars, audioVars, sessionVars, storeVars
  <1>2. CASE GoIdle
    <2>1. index' \in [DirNames -> Row]
      BY <1>2, FinishSessionType DEF GoIdle, TypeOK
    <2> QED BY <1>2, <2>1 DEF GoIdle, TypeOK, inputVars, stopVars, audioVars
  <1>3. CASE RolloverFails
    <2>1. dirs' \subseteq DirNames /\ rolloverAt' \in Nat
      BY <1>3 DEF RolloverFails, RetryAt, TypeOK, DirNames
    <2> QED BY <1>3, <2>1 DEF RolloverFails, RetryAt, TypeOK, inputVars, stopVars, audioVars
  <1>4. CASE BeginNext
    <2>1. index' \in [DirNames -> Row]
      <3>1. StartRow(index, now) \in [DirNames -> Row]
        BY RowsType DEF TypeOK
      <3> QED BY <1>4, <3>1 DEF BeginNext, TypeOK
    <2>2. meta' \in [DirNames -> Seq(Chunk)]
      BY <1>4 DEF BeginNext, TypeOK
    <2>3. dirs' \subseteq DirNames
      BY <1>4 DEF BeginNext, TypeOK
    <2> QED BY <1>4, <2>1, <2>2, <2>3
            DEF BeginNext, TypeOK, inputVars, stopVars, audioVars, sessionVars
  <1> QED BY <1>1, <1>2, <1>3, <1>4

(* Closing the chunk at a rollover or at the end keeps the types.             *)
LEMMA RetireChunkType ==
  ASSUME TypeOK, RetireChunk \/ CloseLast
  PROVE  TypeOK'
  <1>1. current \in Chunk
    BY DEF RetireChunk, CloseLast, TypeOK
  <1>2. WithHold(current) \in Chunk
    BY <1>1, ExtendType DEF WithHold, TypeOK
  <1>3. FinishFrame
    BY <1>2, FinishChunkType DEF RetireChunk, CloseLast
  <1> QED BY <1>3 DEF RetireChunk, CloseLast, FinishFrame, TypeOK, inputVars, stopVars

(* Discarding or finishing the old session and switching to the new one keeps *)
(* the types.                                                                 *)
LEMMA RetireSessionType ==
  ASSUME TypeOK, RetireSession
  PROVE  TypeOK'
  <1>1. index' \in [DirNames -> Row] /\ dirs' \subseteq DirNames
    <2>1. CASE kept = 0
      <3>1. DeleteRow(index, dir) \in [DirNames -> Row]
        BY RowsType DEF TypeOK
      <3> QED BY <2>1, <3>1 DEF RetireSession, DiscardEmptySession, TypeOK
    <2>2. CASE kept # 0
      BY <2>2, FinishSessionType DEF RetireSession, CloseOldSession, TypeOK
    <2> QED BY <2>1, <2>2
  <1>2. /\ sessions' \in Seq(DirNames)
        /\ Len(sessions') > 0 /\ sessions'[Len(sessions')] = now
    <2>1. \E s \in Seq(DirNames) : sessions' = Append(s, now)
      <3>1. sessions \in Seq(DirNames) /\ Len(sessions) \in Nat \ {0}
        BY DEF TypeOK
      <3>2. SubSeq(sessions, 1, Len(sessions) - 1) \in Seq(DirNames)
        BY <3>1
      <3> QED BY <3>1, <3>2 DEF RetireSession, DiscardEmptySession, CloseOldSession
    <2> QED BY <2>1 DEF TypeOK
  <1>3. ResetAfterCut(chunker) \in ChunkerState
    BY ResetType DEF TypeOK
  <1>4. now \in DirNames /\ now \in Nat /\ NextMidnight(now) \in Nat
    <2>1. now \in DirNames
      BY DEF TypeOK
    <2>2. now \in Nat
      BY <2>1 DEF DirNames
    <2> QED BY <2>1, <2>2, NextMidnightType
  <1>5. /\ dir' = now /\ rolloverAt' = NextMidnight(now) /\ idle' = FALSE
        /\ nextIndex' = 0 /\ kept' = 0 /\ sessionFrames' = 0
        /\ closedChunks' = closedChunks + kept /\ hold' = <<>> /\ preroll' = <<>>
        /\ begun' = begun \cup {now} /\ chunker' = ResetAfterCut(chunker)
        /\ pc' = "feed"
        /\ UNCHANGED <<inputVars, stopVars, cut, current, lastSpeechAt, meta, jobs, runts>>
    BY DEF RetireSession, Switch, ClearBuffers
  <1>6. /\ hold' \in Seq(Nat) /\ preroll' \in Seq(Nat) /\ closedChunks' \in Nat
        /\ begun' \subseteq DirNames
    BY <1>4, <1>5 DEF TypeOK
  <1>7. /\ sessions' \in Seq(DirNames)
        /\ Len(sessions') > 0 /\ sessions'[Len(sessions')] = dir'
    BY <1>2, <1>5
  <1> QED BY <1>1, <1>3, <1>4, <1>5, <1>6, <1>7 DEF TypeOK, inputVars, stopVars

(* Feeding the chunker, opening a chunk and writing to it keeps the types.    *)
LEMMA FeedType ==
  ASSUME TypeOK, Feed
  PROVE  TypeOK'
  <1> DEFINE fed == Fed(chunker, speech, Len(batch))
             oc  == OpenChunk(fed)
  <1>1. fed \in ChunkerState /\ CutOf(fed) \in {"None", "Silence", "HardCap"}
    BY FedType, CutType DEF TypeOK
  <1>2. PrerollNow \in Seq(Nat)
    BY KeepLastType DEF PrerollNow, TypeOK
  <1>3. oc \in Chunk \cup {NoChunk}
    BY <1>2 DEF OpenChunk, TypeOK, Chunk
  <1>4. ASSUME oc # NoChunk PROVE Written(oc) \in Chunk
    <2>1. hold \o batch \in Seq(Nat)
      BY DEF TypeOK
    <2> QED BY <1>3, <1>4, <2>1, ExtendType DEF Written
  <1>5. KeepLast(hold, batch, TailCap) \in Seq(Nat)
    BY KeepLastType DEF TypeOK
  <1>6. current' \in Chunk \cup {NoChunk} /\ hold' \in Seq(Nat)
    <2>1. CASE oc = NoChunk
      BY <2>1 DEF Feed, TypeOK
    <2>2. CASE oc # NoChunk
      <3>1. /\ current' = Written(oc)
            /\ hold' = IF speech THEN <<>> ELSE KeepLast(hold, batch, TailCap)
        BY <2>2 DEF Feed
      <3>2. Written(oc) \in Chunk
        BY <2>2, <1>4
      <3>3. hold' \in Seq(Nat)
        BY <3>1, <1>5
      <3> QED BY <3>1, <3>2, <3>3
    <2> QED BY <2>1, <2>2
  <1>7. sessionFrames' \in Nat
    BY DEF Feed, TypeOK
  <1>8. /\ chunker' = fed /\ cut' = CutOf(fed) /\ preroll' = PrerollNow /\ pc' = "cut"
        /\ UNCHANGED <<inputVars, stopVars, nextIndex, sessionVars, storeVars>>
    BY DEF Feed
  <1> QED BY <1>1, <1>2, <1>6, <1>7, <1>8
          DEF TypeOK, inputVars, stopVars, sessionVars, storeVars

(* Closing a chunk at a cut keeps the types.                                  *)
LEMMA CutType2 ==
  ASSUME TypeOK, CutChunk
  PROVE  TypeOK'
  <1>1. Closing \in Chunk
    BY ExtendType DEF Closing, WithHold, CutChunk, TypeOK
  <1>2. FinishFrame
    BY <1>1, FinishChunkType DEF CutChunk, IndexAfterCut
  <1>3. ResetAfterCut(chunker) \in ChunkerState
    BY ResetType DEF TypeOK
  <1>4. /\ current' = NoChunk /\ hold' \in Seq(Nat) /\ preroll' \in Seq(Nat)
        /\ nextIndex' \in Nat /\ chunker' \in ChunkerState /\ pc' = "read"
    BY <1>3 DEF CutChunk, IndexAfterCut, ClearBuffers, TypeOK
  <1>5. UNCHANGED <<inputVars, stopVars, cut, sessionFrames, dir, rolloverAt,
                    lastSpeechAt, idle, sessions, closedChunks, dirs, begun>>
    BY DEF CutChunk, IndexAfterCut
  <1> QED BY <1>2, <1>4, <1>5 DEF FinishFrame, TypeOK, inputVars, stopVars

(* Finishing the last session keeps the types.                                *)
LEMMA EndSessionType ==
  ASSUME TypeOK, EndSession
  PROVE  TypeOK'
  <1>1. index' \in [DirNames -> Row]
    BY FinishSessionType DEF EndSession, TypeOK
  <1> QED BY <1>1 DEF EndSession, TypeOK, inputVars, stopVars, audioVars, sessionVars

(* TypeOK is inductive: every step of the writer and of the UI keeps it.      *)
LEMMA TypeStep == TypeOK /\ [Next]_vars => TypeOK'
  <1> SUFFICES ASSUME TypeOK, [Next]_vars PROVE TypeOK'
    OBVIOUS
  <1>1. CASE Read
    BY <1>1, ReadType DEF Read
  <1>2. CASE StayInSession \/ GoIdle \/ RolloverFails \/ BeginNext
    BY <1>2, RolloverType
  <1>3. CASE RetireChunk \/ CloseLast
    BY <1>3, RetireChunkType
  <1>4. CASE RetireSession
    BY <1>4, RetireSessionType
  <1>5. CASE Feed
    BY <1>5, FeedType
  <1>6. CASE CutChunk
    BY <1>6, CutType2
  <1>7. CASE NoCut \/ LeaveLoop \/ WriterFails
    BY <1>7 DEF NoCut, LeaveLoop, WriterFails, TypeOK, inputVars, stopVars, audioVars,
                sessionVars, storeVars
  <1>8. CASE EndSession
    BY <1>8, EndSessionType
  <1>9. CASE StopRecording
    <2>1. leftover' \in Nat /\ stop' \in BOOLEAN
      BY <1>9 DEF StopRecording
    <2>2. UNCHANGED <<pc, inputVars, audioVars, sessionVars, storeVars>>
      BY <1>9 DEF StopRecording
    <2> QED BY <2>1, <2>2 DEF TypeOK, inputVars, audioVars, sessionVars, storeVars
  <1>10. CASE Terminated \/ UNCHANGED vars
    BY <1>10 DEF Terminated, TypeOK, vars, inputVars, stopVars, audioVars,
                 sessionVars, storeVars
  <1> QED BY <1>1, <1>2, <1>3, <1>4, <1>5, <1>6, <1>7, <1>8, <1>9, <1>10 DEF Next, Writer

(* Type correctness of the writer's whole state, disk and queue included.     *)
THEOREM TypeCorrect == Spec => []TypeOK
  BY InitType, TypeStep, PTL DEF Spec

-----------------------------------------------------------------------------
(* No file outgrows the limit.                                                *)

(* A chunk is open exactly while the chunker says so, and what it holds, the  *)
(* held silence included, is covered by the chunker's count and the pre-roll: *)
(* the count is what the limit is tested against.                             *)
BatchOK == pc \in {"rollover", "retire", "feed", "cut"} => Len(batch) \in BatchSizes

Closed == ~chunker.open /\ chunker.chunk = 0 /\ hold = <<>>

OpenOK ==
    /\ pc \in {"read", "rollover", "feed", "cut"} => (current = NoChunk => Closed)
    /\ current # NoChunk => chunker.open
    /\ pc = "cut" => cut = CutOf(chunker)

CountOK ==
    current # NoChunk =>
        /\ Len(current.frames) + Len(hold) <= chunker.chunk + PrerollCap
        /\ chunker.chunk + PrerollCap <= SizeLimit
        /\ pc \in {"read", "rollover", "retire", "feed", "ending"} =>
               chunker.chunk < MaxFrames

MetaFits ==
    \A d \in DirNames : \A k \in 1..Len(meta[d]) : Len(meta[d][k].frames) <= SizeLimit

FitInv == BatchOK /\ OpenOK /\ CountOK /\ MetaFits

(* push_preroll keeps no more than it held and was given.                     *)
LEMMA KeepLastLen ==
  ASSUME NEW b \in Seq(Nat), NEW s \in Seq(Nat), NEW cap \in Nat
  PROVE  Len(KeepLast(b, s, cap)) <= Len(b) + Len(s)
  <1>1. Len(b) + Len(s) = Len(b \o s) /\ b \o s \in Seq(Nat)
    OBVIOUS
  <1>2. CASE Len(b \o s) > cap
    BY <1>1, <1>2, KeepLastType
  <1>3. CASE ~(Len(b \o s) > cap)
    BY <1>1, <1>3 DEF KeepLast
  <1> QED BY <1>2, <1>3

(* finish_chunk leaves every meta.json alone, or adds the chunk to one.       *)
LEMMA FinishChunkMeta ==
  ASSUME NEW c, FinishChunk(c)
  PROVE  meta' = meta \/ meta' = [meta EXCEPT ![dir] = Append(@, c)]
  BY DEF FinishChunk

(* finish_chunk lists a chunk that fits, so the listed ones still all fit.    *)
LEMMA FinishChunkFits ==
  ASSUME TypeOK, MetaFits, NEW c \in Chunk, Len(c.frames) <= SizeLimit, FinishChunk(c)
  PROVE  MetaFits'
  <1>1. CASE meta' = meta
    BY <1>1 DEF MetaFits
  <1>2. CASE meta' = [meta EXCEPT ![dir] = Append(@, c)]
    <2> SUFFICES ASSUME NEW d \in DirNames, NEW k \in 1..Len(meta'[d])
                 PROVE  Len(meta'[d][k].frames) <= SizeLimit
      BY DEF MetaFits
    <2>1. meta \in [DirNames -> Seq(Chunk)] /\ dir \in DirNames
      BY DEF TypeOK
    <2>2. CASE d # dir
      BY <1>2, <2>1, <2>2 DEF MetaFits
    <2>3. CASE d = dir
      <3>1. meta'[d] = Append(meta[d], c) /\ meta[d] \in Seq(Chunk)
        BY <1>2, <2>1, <2>3
      <3>2. CASE k = Len(meta[d]) + 1
        BY <3>1, <3>2
      <3>3. CASE k # Len(meta[d]) + 1
        <4>1. k \in 1..Len(meta[d]) /\ meta'[d][k] = meta[d][k]
          BY <3>1, <3>3
        <4> QED BY <4>1 DEF MetaFits
      <3> QED BY <3>2, <3>3
    <2> QED BY <2>2, <2>3
  <1> QED BY <1>1, <1>2, FinishChunkMeta

(* Nothing in FitInv changes on a step that leaves the audio alone.           *)
LEMMA ReadFits ==
  ASSUME TypeOK, FitInv, NEW n \in BatchSizes, NEW spoken \in BOOLEAN,
         NEW step \in ClockSteps, ReadBatch(n, spoken, step)
  PROVE  FitInv'
  <1>1. UNCHANGED <<chunker, current, hold, meta, cut>> /\ pc = "read" /\ pc' = "rollover"
    BY DEF ReadBatch, audioVars, storeVars
  <1>2. Len(batch') = n
    BY NextFramesType DEF ReadBatch, TypeOK
  <1>3. BatchOK'
    BY <1>2 DEF BatchOK
  <1>4. OpenOK' /\ CountOK' /\ MetaFits'
    BY <1>1 DEF FitInv, OpenOK, CountOK, MetaFits, Closed
  <1> QED BY <1>3, <1>4 DEF FitInv

(* The decision at a boundary leaves the audio alone, and a fresh meta.json   *)
(* lists nothing.                                                             *)
LEMMA RolloverFits ==
  ASSUME TypeOK, FitInv, \/ StayInSession \/ GoIdle \/ RolloverFails \/ BeginNext
  PROVE  FitInv'
  <1>1. /\ UNCHANGED <<chunker, current, hold, cut, batch>>
        /\ pc = "rollover" /\ pc' \in {"feed", "retire"}
    BY DEF StayInSession, GoIdle, RolloverFails, BeginNext, audioVars, inputVars
  <1>2. meta' = meta \/ meta' = [meta EXCEPT ![now] = <<>>]
    BY DEF StayInSession, GoIdle, RolloverFails, BeginNext, storeVars
  <1>3. BatchOK' /\ OpenOK' /\ CountOK'
    BY <1>1 DEF FitInv, BatchOK, OpenOK, CountOK, Closed
  <1>4. MetaFits'
    <2>1. CASE meta' = meta
      BY <2>1 DEF FitInv, MetaFits
    <2>2. CASE meta' = [meta EXCEPT ![now] = <<>>]
      <3> SUFFICES ASSUME NEW d \in DirNames, NEW k \in 1..Len(meta'[d])
                   PROVE  Len(meta'[d][k].frames) <= SizeLimit
        BY DEF MetaFits
      <3>1. meta \in [DirNames -> Seq(Chunk)] /\ now \in DirNames
        BY DEF TypeOK
      <3>2. d # now /\ meta'[d] = meta[d]
        BY <2>2, <3>1
      <3> QED BY <3>2 DEF FitInv, MetaFits
    <2> QED BY <1>2, <2>1, <2>2
  <1> QED BY <1>3, <1>4 DEF FitInv

(* What is closed at a boundary, the held silence included, still fits.       *)
LEMMA ClosingFits ==
  ASSUME TypeOK, FitInv, current # NoChunk
  PROVE  /\ current \in Chunk /\ WithHold(current) \in Chunk
         /\ Len(current.frames) <= SizeLimit
         /\ Len(WithHold(current).frames) <= SizeLimit
  <1>1. current \in Chunk /\ hold \in Seq(Nat) /\ chunker.chunk \in Nat
    BY DEF TypeOK, ChunkerState
  <1>2. /\ WithHold(current) \in Chunk
        /\ Len(WithHold(current).frames) = Len(current.frames) + Len(hold)
    BY <1>1, ExtendType DEF WithHold
  <1>3. Len(current.frames) \in Nat /\ Len(hold) \in Nat
    BY <1>1 DEF Chunk
  <1>4. Len(current.frames) + Len(hold) <= SizeLimit
    BY <1>1, <1>3 DEF FitInv, CountOK
  <1> QED BY <1>1, <1>2, <1>3, <1>4

(* Closing a chunk at a cut, a rollover or the end keeps the fit: what is     *)
(* closed fits, and nothing is open.                                          *)
LEMMA CloseFits ==
  ASSUME TypeOK, FitInv, RetireChunk \/ CloseLast \/ CutChunk
  PROVE  FitInv'
  <1>1. current # NoChunk /\ current' = NoChunk
    BY DEF RetireChunk, CloseLast, CutChunk
  <1>2. \E c \in Chunk : Len(c.frames) <= SizeLimit /\ FinishChunk(c)
    BY <1>1, ClosingFits DEF RetireChunk, CloseLast, CutChunk, Closing
  <1>3. MetaFits'
    BY <1>2, FinishChunkFits DEF FitInv
  <1>4. /\ batch' = batch
        /\ \/ pc' = pc /\ pc \in {"retire", "ending"}
           \/ pc' = "read" /\ chunker' = ResetAfterCut(chunker) /\ hold' = <<>>
    BY DEF RetireChunk, CloseLast, CutChunk, ClearBuffers, inputVars
  <1>5. BatchOK'
    BY <1>4 DEF BatchOK, FitInv
  <1>6. pc' = "read" => Closed'
    BY <1>4 DEF Closed, ResetAfterCut, TypeOK, ChunkerState
  <1> QED BY <1>1, <1>3, <1>4, <1>5, <1>6 DEF FitInv, OpenOK, CountOK

(* The switch of sessions starts the new one with nothing counted and nothing *)
(* held.                                                                      *)
LEMMA RetireSessionFits ==
  ASSUME TypeOK, FitInv, RetireSession
  PROVE  FitInv'
  <1>1. /\ UNCHANGED <<batch, meta, current>> /\ current = NoChunk
        /\ pc = "retire" /\ pc' = "feed" /\ hold' = <<>>
        /\ chunker' = ResetAfterCut(chunker)
    BY DEF RetireSession, ClearBuffers, inputVars
  <1>2. Closed'
    BY <1>1 DEF Closed, ResetAfterCut, TypeOK, ChunkerState
  <1> QED BY <1>1, <1>2 DEF FitInv, BatchOK, OpenOK, CountOK, MetaFits

(* Writing or holding a batch adds at most its frames to chunk and hold.      *)
HoldAfter == IF speech THEN <<>> ELSE KeepLast(hold, batch, TailCap)

(* Writing or holding a batch adds at most its length to a chunk and its held *)
(* silence.                                                                   *)
LEMMA WriteFits ==
  ASSUME TypeOK, NEW c \in Chunk, NEW bound \in Nat,
         Len(c.frames) + Len(hold) + Len(batch) <= bound
  PROVE  /\ Written(c) \in Chunk
         /\ Len(Written(c).frames) + Len(HoldAfter) <= bound
  <1>1. /\ hold \in Seq(Nat) /\ batch \in Seq(Nat) /\ Len(c.frames) \in Nat
        /\ Len(hold) \in Nat /\ Len(batch) \in Nat
    <2>1. hold \in Seq(Nat) /\ batch \in Seq(Nat)
      BY DEF TypeOK
    <2>2. c.frames \in Seq(Nat)
      BY DEF Chunk
    <2> QED BY <2>1, <2>2
  <1>2. CASE speech
    <2>1. hold \o batch \in Seq(Nat) /\ Len(hold \o batch) = Len(hold) + Len(batch)
      BY <1>1
    <2>2. /\ Extend(c, hold \o batch) \in Chunk
          /\ Len(Extend(c, hold \o batch).frames) = Len(c.frames) + Len(hold \o batch)
      BY <2>1, ExtendType
    <2>3. Written(c) = Extend(c, hold \o batch) /\ Len(HoldAfter) = 0
      BY <1>2 DEF Written, HoldAfter
    <2>4. Len(Written(c).frames) = Len(c.frames) + (Len(hold) + Len(batch))
      BY <2>1, <2>2, <2>3
    <2>5. Written(c) \in Chunk
      BY <2>2, <2>3
    <2>6. \A x, y, z \in Nat : x + y + z <= bound => x + (y + z) + 0 <= bound
      OBVIOUS
    <2>7. Len(c.frames) + (Len(hold) + Len(batch)) + 0 <= bound
      BY <1>1, <2>6, Zenon
    <2> QED BY <2>3, <2>4, <2>5, <2>7, Zenon
  <1>3. CASE ~speech
    <2>1. Written(c) = c /\ HoldAfter = KeepLast(hold, batch, TailCap)
      BY <1>3 DEF Written, HoldAfter
    <2>2. /\ Len(HoldAfter) <= Len(hold) + Len(batch) /\ Len(HoldAfter) \in Nat
      BY <1>1, <2>1, KeepLastLen, KeepLastType
    <2> QED BY <1>1, <2>1, <2>2
  <1> QED BY <1>2, <1>3

(* Feeding a batch keeps the fit: the count of the chunker grows with what is *)
(* written.                                                                   *)
LEMMA FeedFits ==
  ASSUME TypeOK, FitInv, Feed
  PROVE  FitInv'
  <1> DEFINE n   == Len(batch)
             fed == Fed(chunker, speech, n)
             oc  == OpenChunk(fed)
  <1>1. /\ n \in BatchSizes /\ n \in Nat
        /\ batch \in Seq(Nat) /\ hold \in Seq(Nat) /\ preroll \in Seq(Nat)
        /\ chunker \in ChunkerState /\ chunker.chunk \in Nat /\ speech \in BOOLEAN
        /\ MaxFrames \in Nat
    BY MaxFramesType DEF FitInv, BatchOK, Feed, TypeOK, ChunkerState
  <1>2. /\ pc = "feed" /\ pc' = "cut" /\ chunker' = fed /\ cut' = CutOf(fed)
        /\ UNCHANGED <<batch, meta>>
    BY DEF Feed, inputVars, storeVars
  <1>3. /\ fed.open = (chunker.open \/ speech)
        /\ fed.chunk = IF fed.open THEN chunker.chunk + n ELSE chunker.chunk
    BY <1>1 DEF Fed, ChunkerState
  <1>4. MetaFits' /\ BatchOK'
    BY <1>1, <1>2 DEF FitInv, MetaFits, BatchOK
  <1>5. CASE oc = NoChunk
    <2>1. /\ current = NoChunk /\ ~fed.open
          /\ current' = NoChunk /\ hold' = hold
      <3>1. current = NoChunk
        BY <1>5 DEF OpenChunk
      <3>2. ~fed.open
        <4>1. ASSUME fed.open PROVE FALSE
          <5>1. PrerollNow \in Seq(Nat) /\ nextIndex \in Nat /\ sessionFrames \in Nat
            BY KeepLastType DEF PrerollNow, TypeOK
          <5>2. oc \in Chunk
            BY <3>1, <4>1, <5>1 DEF OpenChunk, Chunk
          <5> QED BY <1>5, <5>2
        <4> QED BY <4>1
      <3> QED BY <1>5, <3>1, <3>2 DEF Feed
    <2>2. Closed'
      BY <1>1, <1>2, <1>3, <2>1 DEF FitInv, OpenOK, Closed
    <2> QED BY <1>2, <1>4, <2>1, <2>2 DEF FitInv, OpenOK, CountOK
  <1>6. CASE oc # NoChunk
    <2>1. /\ current' = Written(oc)
          /\ hold' = IF speech THEN <<>> ELSE KeepLast(hold, batch, TailCap)
      BY <1>6 DEF Feed
    <2>2. /\ oc \in Chunk /\ Len(oc.frames) \in Nat /\ fed.open
          /\ Len(oc.frames) + Len(hold) + n <= fed.chunk + PrerollCap
      <3>1. CASE current = NoChunk
        <4>1. PrerollNow \in Seq(Nat) /\ Len(PrerollNow) <= PrerollCap
          BY <1>1, <3>1, KeepLastType DEF PrerollNow
        <4>2. fed.open /\ oc = [index |-> nextIndex, offset |-> sessionFrames,
                                frames |-> PrerollNow]
          BY <1>6, <3>1 DEF OpenChunk
        <4>3. oc \in Chunk /\ oc.frames = PrerollNow
          BY <4>1, <4>2 DEF Chunk, TypeOK
        <4>4. hold = <<>> /\ fed.chunk = n
          BY <1>1, <1>2, <1>3, <3>1, <4>2 DEF FitInv, OpenOK, Closed
        <4> QED BY <1>1, <4>1, <4>2, <4>3, <4>4
      <3>2. CASE current # NoChunk
        <4>1. oc = current /\ current \in Chunk /\ Len(current.frames) \in Nat
          BY <3>2 DEF OpenChunk, TypeOK, Chunk
        <4>2. fed.open /\ fed.chunk = chunker.chunk + n
          BY <1>3, <3>2 DEF FitInv, OpenOK
        <4>3. Len(current.frames) + Len(hold) <= chunker.chunk + PrerollCap
          BY <3>2 DEF FitInv, CountOK
        <4> QED BY <1>1, <4>1, <4>2, <4>3
      <3> QED BY <3>1, <3>2
    <2>3. /\ current' \in Chunk
          /\ Len(current'.frames) + Len(hold') <= fed.chunk + PrerollCap
      <3>1. fed.chunk + PrerollCap \in Nat
        BY <1>1, <1>3
      <3>2. /\ Written(oc) \in Chunk
            /\ Len(Written(oc).frames) + Len(HoldAfter) <= fed.chunk + PrerollCap
        BY <2>2, <3>1, WriteFits
      <3> QED BY <2>1, <3>2 DEF HoldAfter
    <2>4. fed.chunk + PrerollCap <= SizeLimit
      <3>1. PrerollCap + n <= Second + 1 /\ PrerollCap + n <= SizeLimit
        BY <1>1, ReserveAssumption
      <3>2. CASE current = NoChunk
        <4>1. fed.chunk = n
          BY <1>1, <1>2, <1>3, <2>2, <3>2 DEF FitInv, OpenOK, Closed
        <4> QED BY <1>1, <3>1, <4>1
      <3>3. CASE current # NoChunk
        <4>1. chunker.chunk < MaxFrames /\ fed.chunk = chunker.chunk + n
          BY <1>2, <1>3, <2>2, <3>3 DEF FitInv, CountOK
        <4> QED BY <1>1, <3>1, <4>1 DEF MaxFrames
      <3> QED BY <3>2, <3>3
    <2>5. current' # NoChunk
      BY <2>3
    <2> QED BY <1>2, <1>4, <2>2, <2>3, <2>4, <2>5 DEF FitInv, OpenOK, CountOK
  <1> QED BY <1>5, <1>6

(* A batch after which no cut is due leaves the count below the cap.          *)
LEMMA NoCutFits ==
  ASSUME TypeOK, FitInv, NoCut
  PROVE  FitInv'
  <1>1. /\ pc = "cut" /\ pc' = "read" /\ cut = "None"
        /\ UNCHANGED <<batch, chunker, current, hold, meta, cut>>
    BY DEF NoCut, inputVars, audioVars, storeVars
  <1>2. chunker.open => chunker.chunk < MaxFrames
    <2>1. CutOf(chunker) = "None" /\ chunker.chunk \in Nat
      BY <1>1 DEF FitInv, OpenOK, TypeOK, ChunkerState
    <2> QED BY <2>1, MaxFramesType DEF CutOf, AtCap
  <1> QED BY <1>1, <1>2 DEF FitInv, BatchOK, OpenOK, CountOK, MetaFits, Closed

(* record() starts with nothing open and nothing listed.                      *)
LEMMA InitFits == Init => FitInv
  <1> SUFFICES ASSUME Init PROVE FitInv
    OBVIOUS
  <1>1. MetaFits
    BY DEF Init, MetaFits
  <1>2. Closed
    BY DEF Init, Closed, NewChunker
  <1> QED BY <1>1, <1>2 DEF Init, FitInv, BatchOK, OpenOK, CountOK

(* FitInv is inductive: every step of the writer and of the UI keeps it.      *)
LEMMA FitStep == TypeOK /\ FitInv /\ [Next]_vars => FitInv'
  <1> SUFFICES ASSUME TypeOK, FitInv, [Next]_vars PROVE FitInv'
    OBVIOUS
  <1>1. CASE Read
    BY <1>1, ReadFits DEF Read
  <1>2. CASE StayInSession \/ GoIdle \/ RolloverFails \/ BeginNext
    BY <1>2, RolloverFits
  <1>3. CASE RetireChunk \/ CloseLast \/ CutChunk
    BY <1>3, CloseFits
  <1>4. CASE RetireSession
    BY <1>4, RetireSessionFits
  <1>5. CASE Feed
    BY <1>5, FeedFits
  <1>6. CASE NoCut
    BY <1>6, NoCutFits
  <1>7. CASE LeaveLoop \/ WriterFails \/ EndSession
    <2>1. /\ UNCHANGED <<batch, chunker, current, hold, meta, cut>>
          /\ \/ pc = "read" /\ pc' = "ending"
             \/ pc' \in {"failed", "done"}
      BY <1>7 DEF LeaveLoop, WriterFails, EndSession, inputVars, audioVars, storeVars
    <2> QED BY <2>1 DEF FitInv, BatchOK, OpenOK, CountOK, MetaFits, Closed
  <1>8. CASE StopRecording \/ Terminated \/ UNCHANGED vars
    <2>1. UNCHANGED <<pc, batch, chunker, current, hold, meta, cut>>
      BY <1>8 DEF StopRecording, Terminated, vars, inputVars, audioVars, storeVars
    <2> QED BY <2>1 DEF FitInv, BatchOK, OpenOK, CountOK, MetaFits, Closed
  <1> QED BY <1>1, <1>2, <1>3, <1>4, <1>5, <1>6, <1>7, <1>8 DEF Next, Writer

(* No chunk file, open or kept, is longer than the limit: the count that is   *)
(* tested leaves out the pre-roll, and the reserve makes up for it.           *)
THEOREM FilesFit == Spec => []ChunkFitsLimit
  <1>1. TypeOK /\ FitInv => ChunkFitsLimit
    <2> SUFFICES ASSUME TypeOK, FitInv PROVE ChunkFitsLimit
      OBVIOUS
    <2>1. CASE current = NoChunk
      BY <2>1 DEF FitInv, MetaFits, ChunkFitsLimit
    <2>2. CASE current # NoChunk
      BY <2>2, ClosingFits DEF FitInv, MetaFits, ChunkFitsLimit
    <2> QED BY <2>1, <2>2
  <1> QED BY <1>1, InitType, TypeStep, InitFits, FitStep, PTL DEF Spec

-----------------------------------------------------------------------------
(* A session never begins in a directory that was used before.                *)

Used == dirs \cup {d \in DirNames : meta[d] # <<>>}

(* While no rollover is under way every directory is older than the moment    *)
(* that ends the session: than rolloverAt, and than the clock once the        *)
(* session is idle, because IDLE_ROLLOVER has passed since anything began.    *)
OldDirs ==
    \A d \in Used : /\ d < rolloverAt
                    /\ d <= lastSpeechAt
                    /\ idle => d < now

(* Between begin_session and the switch the newest directory is this          *)
(* second's, and it is not the one being closed.                              *)
SwitchingDirs ==
    /\ lastSpeechAt = now /\ now \in dirs /\ dir < now
    /\ \A d \in Used : d <= now

SessionInv ==
    /\ dir \in dirs
    /\ lastSpeechAt <= now
    /\ pc = "rollover" /\ speech => lastSpeechAt = now
    /\ pc \notin {"retire", "failed"} => OldDirs
    /\ pc = "retire" => SwitchingDirs

(* Clock readings and directory names are whole seconds, so they can be       *)
(* compared.                                                                  *)
LEMMA Times ==
  ASSUME TypeOK
  PROVE  /\ now \in Nat /\ lastSpeechAt \in Nat /\ dir \in Nat /\ rolloverAt \in Nat
         /\ now \in DirNames /\ idle \in BOOLEAN /\ Used \subseteq Nat
  <1>1. DirNames \subseteq Nat
    BY DEF DirNames
  <1> QED BY <1>1 DEF TypeOK, Used

(* The reason a rollover always finds a fresh name.                           *)
LEMMA DueIsFresh ==
  ASSUME TypeOK, SessionInv, pc = "rollover", RolloverDue
  PROVE  now \notin Used
  <1> SUFFICES ASSUME now \in Used PROVE FALSE
    OBVIOUS
  <1>1. now < rolloverAt /\ (idle => now < now)
    BY DEF SessionInv, OldDirs
  <1>2. now \in Nat /\ rolloverAt \in Nat
    BY Times
  <1> QED BY <1>1, <1>2 DEF RolloverDue

(* finish_chunk uses no directory that was not in use.                        *)
LEMMA FinishChunkUsed ==
  ASSUME TypeOK, SessionInv, NEW c, FinishChunk(c), dirs' = dirs
  PROVE  Used' \subseteq Used
  <1>1. dir \in dirs /\ dir \in DirNames /\ meta \in [DirNames -> Seq(Chunk)]
    BY DEF SessionInv, TypeOK
  <1> QED BY <1>1, FinishChunkMeta DEF Used

(* The first session is older than the midnight that ends it.                 *)
LEMMA InitSession == Init => SessionInv
  <1> SUFFICES ASSUME Init PROVE SessionInv
    OBVIOUS
  <1>1. Used = {StartTime}
    BY DEF Init, Used
  <1>2. StartTime \in Nat
    BY DEF DirNames
  <1>3. NextMidnight(StartTime) > StartTime /\ NextMidnight(StartTime) \in Nat
    BY <1>2, NextMidnightType
  <1> QED BY <1>1, <1>2, <1>3 DEF Init, SessionInv, OldDirs

(* Reading the clock keeps every used directory older than the end of the     *)
(* session.                                                                   *)
LEMMA ReadSession ==
  ASSUME TypeOK, SessionInv, NEW n \in BatchSizes, NEW spoken \in BOOLEAN,
         NEW step \in ClockSteps, ReadBatch(n, spoken, step)
  PROVE  SessionInv'
  <1>1. /\ UNCHANGED <<dirs, meta, dir, rolloverAt, idle>>
        /\ pc = "read" /\ pc' = "rollover" /\ speech' = spoken
        /\ now' = now + step
        /\ lastSpeechAt' = IF spoken THEN now' ELSE lastSpeechAt
    BY DEF ReadBatch, storeVars
  <1>2. step \in Nat /\ now \in Nat /\ lastSpeechAt \in Nat /\ Used \subseteq Nat
    BY Times
  <1>3. Used' = Used
    BY <1>1 DEF Used
  <1>4. lastSpeechAt <= now /\ OldDirs /\ dir \in dirs
    BY <1>1 DEF SessionInv
  <1>5. lastSpeechAt' \in Nat /\ lastSpeechAt' <= now' /\ lastSpeechAt <= lastSpeechAt'
    BY <1>1, <1>2, <1>4
  <1>6. OldDirs'
    <2> SUFFICES ASSUME NEW d \in Used
                 PROVE  d < rolloverAt /\ d <= lastSpeechAt' /\ (idle => d < now')
      BY <1>1, <1>3 DEF OldDirs
    <2>1. d \in Nat /\ d < rolloverAt /\ d <= lastSpeechAt /\ (idle => d < now)
      BY <1>2, <1>4 DEF OldDirs
    <2> QED BY <1>1, <1>2, <1>5, <2>1
  <1> QED BY <1>1, <1>4, <1>5, <1>6 DEF SessionInv

(* The decision at a boundary keeps it: a failed rollover waits, so what it   *)
(* left behind is in the past.                                                *)
LEMMA RolloverSession ==
  ASSUME TypeOK, SessionInv, \/ StayInSession \/ GoIdle \/ RolloverFails \/ BeginNext
  PROVE  SessionInv'
  <1>1. /\ pc = "rollover" /\ UNCHANGED <<now, speech, lastSpeechAt, dir>>
    BY DEF StayInSession, GoIdle, RolloverFails, BeginNext, inputVars, sessionVars
  <1>2. /\ dir \in dirs /\ lastSpeechAt <= now /\ OldDirs
        /\ speech => lastSpeechAt = now
    BY <1>1 DEF SessionInv
  <1>3. /\ now \in Nat /\ lastSpeechAt \in Nat /\ Used \subseteq Nat
        /\ now \in DirNames /\ dir \in Nat
    BY Times
  <1>4. CASE StayInSession
    <2>1. /\ pc' = "feed" /\ UNCHANGED <<dirs, meta, rolloverAt, idle>>
      BY <1>4 DEF StayInSession, storeVars, sessionVars
    <2> QED BY <1>1, <1>2, <2>1 DEF SessionInv, OldDirs, Used
  <1>5. CASE GoIdle
    <2>1. /\ pc' = "feed" /\ UNCHANGED <<dirs, meta, rolloverAt>>
          /\ now - lastSpeechAt >= IdleRollover
      BY <1>5 DEF GoIdle, IdleDue
    <2>2. lastSpeechAt < now
      BY <1>3, <2>1
    <2>3. OldDirs'
      <3> SUFFICES ASSUME NEW d \in Used
                   PROVE  d < rolloverAt /\ d <= lastSpeechAt /\ d < now
        BY <1>1, <2>1 DEF OldDirs, Used
      <3>1. d \in Nat /\ d < rolloverAt /\ d <= lastSpeechAt
        BY <1>2, <1>3 DEF OldDirs
      <3> QED BY <1>3, <2>2, <3>1
    <2> QED BY <1>1, <1>2, <2>1, <2>3 DEF SessionInv
  <1>6. CASE RolloverFails
    <2>1. /\ pc' = "feed" /\ meta' = meta /\ idle' = FALSE /\ speech
          /\ rolloverAt' = now + RetryDelay /\ dirs' \in {dirs, dirs \cup {now}}
      BY <1>6 DEF RolloverFails, RetryAt, RolloverDue
    <2>2. OldDirs'
      <3> SUFFICES ASSUME NEW d \in Used'
                   PROVE  d < rolloverAt' /\ d <= lastSpeechAt
        BY <1>1, <2>1 DEF OldDirs
      <3>1. d = now \/ d \in Used
        BY <2>1 DEF Used
      <3>2. d \in Nat /\ d <= now
        BY <1>2, <1>3, <2>1, <3>1 DEF OldDirs
      <3> QED BY <1>2, <1>3, <2>1, <3>2
    <2> QED BY <1>1, <1>2, <2>1, <2>2 DEF SessionInv
  <1>7. CASE BeginNext
    <2>1. /\ pc' = "retire" /\ speech /\ RolloverDue
          /\ dirs' = dirs \cup {now} /\ meta' = [meta EXCEPT ![now] = <<>>]
      BY <1>7 DEF BeginNext, RolloverDue
    <2>2. Used' \subseteq Used \cup {now}
      BY <2>1 DEF Used, TypeOK
    <2>3. dir # now /\ dir <= now
      <3>1. dir \in Used /\ now \notin Used
        BY <1>1, <1>2, <2>1, DueIsFresh DEF Used
      <3> QED BY <1>2, <1>3, <2>1, <3>1 DEF OldDirs
    <2>4. SwitchingDirs'
      <3>1. \A d \in Used' : d <= now
        BY <1>2, <1>3, <2>1, <2>2 DEF OldDirs
      <3> QED BY <1>1, <1>2, <1>3, <2>1, <2>3, <3>1 DEF SwitchingDirs
    <2> QED BY <1>1, <1>2, <1>3, <2>1, <2>4 DEF SessionInv
  <1> QED BY <1>4, <1>5, <1>6, <1>7

(* Closing a chunk touches no directory name and no clock.                    *)
LEMMA CloseSession ==
  ASSUME TypeOK, SessionInv, RetireChunk \/ CloseLast \/ CutChunk
  PROVE  SessionInv'
  <1>1. /\ UNCHANGED <<now, speech, lastSpeechAt, dir, dirs, rolloverAt, idle>>
        /\ \/ pc' = pc /\ pc \in {"retire", "ending"}
           \/ pc = "cut" /\ pc' = "read"
    BY DEF RetireChunk, CloseLast, CutChunk, inputVars
  <1>2. \E c : FinishChunk(c)
    BY DEF RetireChunk, CloseLast, CutChunk
  <1>3. Used' \subseteq Used
    BY <1>1, <1>2, FinishChunkUsed
  <1>4. OldDirs => OldDirs'
    BY <1>1, <1>3 DEF OldDirs
  <1>5. SwitchingDirs => SwitchingDirs'
    BY <1>1, <1>3 DEF SwitchingDirs
  <1> QED BY <1>1, <1>4, <1>5 DEF SessionInv

(* After the switch every directory is older than the new session's midnight. *)
LEMMA RetireSessionSession ==
  ASSUME TypeOK, SessionInv, RetireSession
  PROVE  SessionInv'
  <1>1. /\ UNCHANGED <<now, speech, lastSpeechAt, meta>>
        /\ pc = "retire" /\ pc' = "feed" /\ dir' = now /\ idle' = FALSE
        /\ rolloverAt' = NextMidnight(now)
    BY DEF RetireSession, Switch, inputVars
  <1>2. dirs' = dirs \/ dirs' = dirs \ {dir}
    BY DEF RetireSession, DiscardEmptySession, CloseOldSession
  <1>3. SwitchingDirs
    BY <1>1 DEF SessionInv
  <1>4. /\ now \in Nat /\ dir \in Nat /\ Used \subseteq Nat
    BY Times
  <1>5. NextMidnight(now) > now /\ NextMidnight(now) \in Nat
    BY <1>4, NextMidnightType
  <1>6. now \in dirs'
    BY <1>2, <1>3, <1>4 DEF SwitchingDirs
  <1>7. Used' \subseteq Used
    BY <1>1, <1>2 DEF Used
  <1>8. OldDirs'
    <2> SUFFICES ASSUME NEW d \in Used'
                 PROVE  d < NextMidnight(now) /\ d <= lastSpeechAt
      BY <1>1 DEF OldDirs
    <2>1. d \in Nat /\ d <= now
      BY <1>3, <1>4, <1>7 DEF SwitchingDirs
    <2> QED BY <1>3, <1>4, <1>5, <2>1 DEF SwitchingDirs
  <1> QED BY <1>1, <1>3, <1>4, <1>6, <1>8 DEF SessionInv, SwitchingDirs

(* SessionInv is inductive: every step of the writer and of the UI keeps it.  *)
LEMMA SessionStep == TypeOK /\ SessionInv /\ [Next]_vars => SessionInv'
  <1> SUFFICES ASSUME TypeOK, SessionInv, [Next]_vars PROVE SessionInv'
    OBVIOUS
  <1>1. CASE Read
    BY <1>1, ReadSession DEF Read
  <1>2. CASE StayInSession \/ GoIdle \/ RolloverFails \/ BeginNext
    BY <1>2, RolloverSession
  <1>3. CASE RetireChunk \/ CloseLast \/ CutChunk
    BY <1>3, CloseSession
  <1>4. CASE RetireSession
    BY <1>4, RetireSessionSession
  <1>5. CASE Feed \/ NoCut \/ LeaveLoop \/ WriterFails \/ EndSession
    <2>1. /\ UNCHANGED <<now, speech, lastSpeechAt, dir, dirs, meta, rolloverAt, idle>>
          /\ \/ pc \notin {"retire", "failed"} /\ pc' \notin {"rollover", "retire"}
             \/ pc' = "failed"
      BY <1>5 DEF Feed, NoCut, LeaveLoop, WriterFails, EndSession, inputVars, audioVars,
                  sessionVars, storeVars
    <2> QED BY <2>1 DEF SessionInv, OldDirs, Used
  <1>6. CASE StopRecording \/ Terminated \/ UNCHANGED vars
    <2>1. UNCHANGED <<pc, now, speech, lastSpeechAt, dir, dirs, meta, rolloverAt, idle>>
      BY <1>6 DEF StopRecording, Terminated, vars, inputVars, sessionVars, storeVars
    <2> QED BY <2>1 DEF SessionInv, OldDirs, SwitchingDirs, Used
  <1> QED BY <1>1, <1>2, <1>3, <1>4, <1>5, <1>6 DEF Next, Writer

(* A rollover always picks a name no session directory has.                   *)
THEOREM RolloverIsFresh == Spec => []FreshDirectory
  <1>1. TypeOK /\ SessionInv => FreshDirectory
    BY DueIsFresh DEF FreshDirectory, Used
  <1> QED BY <1>1, InitType, TypeStep, InitSession, SessionStep, PTL DEF Spec

(* A list prolongs itself.                                                    *)
LEMMA ProlongsSame ==
  ASSUME NEW s \in Seq(Chunk)
  PROVE  Prolongs(s, s)
  BY DEF Prolongs

(* A list with one more chunk prolongs the list.                              *)
LEMMA ProlongsAppend ==
  ASSUME NEW s \in Seq(Chunk), NEW c \in Chunk
  PROVE  Prolongs(Append(s, c), s)
  <1>1. /\ Append(s, c) \in Seq(Chunk) /\ Len(Append(s, c)) = Len(s) + 1
        /\ \A i \in 1..Len(s) : Append(s, c)[i] = s[i]
        /\ Len(s) \in Nat
    OBVIOUS
  <1>2. SubSeq(Append(s, c), 1, Len(s)) = s
    BY <1>1
  <1> QED BY <1>1, <1>2 DEF Prolongs

(* No step shortens or rewrites what a meta.json lists.                       *)
LEMMA KeptStep ==
  ASSUME TypeOK, SessionInv, [Next]_vars
  PROVE  \A d \in DirNames : Prolongs(meta'[d], meta[d])
  <1>1. meta \in [DirNames -> Seq(Chunk)] /\ dir \in DirNames /\ now \in DirNames
    BY DEF TypeOK
  <1>2. CASE RetireChunk \/ CloseLast \/ CutChunk
    <2>1. \E c \in Chunk : FinishChunk(c)
      <3>1. current \in Chunk
        BY <1>2 DEF RetireChunk, CloseLast, CutChunk, TypeOK
      <3>2. WithHold(current) \in Chunk
        BY <3>1, ExtendType DEF WithHold, TypeOK
      <3> QED BY <1>2, <3>1, <3>2 DEF RetireChunk, CloseLast, CutChunk, Closing
    <2>2. PICK c \in Chunk : FinishChunk(c)
      BY <2>1
    <2>3. CASE meta' = meta
      BY <1>1, <2>3, ProlongsSame
    <2>4. CASE meta' = [meta EXCEPT ![dir] = Append(@, c)]
      <3> SUFFICES ASSUME NEW d \in DirNames PROVE Prolongs(meta'[d], meta[d])
        OBVIOUS
      <3>1. CASE d = dir
        <4>1. meta'[d] = Append(meta[d], c) /\ meta[d] \in Seq(Chunk)
          BY <1>1, <2>4, <3>1
        <4> QED BY <4>1, ProlongsAppend
      <3>2. CASE d # dir
        <4>1. meta'[d] = meta[d] /\ meta[d] \in Seq(Chunk)
          BY <1>1, <2>4, <3>2
        <4> QED BY <4>1, ProlongsSame
      <3> QED BY <3>1, <3>2
    <2> QED BY <2>2, <2>3, <2>4, FinishChunkMeta
  <1>3. CASE BeginNext
    <2>1. now \notin Used
      BY <1>3, DueIsFresh DEF BeginNext
    <2>2. meta[now] = <<>>
      BY <1>1, <2>1 DEF Used
    <2>3. meta' = meta
      BY <1>1, <1>3, <2>2 DEF BeginNext
    <2> QED BY <1>1, <2>3, ProlongsSame
  <1>4. CASE ~BeginNext /\ ~RetireChunk /\ ~CloseLast /\ ~CutChunk
    <2>1. meta' = meta
      BY <1>4 DEF Next, Writer, Read, ReadBatch, StayInSession, GoIdle, RolloverFails,
          RetireSession, Feed, NoCut, LeaveLoop, EndSession, WriterFails, StopRecording,
          Terminated, storeVars, vars
    <2> QED BY <1>1, <2>1, ProlongsSame
  <1> QED BY <1>2, <1>3, <1>4

(* A chunk once listed in a meta.json is listed there for the rest of the     *)
(* run, whatever fails.                                                       *)
THEOREM ListedForever == Spec => KeptForever
  <1>1. TypeOK /\ SessionInv /\ [Next]_vars =>
            [\A d \in DirNames : Prolongs(meta'[d], meta[d])]_vars
    BY KeptStep
  <1> QED BY <1>1, InitType, TypeStep, InitSession, SessionStep, PTL DEF Spec, KeptForever


-----------------------------------------------------------------------------
(* The file the writer opens next, and the summary it returns.                *)

(* The listed indices are used up, the open chunk has the next one, and the   *)
(* directory of a rollover lists nothing yet.                                 *)
FileInv ==
    /\ pc \in {"read", "rollover", "feed", "cut"} =>
           \A k \in 1..Len(meta[dir]) : meta[dir][k].index < nextIndex
    /\ current # NoChunk => current.index = nextIndex
    /\ pc = "retire" => meta[now] = <<>>

(* kept counts the session's chunks, so a session dropped from the summary    *)
(* has none.                                                                  *)
SummaryInv ==
    /\ kept = Len(meta[dir])
    /\ closedChunks + kept = Len(jobs)
    /\ \A d \in DirNames : meta[d] # <<>> => d \in Elems(sessions)
    /\ \A k, m \in 1..Len(sessions) : k < m => sessions[k] < sessions[m]

(* What finish_chunk was given, and what it did with it.                      *)
LEMMA ClosesCurrent ==
  ASSUME TypeOK, RetireChunk \/ CloseLast \/ CutChunk
  PROVE  \E c \in Chunk :
            /\ c.index = current.index /\ current # NoChunk /\ current' = NoChunk
            /\ \/ UNCHANGED <<meta, kept, jobs>>
               \/ /\ meta' = [meta EXCEPT ![dir] = Append(@, c)]
                  /\ kept' = kept + 1
                  /\ jobs' = Append(jobs, [dir |-> dir, index |-> c.index])
  <1>1. current \in Chunk /\ current # NoChunk /\ current' = NoChunk
    BY DEF RetireChunk, CloseLast, CutChunk, TypeOK
  <1>2. WithHold(current) \in Chunk /\ WithHold(current).index = current.index
    BY <1>1, ExtendType DEF WithHold, TypeOK
  <1>3. \E c \in Chunk : c.index = current.index /\ FinishChunk(c)
    BY <1>1, <1>2 DEF RetireChunk, CloseLast, CutChunk, Closing
  <1>4. PICK c \in Chunk : c.index = current.index /\ FinishChunk(c)
    BY <1>3
  <1>5. \/ UNCHANGED <<meta, kept, jobs>>
        \/ /\ meta' = [meta EXCEPT ![dir] = Append(@, c)]
           /\ kept' = kept + 1
           /\ jobs' = Append(jobs, [dir |-> dir, index |-> c.index])
    BY <1>4 DEF FinishChunk
  <1> QED BY <1>1, <1>4, <1>5

(* BeginNext writes an empty list where there was none.                       *)
LEMMA BeginsEmpty ==
  ASSUME TypeOK, SessionInv, BeginNext
  PROVE  meta' = meta /\ meta[now] = <<>>
  <1>1. meta \in [DirNames -> Seq(Chunk)] /\ now \in DirNames
    BY DEF TypeOK
  <1>2. now \notin Used
    BY DueIsFresh DEF BeginNext
  <1>3. meta[now] = <<>>
    BY <1>1, <1>2 DEF Used
  <1> QED BY <1>1, <1>3 DEF BeginNext

(* At first nothing is listed.                                                *)
LEMMA InitFile == Init => FileInv /\ SummaryInv
  <1> SUFFICES ASSUME Init PROVE FileInv /\ SummaryInv
    OBVIOUS
  <1>1. /\ meta = [d \in DirNames |-> <<>>] /\ current = NoChunk /\ pc = "read"
        /\ sessions = <<StartTime>> /\ dir = StartTime /\ kept = 0 /\ closedChunks = 0
        /\ jobs = <<>>
    BY DEF Init
  <1>2. meta[dir] = <<>>
    <2>1. StartTime \in DirNames
      BY RecorderAssumption
    <2> QED BY <1>1, <2>1
  <1> QED BY <1>1, <1>2 DEF FileInv, SummaryInv, Elems

(* A closed chunk uses up its index, and is counted.                          *)
LEMMA FileClose ==
  ASSUME TypeOK, SessionInv, FileInv, SummaryInv, RetireChunk \/ CloseLast \/ CutChunk
  PROVE  FileInv' /\ SummaryInv'
  <1>1. PICK c \in Chunk :
            /\ c.index = current.index /\ current # NoChunk /\ current' = NoChunk
            /\ \/ UNCHANGED <<meta, kept, jobs>>
               \/ /\ meta' = [meta EXCEPT ![dir] = Append(@, c)]
                  /\ kept' = kept + 1
                  /\ jobs' = Append(jobs, [dir |-> dir, index |-> c.index])
    BY ClosesCurrent
  <1>2. /\ UNCHANGED <<now, dir, sessions, closedChunks>>
        /\ \/ pc' = pc /\ pc \in {"retire", "ending"} /\ nextIndex' = nextIndex
           \/ pc = "cut" /\ pc' = "read" /\ nextIndex' = nextIndex + 1
    BY DEF RetireChunk, CloseLast, CutChunk, inputVars, IndexAfterCut
  <1>3. /\ meta \in [DirNames -> Seq(Chunk)] /\ dir \in DirNames /\ now \in DirNames
        /\ meta[dir] \in Seq(Chunk) /\ jobs \in Seq(Job) /\ nextIndex \in Nat
        /\ kept \in Nat /\ closedChunks \in Nat
    BY DEF TypeOK
  <1>0. dir \in Elems(sessions)
    <2>1. Len(sessions) \in 1..Len(sessions) /\ sessions[Len(sessions)] = dir
      BY DEF TypeOK
    <2> QED BY <2>1 DEF Elems
  <1>9. \A k \in 1..Len(meta[dir]) : meta[dir][k].index \in Nat
    <2>1. \A k \in 1..Len(meta[dir]) : meta[dir][k] \in Chunk
      BY <1>3
    <2> QED BY <2>1 DEF Chunk
  <1>4. pc = "retire" => dir < now
    BY DEF SessionInv, SwitchingDirs
  <1>5. CASE UNCHANGED <<meta, kept, jobs>>
    BY <1>1, <1>2, <1>3, <1>5, <1>9 DEF FileInv, SummaryInv
  <1>6. CASE /\ meta' = [meta EXCEPT ![dir] = Append(@, c)] /\ kept' = kept + 1
             /\ jobs' = Append(jobs, [dir |-> dir, index |-> c.index])
    <2>1. meta'[dir] = Append(meta[dir], c) /\ \A d \in DirNames : d # dir => meta'[d] = meta[d]
      BY <1>3, <1>6
    <2>2. /\ Len(meta'[dir]) = Len(meta[dir]) + 1 /\ Len(meta[dir]) \in Nat
          /\ \A k \in 1..Len(meta[dir]) : meta'[dir][k] = meta[dir][k]
          /\ meta'[dir][Len(meta[dir]) + 1] = c
      BY <1>3, <2>1
    <2>3. Len(jobs') = Len(jobs) + 1 /\ Len(jobs) \in Nat
      <3>1. [dir |-> dir, index |-> c.index] \in Job
        BY <1>3 DEF Job, Chunk
      <3> QED BY <1>3, <1>6, <3>1
    <2>4. SummaryInv'
      <3>1. \A d \in DirNames : meta'[d] # <<>> => d \in Elems(sessions)
        BY <1>0, <1>3, <2>1 DEF SummaryInv
      <3>2. kept' = Len(meta'[dir])
        BY <1>6, <2>2 DEF SummaryInv
      <3>3. closedChunks + kept' = Len(jobs')
        <4>1. closedChunks + kept = Len(jobs) /\ kept' = kept + 1
          BY <1>6 DEF SummaryInv
        <4>2. kept \in Nat /\ closedChunks \in Nat
          BY <1>3
        <4> QED BY <2>3, <4>1, <4>2
      <3> QED BY <1>2, <3>1, <3>2, <3>3 DEF SummaryInv, Elems
    <2>5. FileInv'
      <3>1. c.index = nextIndex
        BY <1>1 DEF FileInv
      <3>3. ASSUME pc = "cut", NEW k \in 1..Len(meta'[dir])
            PROVE  meta'[dir][k].index < nextIndex + 1
        <4>1. k \in 1..Len(meta[dir]) \/ k = Len(meta[dir]) + 1
          BY <2>2
        <4>2. k \in 1..Len(meta[dir]) => meta[dir][k].index < nextIndex
          BY <3>3 DEF FileInv
        <4> QED BY <1>3, <1>9, <2>2, <3>1, <4>1, <4>2
      <3>4. pc = "retire" => meta'[now] = <<>>
        <4>1. pc = "retire" => now # dir
          BY <1>4, Times
        <4> QED BY <1>3, <2>1, <4>1 DEF FileInv
      <3> QED BY <1>1, <1>2, <3>3, <3>4 DEF FileInv
    <2> QED BY <2>4, <2>5
  <1> QED BY <1>1, <1>5, <1>6

(* The switch: a session without chunks leaves the summary, with it none that *)
(* has any.                                                                   *)
LEMMA FileSwitch ==
  ASSUME TypeOK, SessionInv, FileInv, SummaryInv, RetireSession
  PROVE  FileInv' /\ SummaryInv'
  <1>1. /\ pc = "retire" /\ pc' = "feed" /\ current = NoChunk
        /\ UNCHANGED <<now, meta, jobs, current>>
        /\ dir' = now /\ nextIndex' = 0 /\ kept' = 0 /\ closedChunks' = closedChunks + kept
    BY DEF RetireSession, Switch, inputVars
  <1>2. /\ meta \in [DirNames -> Seq(Chunk)] /\ now \in DirNames /\ dir \in DirNames
        /\ sessions \in Seq(DirNames) /\ Len(sessions) > 0 /\ sessions[Len(sessions)] = dir
        /\ kept \in Nat /\ closedChunks \in Nat /\ Len(sessions) \in Nat
        /\ now \in Nat /\ dir \in Nat /\ DirNames \subseteq Nat
    BY Times DEF TypeOK, DirNames
  <1>3. meta[now] = <<>> /\ dir < now
    BY <1>1 DEF FileInv, SessionInv, SwitchingDirs
  <1>4. FileInv'
    BY <1>1, <1>3 DEF FileInv
  <1>5. PICK old : /\ old \in Seq(DirNames) /\ sessions' = Append(old, now)
                   /\ \/ old = sessions
                      \/ kept = 0 /\ old = SubSeq(sessions, 1, Len(sessions) - 1)
    <2>1. SubSeq(sessions, 1, Len(sessions) - 1) \in Seq(DirNames)
      BY <1>2
    <2>2. \/ sessions' = Append(sessions, now)
          \/ kept = 0 /\ sessions' = Append(SubSeq(sessions, 1, Len(sessions) - 1), now)
      BY DEF RetireSession, DiscardEmptySession, CloseOldSession
    <2> QED BY <1>2, <2>1, <2>2
  <1>6. /\ Len(old) \in Nat /\ Len(old) <= Len(sessions)
        /\ \A k \in 1..Len(old) : old[k] = sessions[k] /\ old[k] \in Nat
        /\ old # sessions => kept = 0 /\ Len(old) = Len(sessions) - 1
    <2>1. \A k \in 1..Len(sessions) : sessions[k] \in Nat
      <3>1. \A k \in 1..Len(sessions) : sessions[k] \in DirNames
        BY <1>2
      <3> QED BY <1>2, <3>1
    <2>2. CASE old = sessions
      <3>1. Len(old) = Len(sessions) /\ \A k \in 1..Len(old) : old[k] = sessions[k]
        BY <2>2
      <3> QED BY <1>2, <2>1, <2>2, <3>1
    <2>3. CASE kept = 0 /\ old = SubSeq(sessions, 1, Len(sessions) - 1)
      <3>1. \A k \in 1..(Len(sessions) - 1) : sessions[k] \in DirNames
        BY <1>2
      <3>2. Len(sessions) - 1 \in Int /\ Len(sessions) - 1 - 1 + 1 = Len(sessions) - 1
        BY <1>2
      <3>3. Len(old) = Len(sessions) - 1 /\ \A k \in 1..Len(old) : old[k] = sessions[k]
        BY <1>2, <2>3, <3>1, <3>2, SubSeqProperties
      <3> QED BY <1>2, <2>1, <2>3, <3>3
    <2> QED BY <1>5, <2>2, <2>3
  <1>7. /\ Len(sessions') = Len(old) + 1 /\ sessions'[Len(old) + 1] = now
        /\ \A k \in 1..Len(old) : sessions'[k] = sessions[k]
    BY <1>2, <1>5, <1>6
  <1>8. \A k \in 1..Len(sessions) : sessions[k] <= dir
    <2> TAKE k \in 1..Len(sessions)
    <2>1. sessions[k] \in DirNames
      BY <1>2
    <2>2. k = Len(sessions) \/ k < Len(sessions)
      BY <1>2
    <2>3. k < Len(sessions) => sessions[k] < sessions[Len(sessions)]
      BY <1>2 DEF SummaryInv
    <2>4. sessions[k] \in Nat
      BY <1>2, <2>1
    <2> QED BY <1>2, <2>2, <2>3, <2>4
  <1>9. \A k, m \in 1..Len(sessions') : k < m => sessions'[k] < sessions'[m]
    <2> SUFFICES ASSUME NEW k \in 1..Len(sessions'), NEW m \in 1..Len(sessions'), k < m
                 PROVE  sessions'[k] < sessions'[m]
      OBVIOUS
    <2>1. k \in 1..Len(old) /\ k \in 1..Len(sessions) /\ (m \in 1..Len(old) \/ m = Len(old) + 1)
      BY <1>6, <1>7
    <2>2. CASE m \in 1..Len(old)
      <3>1. m \in 1..Len(sessions)
        BY <1>6, <2>2
      <3> QED BY <1>7, <2>1, <2>2, <3>1 DEF SummaryInv
    <2>3. CASE m = Len(old) + 1
      <3>1. sessions'[k] = sessions[k] /\ sessions'[m] = now
        BY <1>7, <2>1, <2>3
      <3>2. sessions[k] <= dir /\ sessions[k] \in Nat
        BY <1>6, <1>8, <2>1
      <3> QED BY <1>2, <1>3, <3>1, <3>2
    <2> QED BY <2>1, <2>2, <2>3
  <1>10. ASSUME NEW d \in DirNames, meta[d] # <<>>
         PROVE  d \in Elems(sessions')
    <2>1. PICK k \in 1..Len(sessions) : sessions[k] = d
      BY <1>10 DEF SummaryInv, Elems
    <2>2. k \in 1..Len(old)
      <3>1. CASE old = sessions
        BY <2>1, <3>1
      <3>2. CASE old # sessions
        <4>1. meta[dir] = <<>>
          BY <1>2, <1>6, <3>2 DEF SummaryInv
        <4>2. k # Len(sessions)
          BY <1>2, <1>10, <2>1, <4>1
        <4> QED BY <1>2, <1>6, <2>1, <3>2, <4>2
      <3> QED BY <3>1, <3>2
    <2>3. k \in 1..Len(sessions') /\ sessions'[k] = d
      BY <1>6, <1>7, <2>1, <2>2
    <2> QED BY <2>3 DEF Elems
  <1>11. kept' = Len(meta'[dir'])
    BY <1>1, <1>3
  <1>12. closedChunks' + kept' = Len(jobs')
    BY <1>1, <1>2 DEF SummaryInv
  <1> QED BY <1>1, <1>4, <1>9, <1>10, <1>11, <1>12 DEF SummaryInv

(* A chunk opens under the next index.                                        *)
LEMMA FileFeed ==
  ASSUME TypeOK, FileInv, Feed
  PROVE  FileInv'
  <1>1. /\ pc = "feed" /\ pc' = "cut" /\ UNCHANGED <<nextIndex, now, dir, meta>>
    BY DEF Feed, inputVars, sessionVars, storeVars
  <1>2. PICK oc : oc = OpenChunk(Fed(chunker, speech, Len(batch)))
    OBVIOUS
  <1>3. \/ oc = NoChunk /\ current' = current
        \/ oc # NoChunk /\ current' = Written(oc)
    BY <1>2 DEF Feed
  <1>4. oc = current \/ oc.index = nextIndex
    BY <1>2 DEF OpenChunk
  <1>5. Written(oc).index = oc.index
    BY DEF Written, Extend
  <1>6. current' # NoChunk => current'.index = nextIndex
    BY <1>2, <1>3, <1>4, <1>5 DEF FileInv, OpenChunk
  <1> QED BY <1>1, <1>6 DEF FileInv

(* Every step keeps both.                                                     *)
LEMMA FileStep == TypeOK /\ SessionInv /\ FileInv /\ SummaryInv /\ [Next]_vars
                      => FileInv' /\ SummaryInv'
  <1> SUFFICES ASSUME TypeOK, SessionInv, FileInv, SummaryInv, [Next]_vars
               PROVE  FileInv' /\ SummaryInv'
    OBVIOUS
  <1>1. CASE RetireChunk \/ CloseLast \/ CutChunk
    BY <1>1, FileClose
  <1>2. CASE RetireSession
    BY <1>2, FileSwitch
  <1>3. CASE Feed
    <2>1. UNCHANGED <<dir, sessions, meta, jobs, kept, closedChunks>>
      BY <1>3 DEF Feed, sessionVars, storeVars
    <2> QED BY <1>3, <2>1, FileFeed DEF SummaryInv, Elems
  <1>4. CASE BeginNext
    <2>1. /\ meta' = meta /\ meta[now] = <<>> /\ pc' = "retire"
          /\ UNCHANGED <<current, nextIndex, now, dir, sessions, jobs, kept, closedChunks>>
      BY <1>4, BeginsEmpty DEF BeginNext, inputVars, audioVars, sessionVars
    <2> QED BY <2>1 DEF FileInv, SummaryInv, Elems
  <1>5. CASE Read \/ StayInSession \/ GoIdle \/ RolloverFails \/ NoCut \/ LeaveLoop
             \/ EndSession \/ WriterFails
    <2>1. /\ UNCHANGED <<meta, current, nextIndex, dir, sessions, jobs, kept, closedChunks>>
          /\ pc' # "retire"
          /\ \/ pc \in {"read", "rollover", "feed", "cut"}
             \/ pc' \notin {"read", "rollover", "feed", "cut"}
      BY <1>5 DEF Read, ReadBatch, StayInSession, GoIdle, RolloverFails, NoCut, LeaveLoop,
                  EndSession, WriterFails, audioVars, sessionVars, storeVars
    <2> QED BY <2>1 DEF FileInv, SummaryInv, Elems
  <1>6. CASE StopRecording \/ Terminated \/ UNCHANGED vars
    <2>1. UNCHANGED <<pc, now, meta, current, nextIndex, dir, sessions, jobs, kept, closedChunks>>
      BY <1>6 DEF StopRecording, Terminated, vars, inputVars, audioVars, sessionVars, storeVars
    <2> QED BY <2>1 DEF FileInv, SummaryInv, Elems
  <1> QED BY <1>1, <1>2, <1>3, <1>4, <1>5, <1>6 DEF Next, Writer

(* The file the writer would open next, or has open, is one that no meta.json *)
(* lists: audio that is queued for transcription is never truncated (record). *)
THEOREM NextFileStaysNew == Spec => []NextFileIsNew
  <1>1. TypeOK /\ FileInv => NextFileIsNew
    BY DEF FileInv, NextFileIsNew
  <1>2. Init => FileInv /\ SummaryInv
    BY InitFile
  <1> QED BY <1>1, <1>2, InitType, TypeStep, InitSession, SessionStep, FileStep, PTL DEF Spec

(* The summary that main compresses and uploads from names every session that *)
(* kept a chunk, each once and in order, and counts every chunk (record).     *)
THEOREM SummaryIsComplete == Spec => []SummaryComplete
  <1>1. SummaryInv => SummaryComplete
    BY DEF SummaryInv, SummaryComplete
  <1>2. Init => FileInv /\ SummaryInv
    BY InitFile
  <1> QED BY <1>1, <1>2, InitType, TypeStep, InitSession, SessionStep, FileStep, PTL DEF Spec

-----------------------------------------------------------------------------
(* While the index works it agrees with the files.                            *)

Indices(d) == {meta[d][k].index : k \in 1..Len(meta[d])}
Ended(d) == index[d].row /\ index[d].ended # Never /\ index[d].total = Len(meta[d])

(* The row of the session under way is there, the chunks of every session are *)
(* those of its meta.json, and a session that is over, or idle, has its end.  *)
IndexInv ==
    "index" \notin Faults =>
        /\ index[dir].row
        /\ pc = "retire" => index[now].row
        /\ \A d \in DirNames : index[d].chunks = Indices(d)
        /\ \A d \in DirNames : d # dir /\ meta[d] # <<>> => Ended(d)
        /\ (idle \/ pc = "done") /\ meta[dir] # <<>> => Ended(dir)

(* Nobody talks in an idle session, so no chunk is open.                      *)
IdleInv == idle => current = NoChunk /\ (pc = "feed" => ~speech)

(* What each operation of db.rs does to the row it is given.                  *)
LEMMA FinishRowIs ==
  ASSUME NEW idx \in [DirNames -> Row], NEW d \in DirNames, NEW n \in Nat, idx[d].row,
         now \in DirNames
  PROVE  /\ FinishRow(idx, d, n)[d].row /\ FinishRow(idx, d, n)[d].ended = now
         /\ FinishRow(idx, d, n)[d].total = n
         /\ FinishRow(idx, d, n)[d].chunks = idx[d].chunks
         /\ \A e \in DirNames : e # d => FinishRow(idx, d, n)[e] = idx[e]
  <1>1. idx[d] \in Row
    OBVIOUS
  <1> QED BY <1>1 DEF FinishRow, Row

(* A chunk row adds the chunk and leaves the other sessions alone.            *)
LEMMA RecordRowIs ==
  ASSUME NEW idx \in [DirNames -> Row], NEW d \in DirNames, NEW i \in Nat, idx[d].row
  PROVE  /\ RecordRow(idx, d, i)[d].row
         /\ RecordRow(idx, d, i)[d].chunks = idx[d].chunks \cup {i}
         /\ \A e \in DirNames : e # d => RecordRow(idx, d, i)[e] = idx[e]
  <1>1. idx[d] \in Row
    OBVIOUS
  <1> QED BY <1>1 DEF RecordRow, Row

(* A row that starts anew keeps its chunks.                                   *)
LEMMA StartRowIs ==
  ASSUME NEW idx \in [DirNames -> Row], NEW d \in DirNames
  PROVE  /\ StartRow(idx, d)[d].row /\ StartRow(idx, d)[d].chunks = idx[d].chunks
         /\ \A e \in DirNames : e # d => StartRow(idx, d)[e] = idx[e]
  <1>1. idx[d] \in Row
    OBVIOUS
  <1> QED BY <1>1 DEF StartRow, Row

(* A deleted row has no chunks.                                               *)
LEMMA DeleteRowIs ==
  ASSUME NEW idx \in [DirNames -> Row], NEW d \in DirNames
  PROVE  /\ DeleteRow(idx, d)[d].chunks = {}
         /\ \A e \in DirNames : e # d => DeleteRow(idx, d)[e] = idx[e]
  BY DEF DeleteRow, NoRow

(* A working index: every transaction succeeds.                               *)
LEMMA IndexWorks ==
  ASSUME "index" \notin Faults
  PROVE  \A ok \in Outcomes("index") : ok
  BY Zenon DEF Outcomes

(* A session that kept nothing lists nothing.                                 *)
LEMMA NoneKept ==
  ASSUME TypeOK, SummaryInv, kept = 0
  PROVE  meta[dir] = <<>>
  <1>1. meta[dir] \in Seq(Chunk) /\ Len(meta[dir]) = 0
    BY DEF TypeOK, SummaryInv
  <1> QED BY <1>1

(* Finishing the session under way stamps it.                                 *)
LEMMA FinishesSession ==
  ASSUME TypeOK, SummaryInv, IndexInv, "index" \notin Faults, FinishSession(kept),
         UNCHANGED <<meta, dir>>
  PROVE  /\ Ended(dir)' /\ index'[dir].chunks = index[dir].chunks
         /\ \A d \in DirNames : d # dir => index'[d] = index[d]
  <1>1. /\ index \in [DirNames -> Row] /\ dir \in DirNames /\ now \in DirNames /\ kept \in Nat
        /\ index[dir].row
    BY DEF TypeOK, IndexInv
  <1>2. index' = FinishRow(index, dir, kept)
    BY IndexWorks DEF FinishSession
  <1>3. now # Never
    BY <1>1 DEF DirNames, Never
  <1> QED BY <1>1, <1>2, <1>3, FinishRowIs DEF Ended, SummaryInv

(* The first session has its row before the loop.                             *)
LEMMA InitIndex == Init => IndexInv /\ IdleInv
  <1> SUFFICES ASSUME Init PROVE IndexInv /\ IdleInv
    OBVIOUS
  <1>1. /\ meta = [d \in DirNames |-> <<>>] /\ pc = "read" /\ dir = StartTime /\ idle = FALSE
        /\ StartTime \in DirNames
    BY RecorderAssumption DEF Init
  <1>2. "index" \notin Faults =>
            index = [d \in DirNames |-> IF d = StartTime THEN [NoRow EXCEPT !.row = TRUE]
                                                         ELSE NoRow]
    BY IndexWorks DEF Init
  <1>3. [NoRow EXCEPT !.row = TRUE].row /\ [NoRow EXCEPT !.row = TRUE].chunks = {}
        /\ NoRow.chunks = {}
    BY DEF NoRow
  <1>4. \A d \in DirNames : Indices(d) = {}
    BY <1>1 DEF Indices
  <1> QED BY <1>1, <1>2, <1>3, <1>4 DEF IndexInv, IdleInv

(* A closed chunk is recorded under the session it is listed in.              *)
LEMMA IndexClose ==
  ASSUME TypeOK, SessionInv, IndexInv, IdleInv, RetireChunk \/ CloseLast \/ CutChunk
  PROVE  IndexInv' /\ IdleInv'
  <1>1. /\ UNCHANGED <<now, dir, idle, speech>> /\ current # NoChunk /\ current' = NoChunk
        /\ \/ pc' = pc /\ pc \in {"retire", "ending"}
           \/ pc = "cut" /\ pc' = "read"
    BY DEF RetireChunk, CloseLast, CutChunk, inputVars
  <1>2. ~idle
    BY <1>1 DEF IdleInv
  <1>3. current \in Chunk /\ WithHold(current) \in Chunk
    BY <1>1, ExtendType DEF WithHold, TypeOK
  <1>4. \E c \in Chunk : FinishChunk(c)
    BY <1>3 DEF RetireChunk, CloseLast, CutChunk, Closing
  <1>5. PICK c \in Chunk : FinishChunk(c)
    BY <1>4
  <1>6. SUFFICES ASSUME "index" \notin Faults PROVE IndexInv'
    BY <1>1, <1>2 DEF IdleInv, IndexInv
  <1>7. /\ meta \in [DirNames -> Seq(Chunk)] /\ index \in [DirNames -> Row] /\ dir \in DirNames
        /\ now \in DirNames /\ index[dir].row /\ c.index \in Nat /\ meta[dir] \in Seq(Chunk)
    BY <1>6 DEF TypeOK, IndexInv, Chunk
  <1>8. CASE UNCHANGED <<meta, index>>
    BY <1>1, <1>2, <1>6, <1>8 DEF IndexInv, Ended, Indices
  <1>9. CASE meta' = [meta EXCEPT ![dir] = Append(@, c)] /\ index' = RecordRow(index, dir, c.index)
    <2>1. meta'[dir] = Append(meta[dir], c) /\ \A d \in DirNames : d # dir => meta'[d] = meta[d]
      BY <1>7, <1>9
    <2>2. /\ index'[dir].row /\ index'[dir].chunks = index[dir].chunks \cup {c.index}
          /\ \A d \in DirNames : d # dir => index'[d] = index[d]
      <3> DEFINE new == RecordRow(index, dir, c.index)
      <3>1. /\ new[dir].row /\ new[dir].chunks = index[dir].chunks \cup {c.index}
            /\ \A d \in DirNames : d # dir => new[d] = index[d]
        <4>1. index \in [DirNames -> Row] /\ dir \in DirNames /\ index[dir].row /\ c.index \in Nat
          BY <1>7
        <4> QED BY <4>1, RecordRowIs
      <3>2. index' = new
        BY <1>9
      <3> HIDE DEF new
      <3> QED BY <3>1, <3>2
    <2>3. /\ Len(meta'[dir]) = Len(meta[dir]) + 1 /\ Len(meta[dir]) \in Nat
          /\ \A k \in 1..Len(meta[dir]) : meta'[dir][k] = meta[dir][k]
          /\ meta'[dir][Len(meta[dir]) + 1] = c
      BY <1>7, <2>1
    <2>4. 1..Len(meta'[dir]) = (1..Len(meta[dir])) \cup {Len(meta[dir]) + 1}
      BY <2>3
    <2>5. {meta'[dir][k].index : k \in 1..Len(meta'[dir])}
              = {meta[dir][k].index : k \in 1..Len(meta[dir])} \cup {c.index}
      BY <2>3, <2>4
    <2>6. \A d \in DirNames : index'[d].chunks = Indices(d)'
      <3>1. index'[dir].chunks = {meta'[dir][k].index : k \in 1..Len(meta'[dir])}
        BY <1>6, <1>7, <2>2, <2>5 DEF IndexInv, Indices
      <3> SUFFICES ASSUME NEW d \in DirNames PROVE index'[d].chunks = Indices(d)'
        OBVIOUS
      <3>2. CASE d = dir
        BY <3>1, <3>2 DEF Indices
      <3>3. CASE d # dir
        <4>1. meta'[d] = meta[d] /\ index'[d] = index[d]
          BY <2>1, <2>2, <3>3
        <4> QED BY <1>6, <4>1 DEF IndexInv, Indices
      <3> QED BY <3>2, <3>3
    <2>7. \A d \in DirNames : d # dir /\ meta'[d] # <<>> => Ended(d)'
      BY <1>6, <2>1, <2>2 DEF IndexInv, Ended
    <2>8. pc' = "retire" => index'[now].row
      BY <1>1, <1>6, <1>7, <2>2 DEF IndexInv
    <2> QED BY <1>1, <1>2, <2>2, <2>6, <2>7, <2>8 DEF IndexInv
  <1>10. \/ UNCHANGED <<meta, index>>
         \/ meta' = [meta EXCEPT ![dir] = Append(@, c)] /\ index' = RecordRow(index, dir, c.index)
    BY <1>5, <1>6, IndexWorks DEF FinishChunk
  <1> QED BY <1>8, <1>9, <1>10

(* The switch leaves the old session ended, or without chunks.                *)
LEMMA IndexSwitch ==
  ASSUME TypeOK, SessionInv, FileInv, SummaryInv, IndexInv, IdleInv, RetireSession
  PROVE  IndexInv' /\ IdleInv'
  <1>1. /\ pc = "retire" /\ pc' = "feed" /\ UNCHANGED <<now, meta>> /\ dir' = now /\ idle' = FALSE
    BY DEF RetireSession, Switch, inputVars
  <1>2. IdleInv'
    BY <1>1 DEF IdleInv
  <1>3. SUFFICES ASSUME "index" \notin Faults PROVE IndexInv'
    BY <1>2 DEF IndexInv
  <1>4. /\ meta \in [DirNames -> Seq(Chunk)] /\ index \in [DirNames -> Row] /\ dir \in DirNames
        /\ now \in DirNames /\ now \in Nat /\ dir \in Nat
    BY Times DEF TypeOK
  <1>5. dir # now /\ meta[now] = <<>> /\ index[now].row
    BY <1>1, <1>3, <1>4 DEF SessionInv, SwitchingDirs, FileInv, IndexInv
  <1>6. /\ index'[dir].chunks = index[dir].chunks
        /\ meta[dir] # <<>> => index'[dir].row /\ index'[dir].ended # Never
                               /\ index'[dir].total = Len(meta[dir])
        /\ \A d \in DirNames : d # dir => index'[d] = index[d]
    <2>1. CASE kept = 0
      <3>1. meta[dir] = <<>>
        BY <2>1, NoneKept
      <3>2. index[dir].chunks = {}
        BY <1>3, <1>4, <3>1 DEF IndexInv, Indices
      <3>3. index' = index \/ index' = DeleteRow(index, dir)
        BY <2>1 DEF RetireSession, DiscardEmptySession
      <3>4. CASE index' = index
        BY <3>1, <3>4
      <3>5. CASE index' = DeleteRow(index, dir)
        <4> DEFINE new == DeleteRow(index, dir)
        <4>1. /\ new[dir].chunks = {}
              /\ \A d \in DirNames : d # dir => new[d] = index[d]
          <5>1. index \in [DirNames -> Row] /\ dir \in DirNames
            BY <1>4
          <5> QED BY <5>1, DeleteRowIs
        <4>2. index' = new
          BY <3>5
        <4> HIDE DEF new
        <4> QED BY <3>1, <3>2, <4>1, <4>2
      <3> QED BY <3>3, <3>4, <3>5
    <2>2. CASE kept # 0 /\ idle
      <3>1. index' = index
        BY <2>2 DEF RetireSession, CloseOldSession
      <3> QED BY <1>3, <2>2, <3>1 DEF IndexInv, Ended
    <2>3. CASE kept # 0 /\ ~idle
      <3>1. index' = FinishRow(index, dir, kept)
        BY <1>3, <2>3, IndexWorks DEF RetireSession, CloseOldSession, FinishSession
      <3>2. now # Never /\ kept \in Nat /\ index[dir].row
        BY <1>3, <1>4 DEF Never, TypeOK, IndexInv
      <3>3. /\ index'[dir].row /\ index'[dir].ended = now /\ index'[dir].total = kept
            /\ index'[dir].chunks = index[dir].chunks
            /\ \A d \in DirNames : d # dir => index'[d] = index[d]
        <4> DEFINE new == FinishRow(index, dir, kept)
        <4>1. /\ new[dir].row /\ new[dir].ended = now /\ new[dir].total = kept
              /\ new[dir].chunks = index[dir].chunks
              /\ \A d \in DirNames : d # dir => new[d] = index[d]
          BY <1>4, <3>2, FinishRowIs
        <4>2. index' = new
          BY <3>1
        <4> HIDE DEF new
        <4> QED BY <4>1, <4>2
      <3>4. kept = Len(meta[dir])
        BY DEF SummaryInv
      <3> QED BY <3>2, <3>3, <3>4
    <2> QED BY <2>1, <2>2, <2>3
  <1>7. \A d \in DirNames : index'[d].chunks = Indices(d)'
    BY <1>1, <1>3, <1>6 DEF IndexInv, Indices
  <1>8. \A d \in DirNames : d # now /\ meta[d] # <<>> => Ended(d)'
    BY <1>1, <1>3, <1>6 DEF IndexInv, Ended
  <1> QED BY <1>1, <1>4, <1>5, <1>6, <1>7, <1>8 DEF IndexInv

(* An idle session opens no chunk.                                            *)
LEMMA IdleFeed ==
  ASSUME TypeOK, FitInv, IdleInv, Feed
  PROVE  IdleInv'
  <1>1. pc = "feed" /\ pc' = "cut" /\ idle' = idle
    BY DEF Feed, sessionVars
  <1> SUFFICES ASSUME idle PROVE current' = NoChunk
    BY <1>1 DEF IdleInv
  <1>2. current = NoChunk /\ ~speech /\ ~chunker.open
    BY <1>1 DEF IdleInv, FitInv, OpenOK, Closed
  <1>3. ~Fed(chunker, speech, Len(batch)).open
    BY <1>2 DEF Fed
  <1>4. OpenChunk(Fed(chunker, speech, Len(batch))) = NoChunk
    BY <1>2, <1>3 DEF OpenChunk
  <1> QED BY <1>2, <1>4 DEF Feed

(* Every step keeps both.                                                     *)
LEMMA IndexStep ==
  ASSUME TypeOK, FitInv, SessionInv, FileInv, SummaryInv, IndexInv, IdleInv, [Next]_vars
  PROVE  IndexInv' /\ IdleInv'
  <1>1. CASE RetireChunk \/ CloseLast \/ CutChunk
    BY <1>1, IndexClose
  <1>2. CASE RetireSession
    BY <1>2, IndexSwitch
  <1>3. CASE Feed
    <2>1. UNCHANGED <<dir, idle, index, meta, now>> /\ pc' = "cut"
      BY <1>3 DEF Feed, inputVars, sessionVars, storeVars
    <2> QED BY <1>3, <2>1, IdleFeed DEF IndexInv, Ended, Indices
  <1>4. CASE GoIdle \/ EndSession
    <2>1. /\ UNCHANGED <<dir, meta, now, current, speech>>
          /\ \/ pc' = "done" /\ idle' = idle
             \/ pc' = "feed" /\ current = NoChunk /\ ~speech
      BY <1>4 DEF GoIdle, IdleDue, EndSession, inputVars, audioVars, sessionVars
    <2>2. IdleInv'
      BY <2>1 DEF IdleInv
    <2>3. SUFFICES ASSUME "index" \notin Faults PROVE IndexInv'
      BY <2>2 DEF IndexInv
    <2>4. \/ FinishSession(kept)
          \/ index' = index /\ (idle \/ kept = 0)
      <3>1. kept \in Nat
        BY DEF TypeOK
      <3> QED BY <1>4, <3>1 DEF GoIdle, EndSession
    <2>5. CASE FinishSession(kept)
      <3>1. /\ Ended(dir)' /\ index'[dir].chunks = index[dir].chunks
            /\ \A d \in DirNames : d # dir => index'[d] = index[d]
        BY <2>1, <2>3, <2>5, FinishesSession
      <3> QED BY <2>1, <2>3, <3>1 DEF IndexInv, Ended, Indices
    <2>6. CASE index' = index /\ (idle \/ kept = 0)
      <3>1. meta[dir] # <<>> => Ended(dir)
        <4>1. kept = 0 => meta[dir] = <<>>
          BY NoneKept
        <4> QED BY <2>3, <2>6, <4>1 DEF IndexInv
      <3> QED BY <2>1, <2>3, <2>6, <3>1 DEF IndexInv, Ended, Indices
    <2> QED BY <2>4, <2>5, <2>6
  <1>5. CASE BeginNext
    <2>1. /\ meta' = meta /\ meta[now] = <<>> /\ pc' = "retire" /\ pc = "rollover"
          /\ UNCHANGED <<current, speech, now, dir, idle>>
      BY <1>5, BeginsEmpty DEF BeginNext, inputVars, audioVars, sessionVars
    <2>2. IdleInv'
      BY <2>1 DEF IdleInv
    <2>3. SUFFICES ASSUME "index" \notin Faults PROVE IndexInv'
      BY <2>2 DEF IndexInv
    <2>4. index \in [DirNames -> Row] /\ now \in DirNames /\ dir \in DirNames
      BY DEF TypeOK
    <2>5. index' = StartRow(index, now)
      BY <1>5, <2>3, IndexWorks DEF BeginNext
    <2>6. /\ index'[now].row /\ index'[now].chunks = index[now].chunks
          /\ \A d \in DirNames : d # now => index'[d] = index[d]
      BY <2>4, <2>5, StartRowIs
    <2>7. \A d \in DirNames : meta[d] # <<>> => index'[d] = index[d]
      BY <2>1, <2>6
    <2>8. index'[dir].row /\ \A d \in DirNames : index'[d].chunks = index[d].chunks
      BY <2>3, <2>4, <2>6 DEF IndexInv
    <2> QED BY <2>1, <2>3, <2>4, <2>6, <2>7, <2>8 DEF IndexInv, Ended, Indices
  <1>6. CASE Read \/ StayInSession \/ RolloverFails \/ NoCut \/ LeaveLoop \/ WriterFails
    <2>1. /\ UNCHANGED <<dir, meta, index, current>> /\ pc' \notin {"retire", "done"}
          /\ idle' \in {idle, FALSE}
      BY <1>6 DEF Read, ReadBatch, StayInSession, RolloverFails, NoCut, LeaveLoop,
                  WriterFails, audioVars, sessionVars, storeVars
    <2>2. pc' = "feed" => idle' = FALSE \/ (speech' = speech /\ ~(speech /\ idle))
      BY <1>6 DEF Read, ReadBatch, StayInSession, RolloverDue, RolloverFails, NoCut, LeaveLoop,
                  WriterFails, inputVars
    <2>3. CASE idle' = FALSE
      BY <2>1, <2>3 DEF IndexInv, IdleInv, Ended, Indices
    <2>4. CASE idle' = idle
      <3>1. IndexInv'
        BY <2>1, <2>4 DEF IndexInv, Ended, Indices
      <3>2. IdleInv'
        BY <2>1, <2>2, <2>4 DEF IdleInv
      <3> QED BY <3>1, <3>2
    <2> QED BY <2>1, <2>3, <2>4
  <1>7. CASE StopRecording \/ Terminated \/ UNCHANGED vars
    <2>1. UNCHANGED <<pc, now, speech, meta, current, dir, idle, index>>
      BY <1>7 DEF StopRecording, Terminated, vars, inputVars, audioVars, sessionVars, storeVars
    <2> QED BY <2>1 DEF IndexInv, IdleInv, Ended, Indices
  <1> QED BY <1>1, <1>2, <1>3, <1>4, <1>5, <1>6, <1>7 DEF Next, Writer

(* While the index works, a session that kept audio ends up ended, with       *)
(* exactly the chunks of its meta.json, however often it was finished on the  *)
(* way (finish_chunk, finish_session, start_session).                         *)
THEOREM IndexStaysTrue == Spec => []IndexAgrees
  <1>1. TypeOK /\ IndexInv => IndexAgrees
    <2> SUFFICES ASSUME TypeOK, IndexInv, pc = "done", "index" \notin Faults,
                        NEW d \in DirNames, meta[d] # <<>>
                 PROVE  Ended(d) /\ index[d].chunks = Indices(d)
      BY DEF IndexAgrees, Ended, Indices
    <2> QED BY DEF IndexInv
  <1>2. Init => FileInv /\ SummaryInv /\ IndexInv /\ IdleInv
    BY InitFile, InitIndex
  <1> QED BY <1>1, <1>2, InitType, TypeStep, InitFits, FitStep, InitSession, SessionStep,
             FileStep, IndexStep, PTL DEF Spec
=============================================================================
