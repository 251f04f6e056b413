------------------------- MODULE RecorderLogProofs -------------------------
(* What the writer does with speech, for every choice of its constants: it    *)
(* implements SessionLog, keeps its chunks in order and trim, loses no spoken *)
(* frame, and parts the sessions at midnight and at every long quiet.         *)
EXTENDS RecorderProofs

USE ChunkerAssumption, RecorderAssumption

-----------------------------------------------------------------------------
(* Which positions the helpers keep.                                          *)

(* A concatenation is one sequence after the other.                           *)
LEMMA ConcatAt ==
  ASSUME NEW S, NEW s \in Seq(S), NEW t \in Seq(S)
  PROVE  /\ Len(s \o t) = Len(s) + Len(t) /\ Len(s) \in Nat /\ Len(t) \in Nat
         /\ \A i \in 1..Len(s) : (s \o t)[i] = s[i]
         /\ \A i \in 1..Len(t) : (s \o t)[Len(s) + i] = t[i]
  OBVIOUS

(* A concatenation has the elements of both.                                  *)
LEMMA ElemsConcat ==
  ASSUME NEW s \in Seq(Nat), NEW t \in Seq(Nat)
  PROVE  Elems(s \o t) = Elems(s) \cup Elems(t)
  <1>1. /\ Len(s \o t) = Len(s) + Len(t) /\ Len(s) \in Nat /\ Len(t) \in Nat
        /\ \A i \in 1..Len(s) : (s \o t)[i] = s[i]
        /\ \A i \in 1..Len(t) : (s \o t)[Len(s) + i] = t[i]
    BY ConcatAt
  <1>2. Elems(s \o t) \subseteq Elems(s) \cup Elems(t)
    <2> SUFFICES ASSUME NEW i \in 1..Len(s \o t) PROVE (s \o t)[i] \in Elems(s) \cup Elems(t)
      BY DEF Elems
    <2>1. CASE i <= Len(s)
      BY <1>1, <2>1 DEF Elems
    <2>2. CASE ~(i <= Len(s))
      <3>1. i - Len(s) \in 1..Len(t) /\ Len(s) + (i - Len(s)) = i
        BY <1>1, <2>2
      <3>2. (s \o t)[Len(s) + (i - Len(s))] = t[i - Len(s)]
        BY <1>1, <3>1
      <3>3. t[i - Len(s)] \in Elems(t)
        BY <3>1 DEF Elems
      <3> QED BY <3>1, <3>2, <3>3
    <2> QED BY <2>1, <2>2
  <1>3. Elems(s) \subseteq Elems(s \o t)
    <2> SUFFICES ASSUME NEW i \in 1..Len(s) PROVE s[i] \in Elems(s \o t)
      BY DEF Elems
    <2>1. i \in 1..Len(s \o t) /\ (s \o t)[i] = s[i]
      BY <1>1
    <2> QED BY <2>1 DEF Elems
  <1>4. Elems(t) \subseteq Elems(s \o t)
    <2> SUFFICES ASSUME NEW i \in 1..Len(t) PROVE t[i] \in Elems(s \o t)
      BY DEF Elems
    <2>1. Len(s) + i \in 1..Len(s \o t) /\ (s \o t)[Len(s) + i] = t[i]
      BY <1>1
    <2> QED BY <2>1 DEF Elems
  <1> QED BY <1>2, <1>3, <1>4

(* push_preroll invents nothing.                                              *)
LEMMA KeepLastElems ==
  ASSUME NEW b \in Seq(Nat), NEW s \in Seq(Nat), NEW cap \in Nat
  PROVE  Elems(KeepLast(b, s, cap)) \subseteq Elems(b) \cup Elems(s)
  <1> DEFINE all == b \o s
  <1>1. all \in Seq(Nat) /\ Len(all) \in Nat /\ Elems(all) = Elems(b) \cup Elems(s)
    BY ElemsConcat
  <1>2. CASE Len(all) > cap
    <2> DEFINE m == Len(all) - cap + 1
    <2>1. KeepLast(b, s, cap) = SubSeq(all, m, Len(all))
      BY <1>2 DEF KeepLast
    <2>2. m \in Nat /\ m >= 1
      BY <1>1, <1>2
    <2> HIDE DEF all, m
    <2>3. Elems(SubSeq(all, m, Len(all))) \subseteq Elems(all)
      <3> SUFFICES ASSUME NEW i \in 1..Len(SubSeq(all, m, Len(all)))
                   PROVE  SubSeq(all, m, Len(all))[i] \in Elems(all)
        BY DEF Elems
      <3>1. /\ i \in Nat /\ i >= 1 /\ m + i - 1 \in 1..Len(all)
            /\ SubSeq(all, m, Len(all))[i] = all[m + i - 1]
        BY <1>1, <2>2
      <3> QED BY <3>1 DEF Elems
    <2> QED BY <1>1, <2>1, <2>3
  <1>3. CASE ~(Len(all) > cap)
    BY <1>1, <1>3 DEF KeepLast
  <1> QED BY <1>2, <1>3

(* write_samples adds the positions it writes.                                *)
LEMMA ExtendElems ==
  ASSUME NEW c \in Chunk, NEW more \in Seq(Nat)
  PROVE  Elems(Extend(c, more).frames) = Elems(c.frames) \cup Elems(more)
  <1>1. c.frames \in Seq(Nat)
    BY DEF Chunk
  <1>2. Extend(c, more).frames = c.frames \o more
    BY DEF Extend
  <1> QED BY <1>1, <1>2, ElemsConcat

(* Listing a chunk adds its positions to its session, and to no other.        *)
LEMMA FramesOfAppend ==
  ASSUME TypeOK, NEW c \in Chunk, meta' = [meta EXCEPT ![dir] = Append(@, c)]
  PROVE  \A d \in DirNames :
             FramesOf(d)' = IF d = dir THEN FramesOf(d) \cup Elems(c.frames)
                                       ELSE FramesOf(d)
  <1>1. meta \in [DirNames -> Seq(Chunk)] /\ dir \in DirNames
    BY DEF TypeOK
  <1> SUFFICES ASSUME NEW d \in DirNames
               PROVE  FramesOf(d)' = IF d = dir THEN FramesOf(d) \cup Elems(c.frames)
                                                ELSE FramesOf(d)
    BY <1>1
  <1>2. CASE d # dir
    BY <1>1, <1>2 DEF FramesOf
  <1>3. CASE d = dir
    <2>1. meta'[d] = Append(meta[d], c) /\ meta[d] \in Seq(Chunk)
      BY <1>1, <1>3
    <2>2. /\ Len(meta'[d]) = Len(meta[d]) + 1 /\ Len(meta[d]) \in Nat
          /\ \A k \in 1..Len(meta[d]) : meta'[d][k] = meta[d][k]
          /\ meta'[d][Len(meta[d]) + 1] = c
      BY <2>1
    <2>3. 1..Len(meta'[d]) = 1..Len(meta[d]) \cup {Len(meta[d]) + 1}
      BY <2>2
    <2>4. /\ FramesOf(d)' = UNION {Elems(meta'[d][k].frames) : k \in 1..Len(meta'[d])}
          /\ FramesOf(d) = UNION {Elems(meta[d][k].frames) : k \in 1..Len(meta[d])}
      BY DEF FramesOf, Elems
    <2>5. ASSUME NEW k \in 1..Len(meta[d])
          PROVE  k \in 1..Len(meta'[d]) /\ Elems(meta'[d][k].frames) = Elems(meta[d][k].frames)
      BY <2>2, <2>3
    <2>6. ASSUME NEW k \in 1..Len(meta'[d])
          PROVE  \/ k \in 1..Len(meta[d]) /\ Elems(meta'[d][k].frames) = Elems(meta[d][k].frames)
                 \/ Elems(meta'[d][k].frames) = Elems(c.frames)
      BY <2>2, <2>3
    <2>7. Len(meta'[d]) \in 1..Len(meta'[d]) /\ meta'[d][Len(meta'[d])] = c
      BY <2>2
    <2>8. FramesOf(d)' \subseteq FramesOf(d) \cup Elems(c.frames)
      BY <2>4, <2>6
    <2>9. FramesOf(d) \cup Elems(c.frames) \subseteq FramesOf(d)'
      BY <2>4, <2>5, <2>7
    <2> QED BY <1>3, <2>8, <2>9
  <1> QED BY <1>2, <1>3

-----------------------------------------------------------------------------
(* What makes the mapping work: everything the writer holds or has stored is  *)
(* older than the batch in its hand, and what it may still drop is silence.   *)
InHand == pc \in {"rollover", "retire", "feed"}
Past == IF InHand THEN Len(heard) - Len(batch) ELSE Len(heard)

BatchIsNext ==
    InHand =>
        /\ Len(batch) <= Len(heard)
        /\ \A i \in Elems(batch) : /\ i \in 1..Len(heard) /\ i > Past
                                   /\ heard[i].speech = speech

Stored(positions) == positions \subseteq 1..Past
AllStored ==
    /\ Stored(Elems(preroll)) /\ Stored(Elems(hold)) /\ Stored(runts)
    /\ current # NoChunk => Stored(Elems(current.frames))
    /\ \A d \in DirNames : Stored(FramesOf(d))

Silent(positions) == \A i \in positions : ~heard[i].speech
BuffersSilent ==
    /\ Silent(Elems(hold))
    /\ current = NoChunk /\ pc \in {"read", "rollover", "feed", "cut"} =>
           Silent(Elems(preroll))

NextIsEmpty == pc = "retire" => FramesOf(now) = {}

LogInv == BatchIsNext /\ AllStored /\ BuffersSilent /\ NextIsEmpty

(* The writer starts with nothing at all.                                     *)
LEMMA InitLog == Init => LogInv /\ Log!Init
  <1> SUFFICES ASSUME Init PROVE LogInv /\ Log!Init
    OBVIOUS
  <1>1. /\ preroll = <<>> /\ hold = <<>> /\ runts = {} /\ current = NoChunk
        /\ pc = "read" /\ dir = StartTime
        /\ \A d \in DirNames : meta[d] = <<>>
    BY DEF Init
  <1>2. Elems(<<>>) = {}
    BY DEF Elems
  <1>3. \A d \in DirNames : FramesOf(d) = {}
    BY <1>1 DEF FramesOf
  <1>4. LogInv
    BY <1>1, <1>2, <1>3 DEF LogInv, BatchIsNext, InHand, AllStored, Stored, BuffersSilent,
                            Silent, NextIsEmpty
  <1>5. LogKept = [d \in DirNames |-> {}] /\ LogPending = {} /\ LogDropped = {}
    BY <1>1, <1>3 DEF LogKept, LogPending, LogDropped, SpokenOf
  <1> QED BY <1>1, <1>4, <1>5 DEF Log!Init

(* A position is heard once: what was stored keeps its verdict.               *)
LEMMA PastNat ==
  ASSUME TypeOK, LogInv
  PROVE  /\ Past \in Nat /\ Past <= Len(heard) /\ Len(heard) \in Nat /\ Len(batch) \in Nat
         /\ now \in DirNames
  <1>1. Len(heard) \in Nat /\ Len(batch) \in Nat
    BY DEF TypeOK
  <1> QED BY <1>1 DEF LogInv, BatchIsNext, Past, TypeOK

(* A step that touches neither the audio nor the stores is a stutter of the   *)
(* log, and keeps the invariant as long as the batch stays in hand, or is     *)
(* fed, or is given up.                                                       *)
LEMMA QuietStep ==
  ASSUME TypeOK, LogInv,
         UNCHANGED <<heard, batch, speech, current, preroll, hold, runts, meta, dir>>,
         \/ pc' = pc /\ now' = now
         \/ ~InHand /\ ~InHand' /\ (pc' \in {"read", "cut"} => pc \in {"read", "cut"})
         \/ pc = "rollover" /\ pc' = "feed"
         \/ pc' = "failed"
  PROVE  LogInv' /\ UNCHANGED Log!vars
  <1>1. \A d \in DirNames : FramesOf(d)' = FramesOf(d)
    BY DEF FramesOf
  <1>2. FramesOf(now)' = FramesOf(now) \/ pc' # "retire"
    BY DEF FramesOf, InHand
  <1>3. Past \in Nat /\ Past' \in Nat /\ Past <= Past' /\ (InHand' => Past' = Past)
    BY PastNat DEF Past, InHand
  <1>4. \A s : Stored(s) => Stored(s)'
    BY <1>3 DEF Stored
  <1>5. BatchIsNext'
    BY <1>3 DEF LogInv, BatchIsNext, InHand
  <1>6. AllStored'
    BY <1>1, <1>4 DEF LogInv, AllStored
  <1>7. BuffersSilent'
    BY DEF LogInv, BuffersSilent, Silent, InHand
  <1>8. NextIsEmpty'
    BY <1>2 DEF LogInv, NextIsEmpty, InHand
  <1>9. UNCHANGED Log!vars
    BY <1>1 DEF Log!vars, LogKept, LogPending, LogDropped, SpokenOf
  <1> QED BY <1>5, <1>6, <1>7, <1>8, <1>9 DEF LogInv

(* Reading a batch adds to the stream and changes nothing that is stored.     *)
LEMMA ReadLog ==
  ASSUME TypeOK, LogInv, NEW n \in BatchSizes, NEW spoken \in BOOLEAN,
         NEW step \in ClockSteps, ReadBatch(n, spoken, step)
  PROVE  LogInv' /\ UNCHANGED Log!vars
  <1> DEFINE more == [i \in 1..n |-> [at |-> now', speech |-> spoken]]
  <1>1. /\ pc = "read" /\ pc' = "rollover" /\ batch' = NextFrames(n)
        /\ heard' = heard \o more /\ speech' = spoken
        /\ UNCHANGED <<current, preroll, hold, runts, meta, dir>>
    BY DEF ReadBatch, audioVars, storeVars
  <1>2. /\ n \in Nat /\ Len(heard) \in Nat /\ Past = Len(heard)
        /\ heard \in Seq([at: DirNames, speech: BOOLEAN])
    <2>1. heard \in Seq([at: DirNames, speech: BOOLEAN])
      BY DEF TypeOK
    <2>2. n \in Nat /\ Past = Len(heard)
      BY <1>1 DEF Past, InHand
    <2> QED BY <2>1, <2>2
  <1>3. now' \in DirNames /\ more \in Seq([at: DirNames, speech: BOOLEAN]) /\ Len(more) = n
    <2>1. now' \in DirNames
      <3>1. now' = now + step /\ now + step <= MaxTime
        BY DEF ReadBatch
      <3>2. now \in DirNames /\ step \in Nat /\ MaxTime \in Nat
        BY DEF TypeOK
      <3> QED BY <3>1, <3>2 DEF DirNames
    <2> QED BY <1>2, <2>1
  <1>4. /\ Len(heard') = Len(heard) + n
        /\ \A i \in 1..Len(heard) : heard'[i] = heard[i]
        /\ \A i \in 1..n : heard'[Len(heard) + i] = more[i]
    <2> DEFINE S == [at: DirNames, speech: BOOLEAN]
    <2>0. heard \in Seq(S) /\ more \in Seq(S)
      BY <1>2, <1>3
    <2> HIDE DEF more, S
    <2>1. /\ Len(heard \o more) = Len(heard) + Len(more)
          /\ \A i \in 1..Len(heard) : (heard \o more)[i] = heard[i]
          /\ \A i \in 1..Len(more) : (heard \o more)[Len(heard) + i] = more[i]
      BY <2>0, ConcatAt
    <2>2. heard' = heard \o more /\ Len(more) = n
      BY <1>1, <1>3
    <2> QED BY <2>1, <2>2, Zenon
  <1>5. Len(batch') = n /\ \A i \in 1..n : batch'[i] = Len(heard) + i
    BY <1>1, <1>2 DEF NextFrames
  <1>6. Past' = Len(heard)
    BY <1>1, <1>2, <1>4, <1>5 DEF Past, InHand
  <1>7. BatchIsNext'
    <2>1. ASSUME NEW i \in Elems(batch')
          PROVE  i \in 1..Len(heard') /\ i > Past' /\ heard'[i].speech = speech'
      <3>1. PICK k \in 1..n : i = Len(heard) + k
        BY <1>5 DEF Elems
      <3>2. heard'[i].speech = spoken
        BY <1>4, <3>1
      <3> QED BY <1>1, <1>2, <1>4, <1>6, <3>1, <3>2
    <2> QED BY <1>2, <1>4, <1>5, <2>1 DEF BatchIsNext, Elems
  <1>8. \A s : Stored(s) <=> Stored(s)'
    BY <1>2, <1>6 DEF Stored
  <1>9. \A d \in DirNames : FramesOf(d)' = FramesOf(d)
    BY <1>1 DEF FramesOf
  <1>10. AllStored'
    BY <1>1, <1>8, <1>9 DEF LogInv, AllStored
  <1>11. \A s : Stored(s) => SpokenOf(s)' = SpokenOf(s)
    BY <1>2, <1>4 DEF Stored, SpokenOf
  <1>12. \A s : Stored(s) /\ Silent(s) => Silent(s)'
    BY <1>2, <1>4 DEF Stored, Silent
  <1>13. BuffersSilent'
    BY <1>1, <1>12 DEF LogInv, AllStored, BuffersSilent
  <1>14. NextIsEmpty'
    BY <1>1 DEF NextIsEmpty
  <1>15. LogKept' = LogKept /\ LogPending' = LogPending /\ LogDropped' = LogDropped
    <2>1. \A d \in DirNames : SpokenOf(FramesOf(d))' = SpokenOf(FramesOf(d))
      BY <1>9, <1>11 DEF LogInv, AllStored
    <2>2. LogKept' = LogKept
      BY <2>1 DEF LogKept
    <2> QED BY <1>1, <1>11, <2>2 DEF LogInv, AllStored, LogPending, LogDropped
  <1> QED BY <1>1, <1>7, <1>10, <1>13, <1>14, <1>15 DEF LogInv, Log!vars

(* The directory of the next session is a fresh one, so nothing is lost when  *)
(* its meta.json is written.                                                  *)
LEMMA BeginNextLog ==
  ASSUME TypeOK, SessionInv, LogInv, BeginNext
  PROVE  LogInv' /\ UNCHANGED Log!vars
  <1>1. /\ pc = "rollover" /\ pc' = "retire"
        /\ UNCHANGED <<heard, batch, speech, current, preroll, hold, runts, dir, now>>
        /\ meta' = [meta EXCEPT ![now] = <<>>] /\ RolloverDue
    BY DEF BeginNext, inputVars, audioVars, sessionVars
  <1>2. meta \in [DirNames -> Seq(Chunk)] /\ now \in DirNames
    BY DEF TypeOK
  <1>3. meta[now] = <<>>
    BY <1>1, <1>2, DueIsFresh DEF Used
  <1>4. meta' = meta
    BY <1>1, <1>2, <1>3
  <1>5. \A d \in DirNames : FramesOf(d)' = FramesOf(d)
    BY <1>4 DEF FramesOf
  <1>6. Past' = Past
    BY <1>1 DEF Past, InHand
  <1>7. BatchIsNext' /\ AllStored' /\ BuffersSilent'
    BY <1>1, <1>5, <1>6 DEF LogInv, BatchIsNext, InHand, AllStored, Stored, BuffersSilent, Silent
  <1>8. NextIsEmpty'
    BY <1>1, <1>3, <1>4 DEF NextIsEmpty, FramesOf
  <1>9. UNCHANGED Log!vars
    BY <1>1, <1>5 DEF Log!vars, LogKept, LogPending, LogDropped, SpokenOf
  <1> QED BY <1>7, <1>8, <1>9 DEF LogInv

(* finish_chunk files what was pending, or drops it, whatever silence is      *)
(* closed with it.                                                            *)
LEMMA FinishLog ==
  ASSUME TypeOK, LogInv, NEW c \in Chunk, FinishChunk(c),
         current # NoChunk, current' = NoChunk, UNCHANGED <<heard, dir>>,
         Stored(Elems(c.frames)), SpokenOf(Elems(c.frames)) = LogPending
  PROVE  /\ Stored(runts') /\ \A d \in DirNames : Stored(FramesOf(d)')
         /\ \A d \in DirNames : d # dir => FramesOf(d)' = FramesOf(d)
         /\ Log!File \/ Log!Drop
  <1>1. \A s, t : SpokenOf(s \cup t) = SpokenOf(s) \cup SpokenOf(t)
    BY DEF SpokenOf
  <1>2. \A s : SpokenOf(s)' = SpokenOf(s)
    BY DEF SpokenOf
  <1>3. LogPending' = {}
    BY DEF LogPending
  <1>4. CASE IsRunt(c)
    <2>1. runts' = runts \cup Elems(c.frames) /\ meta' = meta
      BY <1>4 DEF FinishChunk
    <2>2. \A d \in DirNames : FramesOf(d)' = FramesOf(d)
      BY <2>1 DEF FramesOf
    <2>3. LogDropped' = LogDropped \cup LogPending
      BY <1>1, <1>2, <2>1 DEF LogDropped
    <2>4. LogKept' = LogKept
      BY <1>2, <2>2 DEF LogKept
    <2>5. Log!Drop
      BY <1>3, <2>3, <2>4 DEF Log!Drop
    <2> QED BY <2>1, <2>2, <2>5 DEF LogInv, AllStored, Stored
  <1>5. CASE ~IsRunt(c)
    <2>1. runts' = runts /\ meta' = [meta EXCEPT ![dir] = Append(@, c)]
      BY <1>5 DEF FinishChunk
    <2>2. \A d \in DirNames : FramesOf(d)' = IF d = dir THEN FramesOf(d) \cup Elems(c.frames)
                                                      ELSE FramesOf(d)
      BY <2>1, FramesOfAppend
    <2>3. dir \in DirNames
      BY DEF TypeOK
    <2>4. \A d \in DirNames :
              SpokenOf(FramesOf(d))' = IF d = dir THEN SpokenOf(FramesOf(d)) \cup LogPending
                                                  ELSE SpokenOf(FramesOf(d))
      BY <1>1, <1>2, <2>2
    <2>5. LogKept' = [LogKept EXCEPT ![dir] = @ \cup LogPending]
      BY <2>3, <2>4 DEF LogKept
    <2>6. LogDropped' = LogDropped
      BY <1>2, <2>1 DEF LogDropped
    <2>7. Log!File
      BY <1>3, <2>5, <2>6 DEF Log!File
    <2> QED BY <2>1, <2>2, <2>7 DEF LogInv, AllStored, Stored
  <1> QED BY <1>4, <1>5

(* The chunk closed at a cut, a rollover or the end holds what is pending.    *)
LEMMA ClosedChunk ==
  ASSUME TypeOK, LogInv, current # NoChunk, NEW c \in {current, WithHold(current)}
  PROVE  /\ c \in Chunk /\ Stored(Elems(c.frames))
         /\ SpokenOf(Elems(c.frames)) = LogPending
  <1>1. /\ current \in Chunk /\ hold \in Seq(Nat)
        /\ Stored(Elems(current.frames)) /\ Stored(Elems(hold)) /\ Silent(Elems(hold))
    BY DEF TypeOK, LogInv, AllStored, BuffersSilent
  <1>2. LogPending = SpokenOf(Elems(current.frames))
    BY DEF LogPending
  <1>3. CASE c = current
    BY <1>1, <1>2, <1>3
  <1>4. CASE c = WithHold(current)
    <2>1. c \in Chunk /\ Elems(c.frames) = Elems(current.frames) \cup Elems(hold)
      BY <1>1, <1>4, ExtendType, ExtendElems DEF WithHold
    <2> QED BY <1>1, <1>2, <2>1 DEF Stored, Silent, SpokenOf
  <1> QED BY <1>3, <1>4

(* Closing a chunk is one step of the log.                                    *)
LEMMA CloseLog ==
  ASSUME TypeOK, SessionInv, LogInv, RetireChunk \/ CloseLast \/ CutChunk
  PROVE  LogInv' /\ (Log!File \/ Log!Drop)
  <1>1. /\ current # NoChunk /\ current' = NoChunk
        /\ UNCHANGED <<heard, batch, speech, dir, now>>
    BY DEF RetireChunk, CloseLast, CutChunk, inputVars
  <1>2. \/ pc = "retire" /\ pc' = "retire" /\ UNCHANGED <<preroll, hold>>
        \/ pc = "ending" /\ pc' = "ending" /\ UNCHANGED <<preroll, hold>>
        \/ pc = "cut" /\ pc' = "read" /\ preroll' = <<>> /\ hold' = <<>>
    BY DEF RetireChunk, CloseLast, CutChunk, ClearBuffers
  <1>3. PICK c \in {current, WithHold(current)} : FinishChunk(c)
    BY DEF RetireChunk, CloseLast, CutChunk, Closing
  <1>4. /\ c \in Chunk /\ Stored(Elems(c.frames))
        /\ SpokenOf(Elems(c.frames)) = LogPending
    BY <1>1, ClosedChunk
  <1>5. /\ Stored(runts') /\ \A d \in DirNames : Stored(FramesOf(d)')
        /\ \A d \in DirNames : d # dir => FramesOf(d)' = FramesOf(d)
        /\ Log!File \/ Log!Drop
    BY <1>1, <1>3, <1>4, FinishLog
  <1>6. Past' = Past /\ (InHand' <=> InHand)
    BY <1>1, <1>2 DEF Past, InHand
  <1>7. BatchIsNext'
    BY <1>1, <1>6 DEF LogInv, BatchIsNext
  <1>8. Elems(<<>>) = {}
    BY DEF Elems
  <1>9. AllStored'
    <2>1. /\ Elems(preroll') \subseteq Elems(preroll)
          /\ Elems(hold') \subseteq Elems(hold)
      BY <1>2, <1>8
    <2>2. Stored(Elems(preroll')) /\ Stored(Elems(hold'))
      BY <2>1 DEF LogInv, AllStored, Stored
    <2>3. \A s : Stored(s) => (s \subseteq 1..Past')
      BY <1>6 DEF Stored
    <2>4. /\ Elems(preroll)' \subseteq 1..Past' /\ Elems(hold)' \subseteq 1..Past'
          /\ runts' \subseteq 1..Past'
          /\ \A d \in DirNames : FramesOf(d)' \subseteq 1..Past'
      BY <1>5, <2>2, <2>3 DEF Elems
    <2> QED BY <1>1, <2>4 DEF AllStored, Stored
  <1>10. BuffersSilent'
    BY <1>1, <1>2, <1>8 DEF LogInv, BuffersSilent, Silent
  <1>11. NextIsEmpty'
    <2> SUFFICES ASSUME pc' = "retire" PROVE FramesOf(now)' = {}
      BY DEF NextIsEmpty
    <2>1. pc = "retire" /\ dir < now
      BY <1>2 DEF SessionInv, SwitchingDirs
    <2>2. now \in DirNames /\ now # dir /\ FramesOf(now) = {}
      BY <2>1, Times DEF LogInv, NextIsEmpty
    <2>3. \A d \in DirNames : d = now => FramesOf(now)' = FramesOf(d)'
      BY <1>1 DEF FramesOf
    <2>4. \A d \in DirNames : d = now => FramesOf(now)' = FramesOf(d)
      BY <1>5, <2>2, <2>3
    <2> QED BY <2>2, <2>4
  <1> QED BY <1>5, <1>7, <1>9, <1>10, <1>11 DEF LogInv

(* The switch to the next session begins its log, empty and later.            *)
LEMMA RetireSessionLog ==
  ASSUME TypeOK, SessionInv, LogInv, RetireSession
  PROVE  LogInv' /\ Log!Next
  <1>1. /\ pc = "retire" /\ pc' = "feed" /\ dir' = now
        /\ hold' = <<>> /\ preroll' = <<>> /\ current = NoChunk
        /\ UNCHANGED <<heard, batch, speech, now, current, meta, runts>>
    BY DEF RetireSession, Switch, ClearBuffers, inputVars
  <1>2. dir < now /\ now \in DirNames /\ dir \in Nat /\ now \in Nat
    BY <1>1, Times DEF SessionInv, SwitchingDirs
  <1>3. Past' = Past /\ InHand' /\ InHand
    BY <1>1 DEF Past, InHand
  <1>4. Elems(<<>>) = {}
    BY DEF Elems
  <1>5. \A d \in DirNames : FramesOf(d)' = FramesOf(d)
    BY <1>1 DEF FramesOf
  <1>6. BatchIsNext'
    BY <1>1, <1>3 DEF LogInv, BatchIsNext
  <1>7. AllStored'
    BY <1>1, <1>3, <1>4, <1>5 DEF LogInv, AllStored, Stored
  <1>8. BuffersSilent' /\ NextIsEmpty'
    BY <1>1, <1>4 DEF BuffersSilent, Silent, NextIsEmpty
  <1>9. LogKept' = LogKept /\ LogPending' = LogPending /\ LogDropped' = LogDropped
    BY <1>1, <1>5 DEF LogKept, LogPending, LogDropped, SpokenOf
  <1>10. LogPending = {} /\ LogKept[now] = {}
    BY <1>1, <1>2 DEF LogPending, LogKept, LogInv, NextIsEmpty, SpokenOf
  <1>11. Log!Begin(now)
    BY <1>1, <1>2, <1>9, <1>10 DEF Log!Begin
  <1> QED BY <1>2, <1>6, <1>7, <1>8, <1>11 DEF LogInv, Log!Next

(* What a batch of speech leaves in the chunk: what it held, what was held    *)
(* back, and the batch.                                                       *)
LEMMA WrittenElems ==
  ASSUME TypeOK, NEW c \in Chunk
  PROVE  /\ Written(c) \in Chunk
         /\ Elems(Written(c).frames) =
                IF speech THEN Elems(c.frames) \cup (Elems(hold) \cup Elems(batch))
                          ELSE Elems(c.frames)
  <1>1. hold \in Seq(Nat) /\ batch \in Seq(Nat)
    BY DEF TypeOK
  <1>2. hold \o batch \in Seq(Nat) /\ Elems(hold \o batch) = Elems(hold) \cup Elems(batch)
    BY <1>1, ElemsConcat
  <1>3. CASE speech
    <2>1. Written(c) = Extend(c, hold \o batch)
      BY <1>3 DEF Written
    <2>2. /\ Extend(c, hold \o batch) \in Chunk
          /\ Elems(Extend(c, hold \o batch).frames)
                = Elems(c.frames) \cup Elems(hold \o batch)
      BY <1>2, ExtendType, ExtendElems
    <2>3. /\ Written(c) \in Chunk
          /\ Elems(Written(c).frames) = Elems(c.frames) \cup (Elems(hold) \cup Elems(batch))
      BY <1>2, <2>1, <2>2, Zenon
    <2> QED BY <1>3, <2>3, Zenon
  <1>4. CASE ~speech
    BY <1>4 DEF Written
  <1> QED BY <1>3, <1>4

(* Speech is said, silence is not: a batch that is fed is a step of the log   *)
(* or none.                                                                   *)
LEMMA FeedLog ==
  ASSUME TypeOK, FitInv, LogInv, Feed
  PROVE  /\ LogInv' /\ [Log!Next]_(Log!vars) /\ LogKept' = LogKept
         /\ LogPending' = IF speech THEN LogPending \cup Elems(batch) ELSE LogPending
  <1> DEFINE fed == Fed(chunker, speech, Len(batch))
             oc  == OpenChunk(fed)
  <1>1. /\ pc = "feed" /\ pc' = "cut" /\ preroll' = PrerollNow
        /\ UNCHANGED <<heard, batch, speech, dir, now, runts, meta>>
    BY DEF Feed, inputVars, sessionVars, storeVars
  <1>2. /\ batch \in Seq(Nat) /\ hold \in Seq(Nat) /\ preroll \in Seq(Nat)
        /\ speech \in BOOLEAN /\ current \in Chunk \cup {NoChunk}
        /\ nextIndex \in Nat /\ sessionFrames \in Nat
    BY DEF TypeOK
  <1>3. /\ Past \in Nat /\ Past <= Len(heard) /\ Len(heard) \in Nat
        /\ Past' = Len(heard) /\ InHand /\ ~InHand'
    BY <1>1, PastNat DEF Past, InHand
  <1>4. \A i \in Elems(batch) : i \in 1..Len(heard) /\ i > Past /\ heard[i].speech = speech
    BY <1>3 DEF LogInv, BatchIsNext
  <1>5. /\ Stored(Elems(preroll)) /\ Stored(Elems(hold)) /\ Silent(Elems(hold))
        /\ current # NoChunk => Stored(Elems(current.frames))
        /\ current = NoChunk => Silent(Elems(preroll))
    BY <1>1 DEF LogInv, AllStored, BuffersSilent
  <1>6. fed.open = (chunker.open \/ speech) /\ (current = NoChunk => ~chunker.open)
    BY <1>1 DEF Fed, FitInv, OpenOK, Closed
  <1>7. /\ PrerollNow \in Seq(Nat)
        /\ Elems(PrerollNow) \subseteq Elems(preroll) \cup Elems(batch)
    BY <1>2, KeepLastType, KeepLastElems DEF PrerollNow
  <1>8. \A d \in DirNames : FramesOf(d)' = FramesOf(d)
    BY <1>1 DEF FramesOf
  <1>9. LogKept' = LogKept /\ LogDropped' = LogDropped
    BY <1>1, <1>8 DEF LogKept, LogDropped, SpokenOf
  <1>10. \A s : s \subseteq Elems(preroll) \cup Elems(hold) \cup Elems(batch) => Stored(s)'
    BY <1>3, <1>4, <1>5 DEF Stored
  <1>11. \A s : Stored(s) => Stored(s)'
    BY <1>3 DEF Stored
  <1>12. BatchIsNext' /\ NextIsEmpty'
    BY <1>1, <1>3 DEF BatchIsNext, NextIsEmpty
  <1>13. Elems(hold') \subseteq Elems(hold) \cup Elems(batch)
    <2>1. Elems(<<>>) = {}
      BY DEF Elems
    <2>2. Elems(KeepLast(hold, batch, TailCap)) \subseteq Elems(hold) \cup Elems(batch)
      BY <1>2, KeepLastElems
    <2> QED BY <2>1, <2>2 DEF Feed
  <1>14. /\ Stored(Elems(preroll))' /\ Stored(Elems(hold))' /\ Stored(runts)'
         /\ \A d \in DirNames : Stored(FramesOf(d))'
    <2>1. Elems(preroll)' \subseteq Elems(preroll) \cup Elems(hold) \cup Elems(batch)
      BY <1>1, <1>7 DEF Elems
    <2>2. Elems(hold)' \subseteq Elems(preroll) \cup Elems(hold) \cup Elems(batch)
      BY <1>13 DEF Elems
    <2>3. Stored(runts)' /\ \A d \in DirNames : Stored(FramesOf(d))'
      BY <1>1, <1>3, <1>8 DEF LogInv, AllStored, Stored
    <2> QED BY <1>3, <1>4, <1>5, <2>1, <2>2, <2>3 DEF Stored
  <1>15. CASE ~speech
    <2>1. current' = current
      <3>1. CASE current = NoChunk
        <4>1. oc = NoChunk
          BY <1>6, <1>15, <3>1 DEF OpenChunk
        <4> QED BY <3>1, <4>1 DEF Feed
      <3>2. CASE current # NoChunk
        <4>1. oc = current
          BY <3>2 DEF OpenChunk
        <4> QED BY <1>15, <3>2, <4>1 DEF Feed, Written
      <3> QED BY <3>1, <3>2
    <2>2. LogPending' = LogPending
      BY <1>1, <2>1 DEF LogPending, SpokenOf
    <2>3. AllStored'
      BY <1>3, <1>5, <1>14, <2>1 DEF AllStored, Stored
    <2>4. BuffersSilent'
      <3>1. Silent(Elems(batch))
        BY <1>4, <1>15 DEF Silent
      <3>2. Silent(Elems(hold))'
        BY <1>1, <1>5, <1>13, <3>1 DEF Silent, Elems
      <3>3. current = NoChunk => Silent(Elems(preroll))'
        BY <1>1, <1>5, <1>7, <3>1 DEF Silent, Elems
      <3> QED BY <2>1, <3>2, <3>3 DEF BuffersSilent
    <2> QED BY <1>1, <1>9, <1>12, <1>15, <2>2, <2>3, <2>4 DEF LogInv, Log!vars
  <1>16. CASE speech
    <2>1. /\ oc \in Chunk /\ oc # NoChunk
          /\ Elems(oc.frames) \subseteq 1..Len(heard)
          /\ SpokenOf(Elems(oc.frames)) \subseteq LogPending \cup Elems(batch)
          /\ LogPending \subseteq SpokenOf(Elems(oc.frames))
      <3>1. CASE current = NoChunk
        <4>1. oc = [index |-> nextIndex, offset |-> sessionFrames, frames |-> PrerollNow]
          BY <1>6, <1>16, <3>1 DEF OpenChunk
        <4>2. oc \in Chunk /\ oc.frames = PrerollNow
          BY <1>2, <1>7, <4>1 DEF Chunk
        <4>3. LogPending = {}
          BY <3>1 DEF LogPending
        <4>4. SpokenOf(Elems(PrerollNow)) \subseteq Elems(batch)
          BY <1>5, <1>7, <3>1 DEF SpokenOf, Silent
        <4>5. Elems(PrerollNow) \subseteq 1..Len(heard)
          BY <1>3, <1>4, <1>5, <1>7 DEF Stored
        <4> QED BY <4>2, <4>3, <4>4, <4>5
      <3>2. CASE current # NoChunk
        <4>1. oc = current /\ current \in Chunk
          BY <1>2, <3>2 DEF OpenChunk
        <4>2. LogPending = SpokenOf(Elems(oc.frames))
          BY <3>2, <4>1 DEF LogPending
        <4>3. Elems(oc.frames) \subseteq 1..Len(heard)
          BY <1>3, <1>5, <3>2, <4>1 DEF Stored
        <4> QED BY <3>2, <4>1, <4>2, <4>3
      <3> QED BY <3>1, <3>2
    <2>2. current' = Written(oc) /\ hold' = <<>>
      BY <1>16, <2>1 DEF Feed
    <2>3. /\ current' # NoChunk
          /\ Elems(current'.frames) = Elems(oc.frames) \cup (Elems(hold) \cup Elems(batch))
      <3> HIDE DEF oc
      <3>1. /\ Written(oc) \in Chunk
            /\ Elems(Written(oc).frames) = Elems(oc.frames) \cup (Elems(hold) \cup Elems(batch))
        BY <1>16, <2>1, WrittenElems
      <3> QED BY <2>2, <3>1
    <2>4. LogPending' = LogPending \cup Elems(batch)
      <3> HIDE DEF oc
      <3>1. LogPending' = SpokenOf(Elems(current'.frames))
        BY <1>1, <2>3 DEF LogPending, SpokenOf, Elems
      <3>2. SpokenOf(Elems(batch)) = Elems(batch) /\ SpokenOf(Elems(hold)) = {}
        BY <1>4, <1>5, <1>16 DEF SpokenOf, Silent
      <3>3. LogPending' = SpokenOf(Elems(oc.frames)) \cup Elems(batch)
        <4>1. SpokenOf(Elems(oc.frames) \cup (Elems(hold) \cup Elems(batch)))
                = SpokenOf(Elems(oc.frames)) \cup (SpokenOf(Elems(hold)) \cup SpokenOf(Elems(batch)))
          BY DEF SpokenOf
        <4>2. LogPending' = SpokenOf(Elems(oc.frames)) \cup ({} \cup Elems(batch))
          BY <2>3, <3>1, <3>2, <4>1, Zenon
        <4>3. {} \cup Elems(batch) = Elems(batch)
          OBVIOUS
        <4> QED BY <4>2, <4>3, Zenon
      <3>4. \A s, t, b : t \subseteq s /\ s \subseteq t \cup b => s \cup b = t \cup b
        OBVIOUS
      <3>5. SpokenOf(Elems(oc.frames)) \cup Elems(batch) = LogPending \cup Elems(batch)
        BY <2>1, <3>4
      <3> QED BY <3>3, <3>5
    <2>5. AllStored'
      <3> HIDE DEF oc
      <3>1. Elems(current'.frames) \subseteq 1..Len(heard)
        BY <1>3, <1>4, <1>5, <2>1, <2>3 DEF Stored
      <3>2. Stored(Elems(current.frames))'
        BY <1>1, <1>3, <3>1 DEF Stored, Elems
      <3> QED BY <1>14, <3>2 DEF AllStored
    <2>6. BuffersSilent'
      <3>1. Elems(<<>>) = {}
        BY DEF Elems
      <3> QED BY <2>2, <2>3, <3>1 DEF BuffersSilent, Silent
    <2>7. Log!Speak
      <3>1. LogPending \subseteq 1..Past /\ LogDropped \subseteq 1..Past
        BY DEF LogInv, AllStored, Stored, LogPending, LogDropped, SpokenOf
      <3>2. Log!Logged \subseteq 1..Past
        <4>1. \A d \in DirNames : LogKept[d] \subseteq 1..Past
          BY DEF LogInv, AllStored, Stored, LogKept, SpokenOf
        <4> QED BY <4>1 DEF Log!Logged
      <3>3. LogPending' \subseteq Nat
        <4>1. 1..Past \subseteq Nat /\ 1..Len(heard) \subseteq Nat
          BY <1>3
        <4>2. Elems(batch) \subseteq Nat /\ LogPending \subseteq Nat
          BY <1>4, <3>1, <4>1
        <4> QED BY <2>4, <4>2
      <3>4. \A i \in LogPending' \ LogPending,
              j \in LogPending \cup LogDropped \cup Log!Logged : j < i
        BY <1>3, <1>4, <2>4, <3>1, <3>2
      <3> QED BY <1>1, <1>9, <2>4, <3>3, <3>4 DEF Log!Speak
    <2> QED BY <1>9, <1>12, <1>16, <2>4, <2>5, <2>6, <2>7 DEF LogInv, Log!Next
  <1> QED BY <1>2, <1>15, <1>16

(* Every step of the writer and of the UI is a step of the log, or none.      *)
LEMMA LogStep ==
  ASSUME TypeOK, FitInv, SessionInv, LogInv, [Next]_vars
  PROVE  LogInv' /\ [Log!Next]_(Log!vars)
  <1>1. CASE Read
    BY <1>1, ReadLog DEF Read
  <1>2. CASE BeginNext
    BY <1>2, BeginNextLog
  <1>3. CASE RetireChunk \/ CloseLast \/ CutChunk
    BY <1>3, CloseLog DEF Log!Next
  <1>4. CASE RetireSession
    BY <1>4, RetireSessionLog
  <1>5. CASE Feed
    BY <1>5, FeedLog
  <1>6. CASE StayInSession \/ GoIdle \/ RolloverFails
    <2>1. /\ UNCHANGED <<heard, batch, speech, current, preroll, hold, runts, meta, dir>>
          /\ pc = "rollover" /\ pc' = "feed"
      BY <1>6 DEF StayInSession, GoIdle, RolloverFails, inputVars, audioVars, sessionVars,
                  storeVars
    <2> QED BY <2>1, QuietStep
  <1>7. CASE NoCut \/ LeaveLoop \/ EndSession \/ WriterFails
    <2>1. /\ UNCHANGED <<heard, batch, speech, current, preroll, hold, runts, meta, dir>>
          /\ \/ pc \in {"read", "cut"} /\ pc' \in {"read", "ending"}
             \/ pc = "ending" /\ pc' = "done"
             \/ pc' = "failed"
      BY <1>7 DEF NoCut, LeaveLoop, EndSession, WriterFails, inputVars, audioVars,
                  sessionVars, storeVars
    <2> QED BY <2>1, QuietStep DEF InHand
  <1>8. CASE StopRecording \/ Terminated \/ UNCHANGED vars
    <2>1. /\ UNCHANGED <<heard, batch, speech, current, preroll, hold, runts, meta, dir>>
          /\ pc' = pc /\ now' = now
      BY <1>8 DEF StopRecording, Terminated, vars, inputVars, audioVars, sessionVars,
                  storeVars
    <2> QED BY <2>1, QuietStep
  <1> QED BY <1>1, <1>2, <1>3, <1>4, <1>5, <1>6, <1>7, <1>8 DEF Next, Writer

(* The writer keeps the promise of SessionLog: whatever fails, speech is filed*)
(* once, whole stretches at a time and in order, under the session it was     *)
(* spoken in.                                                                 *)
THEOREM WriterLogsSpeech == Spec => LogsSpeech
  BY InitType, TypeStep, InitFits, FitStep, InitSession, SessionStep, InitLog, LogStep,
     PTL DEF Spec, LogsSpeech, Log!Spec

-----------------------------------------------------------------------------
(* What the promise of SessionLog amounts to: nothing is kept twice.          *)

(* KeptOnce is inductive together with where the session under way stands: no *)
(* later one has a log yet, and what is pending is later than every earlier   *)
(* log.                                                                       *)
LogTypes ==
    /\ dir \in DirNames /\ LogKept \in [DirNames -> SUBSET Nat]
    /\ LogPending \subseteq Nat /\ LogDropped \subseteq Nat

LaterAreEmpty == \A d \in DirNames : d > dir => LogKept[d] = {}

PendingIsLater ==
    \A d \in DirNames : d < dir => \A i \in LogKept[d], j \in LogPending : i < j

KeptInv == LogTypes /\ LaterAreEmpty /\ PendingIsLater /\ Log!KeptOnce

(* A log is part of what is logged.                                           *)
LEMMA LoggedParts ==
  ASSUME LogTypes
  PROVE  Log!Logged \subseteq Nat /\ \A d \in DirNames : LogKept[d] \subseteq Log!Logged
  BY DEF LogTypes, Log!Logged

(* Nothing has been said.                                                     *)
LEMMA InitKept == Log!Init => KeptInv
  BY DEF DirNames, Log!Init, KeptInv, LogTypes, LaterAreEmpty, PendingIsLater, Log!KeptOnce,
         Log!Logged

(* What is heard next is later than all there is.                             *)
LEMMA SpeakKept ==
  ASSUME KeptInv, Log!Speak
  PROVE  KeptInv'
  <1>1. /\ LogPending \subseteq LogPending' /\ LogPending' \subseteq Nat
        /\ \A i \in LogPending' \ LogPending,
              j \in LogPending \cup LogDropped \cup Log!Logged : j < i
        /\ dir' = dir /\ LogKept' = LogKept /\ LogDropped' = LogDropped
    BY DEF Log!Speak
  <1>2. /\ Log!Logged' = Log!Logged /\ Log!Logged \subseteq Nat
        /\ \A d \in DirNames : LogKept[d] \subseteq Log!Logged
    BY <1>1, LoggedParts DEF Log!Logged, KeptInv
  <1>3. LogTypes' /\ LaterAreEmpty'
    BY <1>1 DEF KeptInv, LogTypes, LaterAreEmpty
  <1>4. PendingIsLater'
    BY <1>1, <1>2 DEF KeptInv, PendingIsLater
  <1>5. LogPending' \cap (LogDropped \cup Log!Logged) = {}
    <2> SUFFICES ASSUME NEW i \in LogPending', i \in LogDropped \cup Log!Logged PROVE FALSE
      OBVIOUS
    <2>1. i \notin LogPending
      BY DEF KeptInv, Log!KeptOnce
    <2>2. i < i /\ i \in Nat
      BY <1>1, <2>1
    <2> QED BY <2>2
  <1>6. Log!KeptOnce'
    BY <1>1, <1>2, <1>5 DEF KeptInv, Log!KeptOnce
  <1> QED BY <1>3, <1>4, <1>6 DEF KeptInv

(* Filing moves what is pending to the log of the session under way.          *)
LEMMA FileKept ==
  ASSUME KeptInv, Log!File
  PROVE  KeptInv'
  <1>1. /\ LogKept' = [LogKept EXCEPT ![dir] = LogKept[dir] \cup LogPending]
        /\ LogPending' = {} /\ dir' = dir /\ LogDropped' = LogDropped
    BY DEF Log!File
  <1>2. /\ dir \in DirNames /\ LogKept \in [DirNames -> SUBSET Nat]
        /\ LogPending \subseteq Nat /\ LogDropped \subseteq Nat
    BY DEF KeptInv, LogTypes
  <1>3. /\ LogKept'[dir] = LogKept[dir] \cup LogPending
        /\ \A d \in DirNames \ {dir} : LogKept'[d] = LogKept[d]
    BY <1>1, <1>2
  <1>4. LogTypes'
    BY <1>1, <1>2 DEF LogTypes
  <1>5. LaterAreEmpty' /\ PendingIsLater'
    BY <1>1, <1>2, <1>3 DEF KeptInv, LaterAreEmpty, PendingIsLater, DirNames
  <1>6. Log!Logged' \subseteq Log!Logged \cup LogPending
    BY <1>2, <1>3 DEF Log!Logged
  <1>7. \A d, e \in DirNames : d < e => \A i \in LogKept'[d], j \in LogKept'[e] : i < j
    <2> SUFFICES ASSUME NEW d \in DirNames, NEW e \in DirNames, d < e,
                        NEW i \in LogKept'[d], NEW j \in LogKept'[e]
                 PROVE  i < j
      OBVIOUS
    <2>1. CASE d = dir
      <3>1. LogKept'[e] = {}
        BY <1>2, <1>3, <2>1 DEF KeptInv, LaterAreEmpty, DirNames
      <3> QED BY <3>1
    <2>2. CASE d # dir /\ e = dir
      <3>1. i \in LogKept[d] /\ j \in LogKept[e] \cup LogPending
        BY <1>3, <2>2
      <3> QED BY <2>2, <3>1 DEF KeptInv, PendingIsLater, Log!KeptOnce
    <2>3. CASE d # dir /\ e # dir
      BY <1>3, <2>3 DEF KeptInv, Log!KeptOnce
    <2> QED BY <2>1, <2>2, <2>3
  <1>8. Log!KeptOnce'
    BY <1>1, <1>6, <1>7 DEF KeptInv, Log!KeptOnce
  <1> QED BY <1>4, <1>5, <1>8 DEF KeptInv

(* Dropping moves it out of the way.                                          *)
LEMMA DropKept ==
  ASSUME KeptInv, Log!Drop
  PROVE  KeptInv'
  <1>1. Log!Logged' = Log!Logged
    BY DEF Log!Drop, Log!Logged
  <1> QED BY <1>1 DEF Log!Drop, KeptInv, LogTypes, LaterAreEmpty, PendingIsLater, Log!KeptOnce

(* The next session starts later, with nothing pending and an empty log.      *)
LEMMA BeginKept ==
  ASSUME KeptInv, NEW d \in DirNames, Log!Begin(d)
  PROVE  KeptInv'
  <1>1. /\ d > dir /\ LogKept[d] = {} /\ LogPending = {} /\ dir' = d
        /\ LogKept' = LogKept /\ LogPending' = LogPending /\ LogDropped' = LogDropped
    BY DEF Log!Begin
  <1>2. Log!Logged' = Log!Logged
    BY <1>1 DEF Log!Logged
  <1>3. \A e \in DirNames : e > d => e > dir
    BY <1>1 DEF KeptInv, LogTypes, DirNames
  <1> QED BY <1>1, <1>2, <1>3 DEF KeptInv, LogTypes, LaterAreEmpty, PendingIsLater, Log!KeptOnce

(* Nothing that was said is kept twice, or both kept and dropped, and what an *)
(* earlier session keeps was said before anything a later one keeps.          *)
THEOREM SaidOnce == Spec => []Log!KeptOnce
  <1>1. KeptInv /\ [Log!Next]_(Log!vars) => KeptInv'
    <2> SUFFICES ASSUME KeptInv, [Log!Next]_(Log!vars) PROVE KeptInv'
      OBVIOUS
    <2>1. CASE UNCHANGED Log!vars
      <3>1. Log!Logged' = Log!Logged
        BY <2>1 DEF Log!vars, Log!Logged
      <3> QED BY <2>1, <3>1 DEF Log!vars, KeptInv, LogTypes, LaterAreEmpty, PendingIsLater,
                                Log!KeptOnce
    <2> QED BY <2>1, SpeakKept, FileKept, DropKept, BeginKept DEF Log!Next
  <1>2. KeptInv => Log!KeptOnce
    BY DEF KeptInv
  <1>3. Spec => Log!Spec
    BY WriterLogsSpeech DEF LogsSpeech
  <1> QED BY <1>1, <1>2, <1>3, InitKept, PTL DEF Log!Spec

-----------------------------------------------------------------------------
(* Where each frame is, and in which order.                                   *)

HeldNow == IF current = NoChunk THEN {} ELSE Elems(current.frames)
Loose == HeldNow \cup Elems(hold) \cup Elems(preroll)

(* What the writer still holds follows everything it has listed, except after *)
(* the last chunk of a session, when only silence it will drop is left.       *)
OrderInv ==
    /\ pc \in {"read", "rollover", "feed", "cut"} \/ current # NoChunk =>
           \A d \in DirNames : \A i \in FramesOf(d), j \in Loose : i < j
    /\ ChunksInOrder

(* What feeding a batch adds to the open chunk and to the buffers.            *)
LEMMA FeedHolds ==
  ASSUME TypeOK, FitInv, LogInv, Feed
  PROVE  /\ HeldNow \subseteq HeldNow'
         /\ Loose' \subseteq Loose \cup Elems(batch)
         /\ speech => current' # NoChunk /\ Elems(batch) \subseteq HeldNow'
  <1>1. PICK oc : oc = OpenChunk(Fed(chunker, speech, Len(batch)))
    OBVIOUS
  <1>2. /\ batch \in Seq(Nat) /\ hold \in Seq(Nat) /\ preroll \in Seq(Nat)
        /\ speech \in BOOLEAN /\ current \in Chunk \cup {NoChunk}
        /\ nextIndex \in Nat /\ sessionFrames \in Nat
    BY DEF TypeOK
  <1>3. /\ pc = "feed" /\ preroll' = PrerollNow
        /\ \/ oc = NoChunk /\ UNCHANGED <<current, hold>>
           \/ /\ oc # NoChunk /\ current' = Written(oc)
              /\ hold' = IF speech THEN <<>> ELSE KeepLast(hold, batch, TailCap)
    BY <1>1 DEF Feed
  <1>4. /\ PrerollNow \in Seq(Nat)
        /\ Elems(PrerollNow) \subseteq Elems(preroll) \cup Elems(batch)
    BY <1>2, KeepLastType, KeepLastElems DEF PrerollNow
  <1>5. Elems(hold') \subseteq Elems(hold) \cup Elems(batch)
    <2>1. Elems(<<>>) = {}
      BY DEF Elems
    <2>2. Elems(KeepLast(hold, batch, TailCap)) \subseteq Elems(hold) \cup Elems(batch)
      BY <1>2, KeepLastElems
    <2> QED BY <1>3, <2>1, <2>2
  <1>6. /\ oc # NoChunk => /\ oc \in Chunk /\ HeldNow \subseteq Elems(oc.frames)
                           /\ Elems(oc.frames) \subseteq HeldNow \cup Elems(preroll) \cup Elems(batch)
        /\ oc = NoChunk => current = NoChunk
    <2>1. CASE oc = current
      BY <1>2, <2>1 DEF HeldNow
    <2>2. CASE oc # current
      <3>1. current = NoChunk
            /\ oc = [index |-> nextIndex, offset |-> sessionFrames, frames |-> PrerollNow]
        BY <1>1, <2>2 DEF OpenChunk
      <3>2. oc \in Chunk /\ oc.frames = PrerollNow
        BY <1>2, <1>4, <3>1 DEF Chunk
      <3>3. oc # NoChunk
        BY <3>2, RecorderAssumption
      <3> QED BY <1>4, <3>1, <3>2, <3>3 DEF HeldNow
    <2> QED BY <2>1, <2>2
  <1>7. speech => oc # NoChunk
    <2>1. Fed(chunker, speech, Len(batch)).open = (chunker.open \/ speech)
      BY DEF Fed
    <2> SUFFICES ASSUME speech, oc = NoChunk PROVE FALSE
      OBVIOUS
    <2>2. current = NoChunk
      BY <1>6
    <2>3. oc = [index |-> nextIndex, offset |-> sessionFrames, frames |-> PrerollNow]
      BY <1>1, <2>1, <2>2 DEF OpenChunk
    <2>4. oc \in Chunk
      BY <1>2, <1>4, <2>3 DEF Chunk
    <2> QED BY <2>4, RecorderAssumption
  <1>8. CASE oc = NoChunk
    <2>1. HeldNow' = HeldNow
      BY <1>3, <1>8 DEF HeldNow, Elems
    <2>2. Elems(preroll') \subseteq Elems(preroll) \cup Elems(batch)
      BY <1>3, <1>4
    <2>3. Elems(hold') = Elems(hold)'  /\ Elems(preroll') = Elems(preroll)'
      BY DEF Elems
    <2> QED BY <1>5, <1>7, <1>8, <2>1, <2>2, <2>3 DEF Loose
  <1>9. CASE oc # NoChunk
    <2>1. /\ Written(oc) \in Chunk
          /\ Elems(Written(oc).frames) =
                 IF speech THEN Elems(oc.frames) \cup (Elems(hold) \cup Elems(batch))
                           ELSE Elems(oc.frames)
      BY <1>6, <1>9, WrittenElems
    <2>2. current' = Written(oc) /\ current' # NoChunk
      BY <1>3, <1>9, <2>1, RecorderAssumption
    <2>3. HeldNow' = Elems(Written(oc).frames)
      BY <2>2 DEF HeldNow, Elems
    <2>4. Elems(preroll') \subseteq Elems(preroll) \cup Elems(batch)
      BY <1>3, <1>4
    <2>5. Elems(hold') = Elems(hold)'  /\ Elems(preroll') = Elems(preroll)'
      BY DEF Elems
    <2> QED BY <1>5, <1>6, <1>9, <2>1, <2>2, <2>3, <2>4, <2>5 DEF Loose
  <1> QED BY <1>8, <1>9

(* No session that lists anything is newer than the one being written.        *)
LEMMA NoneLater ==
  ASSUME TypeOK, SummaryInv
  PROVE  \A d \in DirNames : meta[d] # <<>> => d <= dir
  <1> SUFFICES ASSUME NEW d \in DirNames, meta[d] # <<>> PROVE d <= dir
    OBVIOUS
  <1>1. PICK k \in 1..Len(sessions) : sessions[k] = d
    BY DEF SummaryInv, Elems
  <1>2. Len(sessions) \in Nat /\ Len(sessions) > 0 /\ sessions[Len(sessions)] = dir
    BY DEF TypeOK
  <1>3. k < Len(sessions) => d < dir
    BY <1>1, <1>2 DEF SummaryInv
  <1>4. d \in Nat /\ dir \in Nat
    BY Times DEF DirNames
  <1> QED BY <1>1, <1>2, <1>3, <1>4

(* The order is one of the files alone.                                       *)
LEMMA SameOrder ==
  ASSUME ChunksInOrder, meta' = meta
  PROVE  ChunksInOrder'
  <1> SUFFICES ASSUME NEW d \in DirNames, NEW e \in DirNames, NEW k \in 1..Len(meta'[d]),
                      NEW m \in 1..Len(meta'[e]), d < e \/ (d = e /\ k < m),
                      NEW i \in Elems(meta'[d][k].frames), NEW j \in Elems(meta'[e][m].frames)
               PROVE  i < j
    BY DEF ChunksInOrder, Elems
  <1>1. /\ k \in 1..Len(meta[d]) /\ m \in 1..Len(meta[e])
        /\ i \in Elems(meta[d][k].frames) /\ j \in Elems(meta[e][m].frames)
    OBVIOUS
  <1> QED BY <1>1 DEF ChunksInOrder

(* A step that leaves the files and what the writer holds alone.              *)
LEMMA OrderFrame ==
  ASSUME OrderInv, meta' = meta, Loose' \subseteq Loose,
         pc' \in {"read", "rollover", "feed", "cut"} \/ current' # NoChunk =>
             \/ Loose' = {}
             \/ pc \in {"read", "rollover", "feed", "cut"} \/ current # NoChunk
  PROVE  OrderInv'
  <1>1. \A d \in DirNames : FramesOf(d)' = FramesOf(d)
    BY DEF FramesOf, Elems
  <1>2. ChunksInOrder'
    BY SameOrder DEF OrderInv
  <1> QED BY <1>1, <1>2 DEF OrderInv

(* The empty sequence has no elements.                                       *)
LEMMA ElemsNone == Elems(<<>>) = {}
  BY DEF Elems

(* A closed chunk follows all listed ones, and nothing is left of it.         *)
LEMMA OrderClose ==
  ASSUME TypeOK, SummaryInv, OrderInv, RetireChunk \/ CloseLast \/ CutChunk
  PROVE  OrderInv'
  <1>1. /\ current # NoChunk /\ current' = NoChunk /\ dir' = dir
        /\ \/ pc' \in {"retire", "ending"}
           \/ hold' = <<>> /\ preroll' = <<>>
    BY DEF RetireChunk, CloseLast, CutChunk, ClearBuffers
  <1>2. PICK c \in {current, WithHold(current)} : FinishChunk(c)
    BY DEF RetireChunk, CloseLast, CutChunk, Closing
  <1>3. /\ current \in Chunk /\ hold \in Seq(Nat) /\ meta \in [DirNames -> Seq(Chunk)]
        /\ dir \in DirNames
    BY <1>1 DEF TypeOK
  <1>4. c \in Chunk /\ Elems(c.frames) \subseteq Loose
    <2>1. WithHold(current) \in Chunk
          /\ Elems(WithHold(current).frames) = Elems(current.frames) \cup Elems(hold)
      BY <1>3, ExtendType, ExtendElems DEF WithHold
    <2> QED BY <1>1, <1>3, <2>1 DEF Loose, HeldNow
  <1>5. pc' \in {"read", "rollover", "feed", "cut"} \/ current' # NoChunk => Loose' = {}
    <2>1. HeldNow' = {}
      BY <1>1 DEF HeldNow
    <2>2. hold' = <<>> /\ preroll' = <<>> => Elems(hold)' = {} /\ Elems(preroll)' = {}
      BY ElemsNone DEF Elems
    <2> QED BY <1>1, <2>1, <2>2 DEF Loose
  <1>6. CASE meta' = meta
    BY <1>5, <1>6, SameOrder DEF OrderInv
  <1>7. CASE meta' = [meta EXCEPT ![dir] = Append(@, c)]
    <2>1. meta'[dir] = Append(meta[dir], c) /\ \A d \in DirNames : d # dir => meta'[d] = meta[d]
      BY <1>3, <1>7
    <2>2. /\ Len(meta'[dir]) = Len(meta[dir]) + 1 /\ Len(meta[dir]) \in Nat
          /\ \A k \in 1..Len(meta[dir]) : meta'[dir][k] = meta[dir][k]
          /\ meta'[dir][Len(meta[dir]) + 1] = c
      BY <1>3, <1>4, <2>1
    <2>3. ASSUME NEW d \in DirNames, NEW k \in 1..Len(meta[d]), NEW i \in Elems(meta[d][k].frames),
                 NEW j \in Elems(c.frames)
          PROVE  i < j
      <3>1. i \in FramesOf(d)
        BY DEF FramesOf
      <3> QED BY <1>1, <1>4, <3>1 DEF OrderInv
    <2>4. ASSUME NEW d \in DirNames, NEW k \in 1..Len(meta'[d])
          PROVE  \/ k \in 1..Len(meta[d]) /\ meta'[d][k] = meta[d][k]
                 \/ d = dir /\ k = Len(meta[dir]) + 1 /\ meta'[d][k] = c
      <3>1. CASE d = dir
        BY <2>2, <3>1
      <3>2. CASE d # dir
        BY <2>1, <3>2
      <3> QED BY <3>1, <3>2
    <2>5. ASSUME NEW d \in DirNames, NEW e \in DirNames, NEW k \in 1..Len(meta'[d]),
                 NEW m \in 1..Len(meta'[e]), d < e \/ (d = e /\ k < m),
                 NEW i \in Elems(meta'[d][k].frames), NEW j \in Elems(meta'[e][m].frames)
          PROVE  i < j
      <3>1. CASE k \in 1..Len(meta[d]) /\ meta'[d][k] = meta[d][k]
        <4>1. CASE m \in 1..Len(meta[e]) /\ meta'[e][m] = meta[e][m]
          BY <2>5, <3>1, <4>1 DEF OrderInv, ChunksInOrder
        <4>2. CASE meta'[e][m] = c
          BY <2>3, <2>5, <3>1, <4>2
        <4> QED BY <2>4, <4>1, <4>2
      <3>2. CASE d = dir /\ k = Len(meta[dir]) + 1
        <4>1. CASE d = e
          <5>1. Len(meta'[e]) = Len(meta[dir]) + 1
            BY <2>2, <3>2, <4>1
          <5>2. m <= Len(meta[dir]) + 1 /\ m \in Nat
            BY <2>2, <5>1
          <5>3. k < m \/ d < d
            BY <2>5, <4>1
          <5>4. d \in Nat
            BY DEF DirNames
          <5> QED BY <2>2, <3>2, <5>2, <5>3, <5>4
        <4>2. CASE d < e
          <5>1. e # dir /\ d \in Nat /\ e \in Nat
            BY <3>2, <4>2, Times DEF DirNames
          <5>2. meta'[e] = meta[e] /\ meta[e] \in Seq(Chunk)
            BY <1>3, <2>1, <5>1
          <5>3. meta[e] # <<>>
            BY <5>2
          <5>4. e <= dir
            BY <5>3, NoneLater
          <5> QED BY <3>2, <4>2, <5>1, <5>4
        <4> QED BY <2>5, <4>1, <4>2
      <3> QED BY <2>4, <3>1, <3>2
    <2>6. ChunksInOrder'
      BY <2>5 DEF ChunksInOrder, Elems
    <2> QED BY <1>5, <2>6 DEF OrderInv
  <1> QED BY <1>2, <1>6, <1>7, FinishChunkMeta

(* What is fed is newer than anything listed.                                 *)
LEMMA OrderFeed ==
  ASSUME TypeOK, FitInv, LogInv, OrderInv, Feed
  PROVE  OrderInv'
  <1>1. pc = "feed" /\ meta' = meta
    BY DEF Feed, storeVars
  <1>2. Loose' \subseteq Loose \cup Elems(batch)
    BY FeedHolds
  <1>3. \A d \in DirNames : \A i \in FramesOf(d), j \in Elems(batch) : i < j
    <2>1. Past \in Nat
      BY PastNat
    <2>2. \A d \in DirNames : FramesOf(d) \subseteq 1..Past
      BY DEF LogInv, AllStored, Stored
    <2>3. \A j \in Elems(batch) : j > Past /\ j \in Nat
      <3>1. Elems(batch) \subseteq Nat
        BY DEF TypeOK, Elems
      <3> QED BY <1>1, <3>1 DEF LogInv, BatchIsNext, InHand
    <2> QED BY <2>1, <2>2, <2>3
  <1>4. \A d \in DirNames : FramesOf(d)' = FramesOf(d)
    BY <1>1 DEF FramesOf, Elems
  <1>5. ChunksInOrder'
    BY <1>1, SameOrder DEF OrderInv
  <1> QED BY <1>1, <1>2, <1>3, <1>4, <1>5 DEF OrderInv

(* Every step keeps the order.                                                *)
LEMMA OrderStep ==
  ASSUME TypeOK, FitInv, SessionInv, SummaryInv, LogInv, OrderInv, [Next]_vars
  PROVE  OrderInv'
  <1>1. CASE RetireChunk \/ CloseLast \/ CutChunk
    BY <1>1, OrderClose
  <1>2. CASE Feed
    BY <1>2, OrderFeed
  <1>3. CASE RetireSession
    <2>1. /\ current = NoChunk /\ current' = NoChunk /\ hold' = <<>> /\ preroll' = <<>>
          /\ meta' = meta
      BY <1>3 DEF RetireSession, ClearBuffers
    <2>2. Loose' = {}
      BY <2>1, ElemsNone DEF Loose, HeldNow, Elems
    <2> QED BY <2>1, <2>2, OrderFrame
  <1>4. CASE BeginNext
    <2>1. meta' = meta /\ pc = "rollover" /\ UNCHANGED <<current, hold, preroll>>
      BY <1>4, BeginsEmpty DEF BeginNext, audioVars
    <2>2. Loose' = Loose
      BY <2>1 DEF Loose, HeldNow, Elems
    <2> QED BY <2>1, <2>2, OrderFrame
  <1>5. CASE Read \/ StayInSession \/ GoIdle \/ RolloverFails \/ NoCut \/ LeaveLoop
             \/ EndSession \/ WriterFails \/ StopRecording \/ Terminated \/ UNCHANGED vars
    <2>1. /\ UNCHANGED <<meta, current, hold, preroll>>
          /\ pc' \in {"read", "rollover", "feed", "cut"} =>
                 pc \in {"read", "rollover", "feed", "cut"}
      BY <1>5 DEF Read, ReadBatch, StayInSession, GoIdle, RolloverFails, NoCut, LeaveLoop,
                  EndSession, WriterFails, StopRecording, Terminated, audioVars, storeVars, vars
    <2>2. Loose' = Loose
      BY <2>1 DEF Loose, HeldNow, Elems
    <2> QED BY <2>1, <2>2, OrderFrame
  <1> QED BY <1>1, <1>2, <1>3, <1>4, <1>5 DEF Next, Writer

(* A frame is in one kept chunk at most, and chunks follow each other in the  *)
(* order they were spoken: the buffers carried over a cut or a rollover never *)
(* leak audio from one chunk, or one session, to the next (record).           *)
THEOREM ChunksStayInOrder == Spec => []ChunksInOrder
  <1>1. OrderInv => ChunksInOrder
    BY DEF OrderInv
  <1>2. Init => OrderInv
    <2> SUFFICES ASSUME Init PROVE OrderInv
      OBVIOUS
    <2>1. /\ current = NoChunk /\ hold = <<>> /\ preroll = <<>>
          /\ \A d \in DirNames : meta[d] = <<>>
      BY DEF Init
    <2>2. Loose = {}
      BY <2>1, ElemsNone DEF Loose, HeldNow
    <2> QED BY <2>1, <2>2 DEF OrderInv, ChunksInOrder
  <1>3. Init => FileInv /\ SummaryInv /\ LogInv
    BY InitFile, InitLog
  <1>4. TypeOK /\ FitInv /\ SessionInv /\ LogInv /\ [Next]_vars => LogInv'
    BY LogStep
  <1> QED BY <1>1, <1>2, <1>3, <1>4, InitType, TypeStep, InitFits, FitStep, InitSession,
             SessionStep, FileStep, OrderStep, PTL DEF Spec

-----------------------------------------------------------------------------
(* No spoken frame is lost.                                                   *)

(* d is the session under way when frame i was read.                          *)
Under(i, d) ==
    d \in begun /\ d <= heard[i].at /\ \A e \in begun : e <= heard[i].at => e <= d

Filed(i) ==
    \/ i \in runts
    \/ \E d \in DirNames : Under(i, d) /\ (i \in FramesOf(d) \/ (d = dir /\ i \in HeldNow))

Said == {i \in Frames \ InFlight : heard[i].speech}

(* What is filed was said before the session it is filed in was over: before  *)
(* rolloverAt, and before now once the session is idle or being replaced.     *)
FiledInv ==
    /\ dir \in begun /\ \A e \in begun : e <= dir
    /\ \A i \in Said : Filed(i) /\ heard[i].at <= lastSpeechAt
    /\ InHand => \A i \in Elems(batch) : i \in Frames /\ heard[i].at = now
    /\ pc \notin {"retire", "failed"} =>
           \A i \in Said : heard[i].at < rolloverAt /\ (idle => heard[i].at < now)
    /\ pc = "retire" => \A i \in Said : heard[i].at < now
    /\ pc \in {"rollover", "feed"} /\ speech => lastSpeechAt = now
    /\ pc = "feed" /\ speech => now < rolloverAt /\ ~idle
    /\ dir <= now

(* Moments are whole seconds.                                                 *)
LEMMA SaidTimes ==
  ASSUME TypeOK
  PROVE  /\ Frames \subseteq Nat /\ Said \subseteq Frames
         /\ \A i \in Frames : heard[i].at \in Nat /\ heard[i].speech \in BOOLEAN
         /\ begun \subseteq Nat /\ begun \subseteq DirNames
  <1>1. heard \in Seq([at: DirNames, speech: BOOLEAN]) /\ begun \subseteq DirNames
    BY DEF TypeOK
  <1>2. DirNames \subseteq Nat
    BY DEF DirNames
  <1>3. \A i \in Frames : heard[i] \in [at: DirNames, speech: BOOLEAN]
    <2> DEFINE S == [at: DirNames, speech: BOOLEAN]
    <2>1. heard \in Seq(S)
      BY <1>1
    <2> HIDE DEF S
    <2>2. \A i \in 1..Len(heard) : heard[i] \in S
      BY <2>1
    <2> QED BY <2>2 DEF Frames, S
  <1>4. \A i \in Frames : heard[i].at \in Nat /\ heard[i].speech \in BOOLEAN
    BY <1>2, <1>3
  <1>5. Frames \subseteq Nat /\ Said \subseteq Frames
    BY DEF Frames, Said
  <1> QED BY <1>1, <1>2, <1>4, <1>5

(* There is only one such session, so it is the one SessionOf chooses.        *)
LEMMA UnderIs ==
  ASSUME TypeOK, NEW i \in Frames, NEW d, Under(i, d)
  PROVE  SessionOf(i) = d
  <1>1. \A e \in begun : Under(i, e) => e = d
    <2> SUFFICES ASSUME NEW e \in begun, Under(i, e) PROVE e = d
      OBVIOUS
    <2>1. d \in Nat /\ e \in Nat /\ d <= e /\ e <= d
      BY SaidTimes DEF Under
    <2> QED BY <2>1
  <1>2. \E e \in begun : e <= heard[i].at /\ \A f \in begun : f <= heard[i].at => f <= e
    BY DEF Under
  <1>3. /\ SessionOf(i) \in begun /\ SessionOf(i) <= heard[i].at
        /\ \A f \in begun : f <= heard[i].at => f <= SessionOf(i)
    BY <1>2, Zenon DEF SessionOf
  <1> QED BY <1>1, <1>3 DEF Under

(* A frame stays filed while sessions and files only grow, and the open chunk *)
(* goes where it belongs.                                                     *)
LEMMA FiledStays ==
  ASSUME NEW i, Filed(i), runts \subseteq runts',
         \A d \in DirNames : FramesOf(d) \subseteq FramesOf(d)',
         \A d \in DirNames : Under(i, d) => Under(i, d)',
         i \in HeldNow => /\ dir' = dir
                          /\ \/ i \in runts' \/ i \in HeldNow'
                             \/ \A d \in DirNames : d = dir => i \in FramesOf(d)'
  PROVE  Filed(i)'
  <1>1. CASE i \in runts
    BY <1>1 DEF Filed
  <1>2. ASSUME NEW d \in DirNames, Under(i, d), i \in FramesOf(d) \/ (d = dir /\ i \in HeldNow)
        PROVE  Filed(i)'
    <2>1. Under(i, d)'
      BY <1>2
    <2>2. CASE i \in FramesOf(d)
      <3>1. i \in FramesOf(d)'
        BY <2>2
      <3> QED BY <2>1, <3>1 DEF Filed
    <2>3. CASE d = dir /\ i \in HeldNow
      BY <2>1, <2>3 DEF Filed
    <2> QED BY <1>2, <2>2, <2>3
  <1> QED BY <1>1, <1>2 DEF Filed

(* The sessions and what was said are as they were.                           *)
LEMMA UnderStays ==
  ASSUME UNCHANGED <<begun, heard>>
  PROVE  \A i, d : Under(i, d) => Under(i, d)'
  BY DEF Under

(* A step that reads, files and begins nothing.                               *)
LEMMA FiledFrame ==
  ASSUME TypeOK, FiledInv, UNCHANGED <<begun, heard, runts, meta, current, dir>>,
         NEW i \in Said
  PROVE  Filed(i)'
  <1>1. Filed(i)
    BY DEF FiledInv
  <1>2. \A d \in DirNames : FramesOf(d) \subseteq FramesOf(d)'
    BY DEF FramesOf, Elems
  <1>3. HeldNow' = HeldNow
    BY DEF HeldNow, Elems
  <1> QED BY <1>1, <1>2, <1>3, UnderStays, FiledStays

(* Reading a batch: the earlier frames keep their times and their places.     *)
LEMMA FiledRead ==
  ASSUME TypeOK, SessionInv, LogInv, FiledInv, NEW n \in BatchSizes, NEW spoken \in BOOLEAN,
         NEW step \in ClockSteps, ReadBatch(n, spoken, step)
  PROVE  FiledInv'
  <1> DEFINE more == [i \in 1..n |-> [at |-> now', speech |-> spoken]]
  <1>1. /\ pc = "read" /\ pc' = "rollover" /\ batch' = NextFrames(n) /\ speech' = spoken
        /\ heard' = heard \o more /\ now' = now + step
        /\ lastSpeechAt' = IF spoken THEN now' ELSE lastSpeechAt
        /\ UNCHANGED <<current, runts, meta, dir, begun, rolloverAt, idle>>
    BY DEF ReadBatch, audioVars, storeVars
  <1>2. n \in Nat /\ Len(heard) \in Nat /\ now \in Nat /\ step \in Nat /\ now' \in DirNames
    <2>1. now + step <= MaxTime /\ now \in DirNames /\ step \in Nat /\ n \in Nat
      BY DEF ReadBatch, TypeOK
    <2> QED BY <1>1, <2>1 DEF DirNames, TypeOK
  <1>2a. heard \in Seq([at: DirNames, speech: BOOLEAN])
    BY DEF TypeOK
  <1>2b. more \in Seq([at: DirNames, speech: BOOLEAN]) /\ Len(more) = n
    BY <1>2
  <1>3. /\ Len(heard') = Len(heard) + n
        /\ \A i \in 1..Len(heard) : heard'[i] = heard[i]
        /\ \A i \in 1..n : heard'[Len(heard) + i] = more[i]
    <2> DEFINE S == [at: DirNames, speech: BOOLEAN]
    <2>0. heard \in Seq(S) /\ more \in Seq(S)
      BY <1>2a, <1>2b
    <2> HIDE DEF more, S
    <2>1. /\ Len(heard \o more) = Len(heard) + Len(more)
          /\ \A i \in 1..Len(heard) : (heard \o more)[i] = heard[i]
          /\ \A i \in 1..Len(more) : (heard \o more)[Len(heard) + i] = more[i]
      BY <2>0, ConcatAt
    <2>2. heard' = heard \o more /\ Len(more) = n
      BY <1>1, <1>2b
    <2> QED BY <2>1, <2>2, Zenon
  <1>4. Elems(batch') = {Len(heard) + k : k \in 1..n}
    <2>1. Len(batch') = n /\ \A k \in 1..n : batch'[k] = Len(heard) + k
      BY <1>1, <1>2 DEF NextFrames
    <2> QED BY <2>1 DEF Elems
  <1>5. InFlight' = Elems(batch')
    BY <1>1 DEF InFlight, Elems
  <1>6. /\ \A i \in Frames' \ InFlight' : i \in Frames /\ heard'[i] = heard[i]
        /\ \A i \in Elems(batch') : i \in Frames' /\ heard'[i].at = now'
    <2>1. \A i \in Frames' \ InFlight' : i \in 1..Len(heard)
      <3> SUFFICES ASSUME NEW i \in 1..(Len(heard) + n), ~(i <= Len(heard))
                   PROVE  i \in Elems(batch')
        BY <1>2, <1>3, <1>5 DEF Frames
      <3>1. i - Len(heard) \in 1..n /\ i = Len(heard) + (i - Len(heard))
        BY <1>2
      <3> QED BY <1>4, <3>1
    <2>2. ASSUME NEW k \in 1..n PROVE Len(heard) + k \in Frames' /\ heard'[Len(heard) + k].at = now'
      <3>1. heard'[Len(heard) + k] = more[k] /\ more[k].at = now'
        BY <1>3
      <3>2. Len(heard) + k \in 1..(Len(heard) + n)
        BY <1>2
      <3> HIDE DEF more
      <3> QED BY <1>3, <3>1, <3>2 DEF Frames
    <2>3. \A i \in Elems(batch') : i \in Frames' /\ heard'[i].at = now'
      BY <1>4, <2>2, Zenon
    <2>4. \A i \in 1..Len(heard) : i \in Frames /\ heard'[i] = heard[i]
      BY <1>3 DEF Frames
    <2> QED BY <2>1, <2>3, <2>4
  <1>7. Said' \subseteq Said /\ \A i \in Said : heard'[i] = heard[i]
    <2>1. InFlight = {}
      BY <1>1 DEF InFlight
    <2> QED BY <1>3, <1>6, <2>1 DEF Said, Frames
  <1>8. ASSUME NEW i \in Said PROVE Filed(i)'
    <2>1. \A d \in DirNames : Under(i, d) => Under(i, d)'
      BY <1>1, <1>7 DEF Under
    <2>2. \A d \in DirNames : FramesOf(d) \subseteq FramesOf(d)'
      BY <1>1 DEF FramesOf, Elems
    <2>3. HeldNow' = HeldNow
      BY <1>1 DEF HeldNow, Elems
    <2>4. Filed(i)
      BY DEF FiledInv
    <2> QED BY <1>1, <2>1, <2>2, <2>3, <2>4, FiledStays
  <1>9. lastSpeechAt <= now /\ lastSpeechAt \in Nat /\ rolloverAt \in Nat /\ dir \in Nat
    BY Times DEF SessionInv
  <1>10. \A i \in Said' : /\ Filed(i)' /\ heard'[i].at <= lastSpeechAt'
                          /\ heard'[i].at < rolloverAt /\ (idle => heard'[i].at < now')
    <2> SUFFICES ASSUME NEW i \in Said'
                 PROVE  /\ heard[i].at <= lastSpeechAt' /\ heard[i].at < rolloverAt
                        /\ (idle => heard[i].at < now')
      BY <1>7, <1>8
    <2>1. heard[i].at \in Nat /\ i \in Said
      BY <1>7, SaidTimes
    <2>2. heard[i].at <= lastSpeechAt /\ heard[i].at < rolloverAt /\ (idle => heard[i].at < now)
      BY <1>1, <2>1 DEF FiledInv
    <2> QED BY <1>1, <1>2, <1>9, <2>1, <2>2
  <1>11. /\ dir' \in begun' /\ \A e \in begun' : e <= dir'
         /\ dir' <= now'
    <2>1. dir \in begun /\ (\A e \in begun : e <= dir) /\ dir <= now
      BY DEF FiledInv
    <2>2. now' = now + step /\ dir \in Nat /\ now \in Nat /\ step \in Nat
      BY <1>1, <1>2, <1>9
    <2>3. dir <= now'
      BY <2>1, <2>2
    <2> QED BY <1>1, <2>1, <2>3
  <1> QED BY <1>1, <1>6, <1>10, <1>11 DEF FiledInv

(* The decision at a boundary files nothing, and a session is replaced only   *)
(* once everything said in it is older than this second.                      *)
LEMMA FiledRollover ==
  ASSUME TypeOK, SessionInv, FiledInv, \/ StayInSession \/ GoIdle \/ RolloverFails \/ BeginNext
  PROVE  FiledInv'
  <1>1. /\ pc = "rollover" /\ pc' \in {"feed", "retire"}
        /\ UNCHANGED <<now, heard, batch, speech, lastSpeechAt, dir, begun, runts, current>>
    BY DEF StayInSession, GoIdle, RolloverFails, BeginNext, inputVars, sessionVars, audioVars,
           storeVars
  <1>2. meta' = meta
    BY BeginsEmpty DEF StayInSession, GoIdle, RolloverFails, storeVars
  <1>3. InFlight' = InFlight /\ Frames' = Frames
    BY <1>1 DEF InFlight, Frames, Elems
  <1>4. Said' = Said
    BY <1>1, <1>3 DEF Said
  <1>5. \A i \in Said' : Filed(i)'
    BY <1>1, <1>2, <1>4, FiledFrame
  <1>6. /\ now \in Nat /\ lastSpeechAt \in Nat /\ lastSpeechAt <= now /\ rolloverAt \in Nat
        /\ idle \in BOOLEAN /\ speech \in BOOLEAN
    BY Times DEF SessionInv, TypeOK
  <1>7. \A i \in Said : /\ heard[i].at \in Nat /\ heard[i].at <= lastSpeechAt
                        /\ heard[i].at < rolloverAt /\ (idle => heard[i].at < now)
    BY <1>1, SaidTimes DEF FiledInv
  <1>8. InHand' /\ \A i \in Elems(batch') : i \in Frames' /\ heard'[i].at = now'
    BY <1>1, <1>3 DEF FiledInv, InHand, Elems
  <1>9. CASE StayInSession
    <2>1. pc' = "feed" /\ UNCHANGED <<rolloverAt, idle>> /\ ~RolloverDue
      BY <1>9 DEF StayInSession, sessionVars
    <2>2. speech => now < rolloverAt /\ ~idle
      BY <1>6, <2>1 DEF RolloverDue
    <2> QED BY <1>1, <1>4, <1>5, <1>7, <1>8, <2>1, <2>2 DEF FiledInv
  <1>10. CASE GoIdle
    <2>1. /\ pc' = "feed" /\ rolloverAt' = rolloverAt /\ idle' = TRUE /\ ~speech
          /\ now - lastSpeechAt >= IdleRollover
      BY <1>10 DEF GoIdle, IdleDue
    <2>2. lastSpeechAt < now
      BY <1>6, <2>1
    <2>3. \A i \in Said : heard[i].at < now
      BY <1>6, <1>7, <2>2
    <2> QED BY <1>1, <1>4, <1>5, <1>7, <1>8, <2>1, <2>3 DEF FiledInv
  <1>11. CASE RolloverFails
    <2>1. pc' = "feed" /\ rolloverAt' = now + RetryDelay /\ idle' = FALSE
      BY <1>11 DEF RolloverFails, RetryAt
    <2>2. now < rolloverAt' /\ \A i \in Said : heard[i].at < rolloverAt'
      BY <1>6, <1>7, <2>1
    <2> QED BY <1>1, <1>4, <1>5, <1>7, <1>8, <2>1, <2>2 DEF FiledInv
  <1>12. CASE BeginNext
    <2>1. pc' = "retire" /\ UNCHANGED <<rolloverAt, idle>> /\ RolloverDue
      BY <1>12 DEF BeginNext, sessionVars
    <2>2. \A i \in Said : heard[i].at < now
      <3> SUFFICES ASSUME NEW i \in Said PROVE heard[i].at < now
        OBVIOUS
      <3>1. idle \/ now >= rolloverAt
        BY <2>1 DEF RolloverDue
      <3> QED BY <1>6, <1>7, <3>1
    <2> QED BY <1>1, <1>4, <1>5, <1>7, <1>8, <2>1, <2>2 DEF FiledInv
  <1> QED BY <1>9, <1>10, <1>11, <1>12

(* A closed chunk goes to the session it was open in, or is a runt.           *)
LEMMA FiledClose ==
  ASSUME TypeOK, FiledInv, RetireChunk \/ CloseLast \/ CutChunk
  PROVE  FiledInv'
  <1>1. /\ current # NoChunk /\ current' = NoChunk
        /\ UNCHANGED <<now, heard, batch, speech, lastSpeechAt, dir, begun, rolloverAt, idle>>
        /\ \/ pc' = pc /\ pc \in {"retire", "ending"}
           \/ pc = "cut" /\ pc' = "read"
    BY DEF RetireChunk, CloseLast, CutChunk, inputVars
  <1>2. PICK c \in {current, WithHold(current)} : FinishChunk(c)
    BY DEF RetireChunk, CloseLast, CutChunk, Closing
  <1>3. current \in Chunk /\ hold \in Seq(Nat)
    BY <1>1 DEF TypeOK
  <1>4. c \in Chunk /\ HeldNow \subseteq Elems(c.frames)
    <2>1. WithHold(current) \in Chunk
          /\ Elems(WithHold(current).frames) = Elems(current.frames) \cup Elems(hold)
      BY <1>3, ExtendType, ExtendElems DEF WithHold
    <2> QED BY <1>1, <1>3, <2>1 DEF HeldNow
  <1>5. \/ meta' = meta /\ runts' = runts \cup Elems(c.frames)
        \/ meta' = [meta EXCEPT ![dir] = Append(@, c)] /\ runts' = runts
    BY <1>2 DEF FinishChunk
  <1>6. /\ runts \subseteq runts' /\ \A d \in DirNames : FramesOf(d) \subseteq FramesOf(d)'
        /\ \/ HeldNow \subseteq runts'
           \/ \A d \in DirNames : d = dir => HeldNow \subseteq FramesOf(d)'
    <2>1. CASE meta' = meta /\ runts' = runts \cup Elems(c.frames)
      <3>1. \A d \in DirNames : FramesOf(d)' = FramesOf(d)
        BY <2>1 DEF FramesOf, Elems
      <3> QED BY <1>4, <2>1, <3>1
    <2>2. CASE meta' = [meta EXCEPT ![dir] = Append(@, c)] /\ runts' = runts
      <3>1. \A d \in DirNames :
                FramesOf(d)' = IF d = dir THEN FramesOf(d) \cup Elems(c.frames) ELSE FramesOf(d)
        BY <1>4, <2>2, FramesOfAppend
      <3>2. \A d \in DirNames : FramesOf(d) \subseteq FramesOf(d)'
        BY <3>1
      <3>3. \A d \in DirNames : d = dir => HeldNow \subseteq FramesOf(d)'
        BY <1>4, <3>1
      <3> QED BY <2>2, <3>2, <3>3
    <2> QED BY <1>5, <2>1, <2>2
  <1>7. Said' = Said
    BY <1>1 DEF Said, InFlight, Frames, Elems
  <1>8. ASSUME NEW i \in Said PROVE Filed(i)'
    <2>1. Filed(i)
      BY DEF FiledInv
    <2>2. \A d \in DirNames : Under(i, d) => Under(i, d)'
      BY <1>1, UnderStays
    <2>3. i \in HeldNow => i \in runts' \/ \A d \in DirNames : d = dir => i \in FramesOf(d)'
      BY <1>6
    <2> QED BY <1>1, <1>6, <2>1, <2>2, <2>3, FiledStays
  <1>9. InHand' => InHand /\ Elems(batch') = Elems(batch) /\ Frames' = Frames
    BY <1>1 DEF InHand, Elems, Frames
  <1> QED BY <1>1, <1>7, <1>8, <1>9 DEF FiledInv, Elems

(* The switch: what was said before now was said in the sessions before.      *)
LEMMA FiledSwitch ==
  ASSUME TypeOK, SessionInv, FiledInv, RetireSession
  PROVE  FiledInv'
  <1>1. /\ pc = "retire" /\ pc' = "feed" /\ dir' = now /\ idle' = FALSE
        /\ current = NoChunk /\ current' = NoChunk
        /\ rolloverAt' = NextMidnight(now) /\ begun' = begun \cup {now}
        /\ UNCHANGED <<now, heard, batch, speech, lastSpeechAt, meta, runts>>
    BY DEF RetireSession, Switch, inputVars
  <1>2. /\ now \in Nat /\ dir < now /\ dir \in Nat /\ lastSpeechAt = now /\ now \in DirNames
        /\ NextMidnight(now) > now /\ NextMidnight(now) \in Nat
    BY <1>1, Times, NextMidnightType DEF SessionInv, SwitchingDirs
  <1>3. Said' = Said
    BY <1>1 DEF Said, InFlight, Frames, Elems
  <1>4. \A i \in Said : /\ heard[i].at \in Nat /\ heard[i].at < now /\ Filed(i)
                        /\ heard[i].at <= lastSpeechAt
    BY <1>1, SaidTimes DEF FiledInv
  <1>5. ASSUME NEW i \in Said PROVE Filed(i)'
    <2>1. \A d \in DirNames : Under(i, d) => Under(i, d)'
      BY <1>1, <1>2, <1>4 DEF Under
    <2>2. \A d \in DirNames : FramesOf(d) \subseteq FramesOf(d)'
      BY <1>1 DEF FramesOf, Elems
    <2>3. i \notin HeldNow /\ runts \subseteq runts'
      BY <1>1 DEF HeldNow
    <2> QED BY <1>4, <2>1, <2>2, <2>3, FiledStays
  <1>6. dir' \in begun' /\ \A e \in begun' : e <= dir'
    <2>1. begun \subseteq Nat /\ \A e \in begun : e <= dir
      BY SaidTimes DEF FiledInv
    <2> QED BY <1>1, <1>2, <2>1
  <1>7. \A i \in Said : heard[i].at < NextMidnight(now)
    BY <1>2, <1>4
  <1>8. \A i \in Elems(batch') : i \in Frames' /\ heard'[i].at = now'
    BY <1>1 DEF FiledInv, InHand, Elems, Frames
  <1> QED BY <1>1, <1>2, <1>3, <1>4, <1>5, <1>6, <1>7, <1>8 DEF FiledInv

(* A batch of speech goes to the open chunk of the session it was read in.    *)
LEMMA FiledFeed ==
  ASSUME TypeOK, FitInv, SessionInv, LogInv, FiledInv, Feed
  PROVE  FiledInv'
  <1>1. /\ pc = "feed" /\ pc' = "cut"
        /\ UNCHANGED <<now, heard, batch, speech, lastSpeechAt, dir, begun, rolloverAt, idle,
                       meta, runts>>
    BY DEF Feed, inputVars, sessionVars, storeVars
  <1>2. HeldNow \subseteq HeldNow' /\ (speech => Elems(batch) \subseteq HeldNow')
    BY FeedHolds
  <1>3. ~InHand' /\ InFlight' = {} /\ InFlight = Elems(batch) /\ Frames' = Frames /\ InHand
    BY <1>1 DEF InHand, InFlight, Frames
  <1>4. \A d \in DirNames : FramesOf(d) \subseteq FramesOf(d)'
    BY <1>1 DEF FramesOf, Elems
  <1>5. now \in Nat /\ dir \in DirNames /\ dir \in begun /\ dir <= now
    BY Times DEF FiledInv, TypeOK
  <1>6. ASSUME NEW i \in Said'
        PROVE  /\ Filed(i)' /\ heard[i].at <= lastSpeechAt /\ heard[i].at < rolloverAt
               /\ idle => heard[i].at < now
    <2>1. CASE i \in Said
      <3>1. Filed(i) /\ heard[i].at <= lastSpeechAt /\ heard[i].at < rolloverAt
            /\ (idle => heard[i].at < now)
        BY <1>1, <2>1 DEF FiledInv
      <3>2. \A d \in DirNames : Under(i, d) => Under(i, d)'
        BY <1>1, UnderStays
      <3>3. Filed(i)'
        BY <1>1, <1>2, <1>4, <3>1, <3>2, FiledStays
      <3> QED BY <3>1, <3>3
    <2>2. CASE i \notin Said
      <3>1. i \in Elems(batch) /\ heard[i].speech
        BY <1>1, <1>3, <2>2 DEF Said
      <3>2. heard[i].at = now /\ speech
        BY <1>3, <3>1 DEF FiledInv, LogInv, BatchIsNext
      <3>3. Under(i, dir)'
        BY <1>1, <1>5, <3>2 DEF Under, FiledInv
      <3>4. i \in HeldNow'
        BY <1>2, <3>1, <3>2
      <3>5. Filed(i)'
        BY <1>1, <1>5, <3>3, <3>4 DEF Filed
      <3>6. lastSpeechAt = now /\ now < rolloverAt /\ ~idle
        BY <1>1, <3>2 DEF FiledInv
      <3> QED BY <1>5, <3>2, <3>5, <3>6
    <2> QED BY <2>1, <2>2
  <1> QED BY <1>1, <1>3, <1>6 DEF FiledInv

(* Every step keeps what was said filed.                                      *)
LEMMA FiledStep ==
  ASSUME TypeOK, FitInv, SessionInv, LogInv, FiledInv, [Next]_vars
  PROVE  FiledInv'
  <1>1. CASE Read
    BY <1>1, FiledRead DEF Read
  <1>2. CASE StayInSession \/ GoIdle \/ RolloverFails \/ BeginNext
    BY <1>2, FiledRollover
  <1>3. CASE RetireChunk \/ CloseLast \/ CutChunk
    BY <1>3, FiledClose
  <1>4. CASE RetireSession
    BY <1>4, FiledSwitch
  <1>5. CASE Feed
    BY <1>5, FiledFeed
  <1>6. CASE NoCut \/ LeaveLoop \/ EndSession \/ WriterFails \/ StopRecording \/ Terminated
             \/ UNCHANGED vars
    <2>1. /\ UNCHANGED <<now, heard, batch, speech, lastSpeechAt, dir, begun, rolloverAt, idle,
                         meta, runts, current>>
          /\ \/ pc' = pc
             \/ pc \in {"cut", "read", "ending"} /\ pc' \in {"read", "ending", "done"}
             \/ pc' = "failed"
      BY <1>6 DEF NoCut, LeaveLoop, EndSession, WriterFails, StopRecording, Terminated, inputVars,
                  audioVars, sessionVars, storeVars, vars
    <2>2. Said' \subseteq Said
      BY <2>1 DEF Said, InFlight, Frames, Elems
    <2>3. \A i \in Said' : Filed(i)'
      BY <2>1, <2>2, FiledFrame
    <2>4. InHand' => InHand /\ Elems(batch') = Elems(batch) /\ Frames' = Frames
      BY <2>1 DEF InHand, Elems, Frames
    <2> QED BY <2>1, <2>2, <2>3, <2>4 DEF FiledInv, Elems
  <1> QED BY <1>1, <1>2, <1>3, <1>4, <1>5, <1>6 DEF Next, Writer

(* No spoken frame is ever lost: once its batch is written, a frame with      *)
(* speech is in a kept chunk of the session under way when it was read, in the*)
(* open chunk of that session, or in a chunk discarded as too short, whatever *)
(* fails (record).                                                            *)
THEOREM SpeechStaysFiled == Spec => []SpeechIsFiled
  <1>1. TypeOK /\ FiledInv => SpeechIsFiled
    <2> SUFFICES ASSUME TypeOK, FiledInv, NEW i \in Frames \ InFlight, heard[i].speech
                 PROVE  \/ i \in runts
                        \/ i \in FramesOf(SessionOf(i))
                        \/ /\ current # NoChunk
                           /\ i \in Elems(current.frames)
                           /\ dir = SessionOf(i)
      BY DEF SpeechIsFiled
    <2>1. Filed(i)
      BY DEF FiledInv, Said
    <2>2. ASSUME NEW d \in DirNames, Under(i, d), i \in FramesOf(d) \/ (d = dir /\ i \in HeldNow)
          PROVE  \/ i \in FramesOf(SessionOf(i))
                 \/ /\ current # NoChunk
                    /\ i \in Elems(current.frames)
                    /\ dir = SessionOf(i)
      <3>1. SessionOf(i) = d
        BY <2>2, UnderIs
      <3> QED BY <2>2, <3>1 DEF HeldNow
    <2> QED BY <2>1, <2>2 DEF Filed
  <1>2. Init => FiledInv
    <2> SUFFICES ASSUME Init PROVE FiledInv
      OBVIOUS
    <2>1. /\ heard = <<>> /\ pc = "read" /\ begun = {StartTime} /\ dir = StartTime
          /\ now = StartTime /\ StartTime \in Nat
      BY RecorderAssumption DEF Init, DirNames
    <2>2. Said = {}
      BY <2>1 DEF Said, Frames
    <2> QED BY <2>1, <2>2 DEF FiledInv, InHand
  <1>3. Init => LogInv
    BY InitLog
  <1>4. TypeOK /\ FitInv /\ SessionInv /\ LogInv /\ [Next]_vars => LogInv'
    BY LogStep
  <1> QED BY <1>1, <1>2, <1>3, <1>4, InitType, TypeStep, InitFits, FitStep, InitSession,
             SessionStep, FiledStep, PTL DEF Spec

-----------------------------------------------------------------------------
(* What reading a batch adds to the stream, and what it leaves alone.         *)
LEMMA ReadKeeps ==
  ASSUME TypeOK, NEW n \in BatchSizes, NEW spoken \in BOOLEAN, NEW step \in ClockSteps,
         ReadBatch(n, spoken, step)
  PROVE  /\ n \in Nat \ {0} /\ Len(heard) \in Nat /\ Len(heard') = Len(heard) + n
         /\ \A i \in Frames : heard'[i] = heard[i]
         /\ \A i \in 1..n : /\ heard'[Len(heard) + i].at = now'
                           /\ heard'[Len(heard) + i].speech = spoken
         /\ Len(batch') = n /\ \A i \in 1..n : batch'[i] = Len(heard) + i
         /\ pc = "read" /\ pc' = "rollover" /\ speech' = spoken
         /\ now' = now + step /\ now \in Nat /\ step \in Nat /\ now' \in DirNames
         /\ lastSpeechAt' = IF spoken THEN now' ELSE lastSpeechAt
         /\ UNCHANGED <<chunker, cut, current, preroll, hold, dir, rolloverAt, idle, meta, index,
                        runts, begun>>
  <1> DEFINE more == [i \in 1..n |-> [at |-> now', speech |-> spoken]]
  <1>1. /\ pc = "read" /\ pc' = "rollover" /\ batch' = NextFrames(n) /\ speech' = spoken
        /\ heard' = heard \o more /\ now' = now + step
        /\ lastSpeechAt' = IF spoken THEN now' ELSE lastSpeechAt
        /\ UNCHANGED <<chunker, cut, current, preroll, hold, dir, rolloverAt, idle, meta, index,
                       runts, begun>>
    BY DEF ReadBatch, audioVars, storeVars
  <1>2. /\ n \in Nat \ {0} /\ Len(heard) \in Nat /\ now \in Nat /\ step \in Nat
        /\ now' \in DirNames
    <2>1. now + step <= MaxTime /\ now \in DirNames /\ step \in Nat /\ n \in Nat \ {0}
      BY DEF ReadBatch, TypeOK
    <2> QED BY <1>1, <2>1 DEF DirNames, TypeOK
  <1>3. heard \in Seq([at: DirNames, speech: BOOLEAN])
    BY DEF TypeOK
  <1>4. more \in Seq([at: DirNames, speech: BOOLEAN]) /\ Len(more) = n
    BY <1>2
  <1>5. /\ Len(heard') = Len(heard) + n
        /\ \A i \in 1..Len(heard) : heard'[i] = heard[i]
        /\ \A i \in 1..n : heard'[Len(heard) + i] = more[i]
    <2> DEFINE S == [at: DirNames, speech: BOOLEAN]
    <2>0. heard \in Seq(S) /\ more \in Seq(S)
      BY <1>3, <1>4
    <2> HIDE DEF more, S
    <2>1. /\ Len(heard \o more) = Len(heard) + Len(more)
          /\ \A i \in 1..Len(heard) : (heard \o more)[i] = heard[i]
          /\ \A i \in 1..Len(more) : (heard \o more)[Len(heard) + i] = more[i]
      BY <2>0, ConcatAt
    <2>2. heard' = heard \o more /\ Len(more) = n
      BY <1>1, <1>4
    <2> QED BY <2>1, <2>2, Zenon
  <1>6. \A i \in 1..n : more[i].at = now' /\ more[i].speech = spoken
    OBVIOUS
  <1>7. Len(batch') = n /\ \A i \in 1..n : batch'[i] = Len(heard) + i
    BY <1>1, <1>2 DEF NextFrames
  <1> HIDE DEF more
  <1>8. \A i \in 1..n : /\ heard'[Len(heard) + i].at = now'
                       /\ heard'[Len(heard) + i].speech = spoken
    BY <1>5, <1>6
  <1> QED BY <1>1, <1>2, <1>5, <1>7, <1>8 DEF Frames

-----------------------------------------------------------------------------
(* A chunk begins and ends with talk.                                         *)

BeginsTalking(c) == \E p \in Spoken(c) : p <= PrerollCap + 1
Hugs(c) == BeginsTalking(c) /\ \E p \in Spoken(c) : p >= Len(c.frames) - TailCap

(* Silence is held back, so the open chunk ends with a spoken frame, and what *)
(* is held is no longer than a tail.                                          *)
HugInv ==
    /\ current # NoChunk => BeginsTalking(current) /\ Len(current.frames) \in Spoken(current)
    /\ Len(hold) <= TailCap
    /\ \A d \in DirNames : \A k \in 1..Len(meta[d]) : Hugs(meta[d][k])

(* A position keeps its verdict while the stream grows.                       *)
LEMMA SpokenStays ==
  ASSUME NEW c, Elems(c.frames) \subseteq Frames, \A i \in Frames : heard'[i] = heard[i]
  PROVE  Spoken(c)' = Spoken(c)
  <1>1. \A k \in 1..Len(c.frames) : c.frames[k] \in Frames
    BY DEF Elems
  <1> QED BY <1>1 DEF Spoken

(* What stands in a chunk stays where it is when more is written.             *)
LEMMA ExtendSpoken ==
  ASSUME NEW c \in Chunk, NEW more \in Seq(Nat)
  PROVE  /\ Spoken(c) \subseteq Spoken(Extend(c, more)) /\ Spoken(c) \subseteq Nat
         /\ Len(more) > 0 /\ heard[more[Len(more)]].speech =>
                Len(Extend(c, more).frames) \in Spoken(Extend(c, more))
  <1>1. c.frames \in Seq(Nat) /\ Extend(c, more).frames = c.frames \o more
    BY DEF Chunk, Extend
  <1>2. /\ Len(c.frames \o more) = Len(c.frames) + Len(more)
        /\ Len(c.frames) \in Nat /\ Len(more) \in Nat
        /\ \A i \in 1..Len(c.frames) : (c.frames \o more)[i] = c.frames[i]
        /\ \A i \in 1..Len(more) : (c.frames \o more)[Len(c.frames) + i] = more[i]
    BY <1>1, ConcatAt
  <1>3. \A i \in 1..Len(c.frames) : i \in 1..Len(c.frames \o more)
    BY <1>2
  <1>4. Len(more) > 0 => Len(c.frames \o more) \in 1..Len(c.frames \o more)
    BY <1>2
  <1> DEFINE all == c.frames \o more
  <1>5. \A k \in 1..Len(c.frames) : k \in 1..Len(all) /\ all[k] = c.frames[k]
    BY <1>2, <1>3
  <1>6. Len(more) > 0 => Len(all) \in 1..Len(all) /\ all[Len(all)] = more[Len(more)]
    BY <1>2, <1>4
  <1>7. Spoken(c) \subseteq Nat
    BY <1>2 DEF Spoken
  <1> HIDE DEF all
  <1>8. Extend(c, more).frames = all
    BY <1>1 DEF all
  <1>9. Spoken(Extend(c, more)) = {k \in 1..Len(all) : heard[all[k]].speech}
    BY <1>8 DEF Spoken
  <1>10. Spoken(c) \subseteq Spoken(Extend(c, more))
    BY <1>5, <1>9 DEF Spoken
  <1> QED BY <1>6, <1>7, <1>8, <1>9, <1>10

(* What finish_chunk is given hugs its talk.                                  *)
LEMMA ClosingHugs ==
  ASSUME TypeOK, HugInv, current # NoChunk, NEW c \in {current, WithHold(current)}
  PROVE  Hugs(c)
  <1>1. current \in Chunk /\ hold \in Seq(Nat) /\ current.frames \in Seq(Nat)
    BY DEF TypeOK, Chunk
  <1>2. /\ BeginsTalking(current) /\ Len(current.frames) \in Spoken(current)
        /\ Len(hold) <= TailCap /\ Len(hold) \in Nat /\ Len(current.frames) \in Nat
    BY <1>1 DEF HugInv
  <1>3. CASE c = current
    BY <1>2, <1>3 DEF Hugs
  <1>4. CASE c = WithHold(current)
    <2>1. /\ Spoken(current) \subseteq Spoken(c)
          /\ Len(c.frames) = Len(current.frames) + Len(hold)
      BY <1>1, <1>4, ExtendSpoken, ExtendType DEF WithHold
    <2>2. Len(current.frames) >= Len(c.frames) - TailCap
      BY <1>2, <2>1
    <2> QED BY <1>2, <2>1, <2>2 DEF Hugs, BeginsTalking
  <1> QED BY <1>3, <1>4

(* Closing a chunk.                                                           *)
LEMMA HugClose ==
  ASSUME TypeOK, HugInv, RetireChunk \/ CloseLast \/ CutChunk
  PROVE  HugInv'
  <1>1. /\ current # NoChunk /\ current' = NoChunk /\ UNCHANGED heard
        /\ hold' = hold \/ hold' = <<>>
    BY DEF RetireChunk, CloseLast, CutChunk, ClearBuffers, inputVars
  <1>2. PICK c \in {current, WithHold(current)} : FinishChunk(c)
    BY DEF RetireChunk, CloseLast, CutChunk, Closing
  <1>3. Hugs(c)
    BY <1>1, ClosingHugs
  <1>4. Len(hold') <= TailCap
    BY <1>1 DEF HugInv
  <1>5. meta' = meta \/ meta' = [meta EXCEPT ![dir] = Append(@, c)]
    BY <1>2, FinishChunkMeta
  <1>7. ASSUME NEW d \in DirNames, NEW k \in 1..Len(meta'[d]) PROVE Hugs(meta'[d][k])
    <2>1. meta \in [DirNames -> Seq(Chunk)] /\ dir \in DirNames
      BY DEF TypeOK
    <2>2. CASE meta'[d] = meta[d]
      BY <2>2 DEF HugInv
    <2>3. CASE meta'[d] # meta[d]
      <3>1. meta'[d] = Append(meta[d], c) /\ meta[d] \in Seq(Chunk)
        BY <1>5, <2>1, <2>3
      <3>2. CASE k = Len(meta[d]) + 1
        BY <1>3, <3>1, <3>2
      <3>3. CASE k # Len(meta[d]) + 1
        <4>1. k \in 1..Len(meta[d]) /\ meta'[d][k] = meta[d][k]
          BY <3>1, <3>3
        <4> QED BY <4>1 DEF HugInv
      <3> QED BY <3>2, <3>3
    <2> QED BY <2>2, <2>3
  <1>8. \A d \in DirNames : \A k \in 1..Len(meta'[d]) : Hugs(meta[d][k])'
    BY <1>1, <1>7 DEF Hugs, BeginsTalking, Spoken
  <1> QED BY <1>1, <1>4, <1>8 DEF HugInv

(* A batch of speech opens a chunk after at most a pre-roll, or ends it.      *)
LEMMA HugFeed ==
  ASSUME TypeOK, FitInv, LogInv, HugInv, Feed
  PROVE  HugInv'
  <1> DEFINE oc == OpenChunk(Fed(chunker, speech, Len(batch)))
  <1>1. /\ pc = "feed" /\ UNCHANGED <<heard, meta, speech>>
        /\ \/ oc = NoChunk /\ UNCHANGED <<current, hold>>
           \/ /\ oc # NoChunk /\ current' = Written(oc)
              /\ hold' = IF speech THEN <<>> ELSE KeepLast(hold, batch, TailCap)
    BY DEF Feed, inputVars, storeVars
  <1>2. /\ batch \in Seq(Nat) /\ hold \in Seq(Nat) /\ preroll \in Seq(Nat)
        /\ speech \in BOOLEAN /\ current \in Chunk \cup {NoChunk}
        /\ nextIndex \in Nat /\ sessionFrames \in Nat /\ NoChunk \notin Chunk
    BY DEF TypeOK
  <1>3. Len(batch) \in Nat \ {0}
    BY <1>1 DEF FitInv, BatchOK
  <1>4. speech => \A k \in 1..Len(batch) : heard[batch[k]].speech
    BY <1>1 DEF LogInv, BatchIsNext, InHand, Elems
  <1>6. \A d \in DirNames : \A k \in 1..Len(meta'[d]) : Hugs(meta[d][k])'
    <2>1. heard' = heard /\ meta' = meta
      BY <1>1
    <2> QED BY <2>1 DEF HugInv, Hugs, BeginsTalking, Spoken
  <1>7. Len(hold') <= TailCap
    BY <1>1, <1>2, KeepLastType DEF HugInv
  <1>8. CASE ~speech
    <2>1. current' = current
      <3>1. CASE current = NoChunk
        <4>1. ~chunker.open
          BY <1>1, <3>1 DEF FitInv, OpenOK, Closed
        <4>2. oc = NoChunk
          BY <1>8, <3>1, <4>1 DEF OpenChunk, Fed
        <4> QED BY <1>1, <4>2
      <3>2. CASE current # NoChunk
        <4>1. oc = current
          BY <3>2 DEF OpenChunk
        <4> QED BY <1>1, <1>8, <3>2, <4>1 DEF Written
      <3> QED BY <3>1, <3>2
    <2>2. heard' = heard
      BY <1>1
    <2> QED BY <1>6, <1>7, <2>1, <2>2 DEF HugInv, BeginsTalking, Spoken
  <1>9. CASE speech
    <2>1. /\ PrerollNow \in Seq(Nat)
          /\ current = NoChunk => Len(PrerollNow) <= PrerollCap
      BY <1>2, KeepLastType DEF PrerollNow
    <2>2. oc \in Chunk /\ (current # NoChunk => oc = current)
          /\ (current = NoChunk => oc.frames = PrerollNow)
      BY <1>2, <1>9, <2>1 DEF OpenChunk, Fed, Chunk
    <2> DEFINE more == hold \o batch
    <2>3. /\ more \in Seq(Nat) /\ Len(more) > 0 /\ Len(more) = Len(hold) + Len(batch)
          /\ heard[more[Len(more)]].speech
      <3>1. /\ Len(more) = Len(hold) + Len(batch) /\ Len(hold) \in Nat
            /\ more[Len(hold) + Len(batch)] = batch[Len(batch)]
        BY <1>2, <1>3, ConcatAt
      <3>2. more \in Seq(Nat)
        BY <1>2
      <3> QED BY <1>3, <1>4, <1>9, <3>1, <3>2
    <2>4. current' = Extend(oc, more) /\ current' # NoChunk
      <3>1. Extend(oc, more) \in Chunk
        BY <2>2, <2>3, ExtendType
      <3>2. oc # NoChunk /\ current' = Written(oc)
        BY <1>1, <1>2, <2>2
      <3> QED BY <1>2, <1>9, <3>1, <3>2 DEF Written
    <2> HIDE DEF oc
    <2>5. /\ Spoken(oc) \subseteq Spoken(current')
          /\ Len(current'.frames) \in Spoken(current')
      BY <2>2, <2>3, <2>4, ExtendSpoken
    <2>6. BeginsTalking(current')
      <3>1. CASE current # NoChunk
        BY <2>2, <2>5, <3>1 DEF HugInv, BeginsTalking
      <3>2. CASE current = NoChunk
        <4>1. hold = <<>> /\ more = batch
          BY <1>1, <1>2, <3>2 DEF FitInv, OpenOK, Closed
        <4>2. current'.frames = PrerollNow \o batch
          BY <2>2, <2>4, <3>2, <4>1 DEF Extend
        <4>3. /\ Len(PrerollNow) + 1 \in 1..Len(current'.frames)
              /\ current'.frames[Len(PrerollNow) + 1] = batch[1]
          BY <1>2, <1>3, <2>1, <4>2, ConcatAt
        <4>4. Len(PrerollNow) + 1 \in Spoken(current')
          BY <1>3, <1>4, <1>9, <4>3 DEF Spoken
        <4> QED BY <2>1, <3>2, <4>4 DEF BeginsTalking
      <3> QED BY <3>1, <3>2
    <2>7. BeginsTalking(current)' /\ Len(current'.frames) \in Spoken(current)'
      <3>1. heard' = heard
        BY <1>1
      <3>2. Spoken(current)' = Spoken(current')
        BY <3>1 DEF Spoken
      <3> QED BY <2>5, <2>6, <3>2 DEF BeginsTalking
    <2> QED BY <1>6, <1>7, <2>7 DEF HugInv
  <1> QED BY <1>2, <1>8, <1>9

(* Every step keeps chunks close to their talk.                               *)
LEMMA HugStep ==
  ASSUME TypeOK, FitInv, SessionInv, LogInv, HugInv, [Next]_vars
  PROVE  HugInv'
  <1>1. CASE Read
    <2>1. PICK n \in BatchSizes, spoken \in BOOLEAN, step \in ClockSteps :
              ReadBatch(n, spoken, step)
      BY <1>1 DEF Read
    <2>2. /\ UNCHANGED <<current, hold, meta>>
          /\ \A i \in Frames : heard'[i] = heard[i]
      BY <2>1, ReadKeeps
    <2>3. /\ current # NoChunk => Elems(current.frames) \subseteq Frames
          /\ \A d \in DirNames : FramesOf(d) \subseteq Frames
      <3>1. 1..Past \subseteq Frames
        BY PastNat DEF Frames
      <3> QED BY <3>1 DEF LogInv, AllStored, Stored
    <2>4. current # NoChunk => Spoken(current)' = Spoken(current)
      <3> SUFFICES ASSUME current # NoChunk PROVE Spoken(current)' = Spoken(current)
        OBVIOUS
      <3>1. \A k \in 1..Len(current.frames) : current.frames[k] \in Frames
        BY <2>3 DEF Elems
      <3> QED BY <2>2, <3>1 DEF Spoken
    <2>5. ASSUME NEW d \in DirNames, NEW k \in 1..Len(meta[d])
          PROVE  Spoken(meta[d][k])' = Spoken(meta[d][k])
      <3>1. \A p \in 1..Len(meta[d][k].frames) : meta[d][k].frames[p] \in Frames
        BY <2>3 DEF Elems, FramesOf
      <3> QED BY <2>2, <3>1 DEF Spoken
    <2>6. \A d \in DirNames : \A k \in 1..Len(meta[d]) : Hugs(meta[d][k])'
      BY <2>2, <2>5 DEF HugInv, Hugs, BeginsTalking
    <2> QED BY <2>2, <2>4, <2>6 DEF HugInv, BeginsTalking
  <1>2. CASE RetireChunk \/ CloseLast \/ CutChunk
    BY <1>2, HugClose
  <1>3. CASE Feed
    BY <1>3, HugFeed
  <1>4. CASE \/ StayInSession \/ GoIdle \/ RolloverFails \/ BeginNext \/ RetireSession
             \/ NoCut \/ LeaveLoop \/ EndSession \/ WriterFails \/ StopRecording \/ Terminated
             \/ UNCHANGED vars
    <2>1. UNCHANGED <<heard, current>> /\ (hold' = hold \/ hold' = <<>>)
      BY <1>4 DEF StayInSession, GoIdle, RolloverFails, BeginNext, RetireSession, NoCut,
                  LeaveLoop, EndSession, WriterFails, StopRecording, Terminated, ClearBuffers,
                  inputVars, audioVars, vars
    <2>2. meta' = meta
      BY <1>4, BeginsEmpty DEF StayInSession, GoIdle, RolloverFails, RetireSession, NoCut,
                  LeaveLoop, EndSession, WriterFails, StopRecording, Terminated, storeVars, vars
    <2> QED BY <2>1, <2>2 DEF HugInv, Hugs, BeginsTalking, Spoken
  <1> QED BY <1>1, <1>2, <1>3, <1>4 DEF Next, Writer

(* A kept chunk hugs its talk: no more silence before its first spoken frame  *)
(* than the pre-roll holds, and none after its last beyond the tail (record). *)
THEOREM ChunksStayTrim == Spec => []ChunksHugSpeech
  <1>1. HugInv => ChunksHugSpeech
    BY DEF HugInv, Hugs, BeginsTalking, ChunksHugSpeech
  <1>2. Init => HugInv
    BY DEF Init, HugInv
  <1>3. Init => LogInv
    BY InitLog
  <1>4. TypeOK /\ FitInv /\ SessionInv /\ LogInv /\ [Next]_vars => LogInv'
    BY LogStep
  <1> QED BY <1>1, <1>2, <1>3, <1>4, InitType, TypeStep, InitFits, FitStep, InitSession,
             SessionStep, HugStep, PTL DEF Spec

-----------------------------------------------------------------------------
(* When each session's talk was spoken.                                       *)

(* A session is over at the midnight after it began, unless a rollover failed *)
(* and put that off; what it keeps, or is about to keep, was spoken between   *)
(* the two.                                                                   *)
InTime(i, d) == d <= heard[i].at /\ heard[i].at < NextMidnight(d)
DayInv ==
    "rollover" \notin Faults =>
        /\ rolloverAt = NextMidnight(dir)
        /\ \A d \in DirNames : \A i \in LogKept[d] : InTime(i, d)
        /\ \A i \in LogPending : InTime(i, dir)

(* What is filed or pending has been fed.                                     *)
LEMMA LoggedIsHeard ==
  ASSUME TypeOK, LogInv
  PROVE  /\ \A d \in DirNames : LogKept[d] \subseteq Frames
         /\ LogPending \subseteq Frames
  <1>1. 1..Past \subseteq Frames
    BY PastNat DEF Frames
  <1> QED BY <1>1 DEF LogInv, AllStored, Stored, LogKept, LogPending, SpokenOf

(* From a moment to the midnight after it is one day.                         *)
LEMMA SameDay ==
  ASSUME NEW t \in Nat, NEW u \in Nat, t <= u, u < NextMidnight(t)
  PROVE  u \div Day = t \div Day
  <1> DEFINE q == t \div Day
             r == u \div Day
  <1>1. Day \in Nat /\ Day > 0
    OBVIOUS
  <1>2. q \in Nat /\ r \in Nat /\ q * Day <= t /\ r * Day <= u /\ u < (r + 1) * Day
    BY <1>1
  <1>3. u < (q + 1) * Day
    BY DEF NextMidnight
  <1> HIDE DEF q, r
  <1>4. ~(r < q)
    <2> SUFFICES ASSUME r + 1 <= q PROVE FALSE
      BY <1>2
    <2>1. (r + 1) * Day <= q * Day
      BY <1>1, <1>2
    <2>2. (r + 1) * Day \in Nat /\ q * Day \in Nat
      BY <1>1, <1>2
    <2> QED BY <1>2, <2>1, <2>2
  <1>5. ~(q < r)
    <2> SUFFICES ASSUME q + 1 <= r PROVE FALSE
      BY <1>2
    <2>1. (q + 1) * Day <= r * Day
      BY <1>1, <1>2
    <2>2. (q + 1) * Day \in Nat /\ r * Day \in Nat
      BY <1>1, <1>2
    <2> QED BY <1>2, <1>3, <2>1, <2>2
  <1>6. q = r
    BY <1>2, <1>4, <1>5
  <1> QED BY <1>6 DEF q, r

(* A step that neither logs nor begins a session.                             *)
LEMMA DayFrame ==
  ASSUME TypeOK, LogInv, DayInv, LogKept' = LogKept, LogPending' = LogPending,
         \A i \in Frames : heard'[i].at = heard[i].at, UNCHANGED <<dir, rolloverAt>>
  PROVE  DayInv'
  <1>1. \A d \in DirNames : \A i \in LogKept[d] : InTime(i, d) => InTime(i, d)'
    BY LoggedIsHeard DEF InTime, NextMidnight
  <1>2. \A i \in LogPending : InTime(i, dir) => InTime(i, dir)'
    BY LoggedIsHeard DEF InTime, NextMidnight
  <1> QED BY <1>1, <1>2 DEF DayInv, NextMidnight

(* Closing a chunk logs what is pending with the session under way.           *)
LEMMA DayClose ==
  ASSUME TypeOK, SessionInv, LogInv, DayInv, RetireChunk \/ CloseLast \/ CutChunk
  PROVE  DayInv'
  <1>1. UNCHANGED <<heard, dir, rolloverAt>> /\ dir \in DirNames
    BY DEF RetireChunk, CloseLast, CutChunk, inputVars, TypeOK
  <1>2. Log!File \/ Log!Drop
    BY CloseLog
  <1>3. LogPending' = {}
    BY <1>2 DEF Log!File, Log!Drop
  <1>4. \/ LogKept' = LogKept
        \/ LogKept' = [LogKept EXCEPT ![dir] = LogKept[dir] \cup LogPending]
    BY <1>2 DEF Log!File, Log!Drop
  <1>5. \A d \in DirNames : LogKept'[d] \subseteq LogKept[d] \cup (IF d = dir THEN LogPending ELSE {})
    <2>1. LogKept = [d \in DirNames |-> LogKept[d]]
      BY DEF LogKept
    <2> QED BY <1>1, <1>4, <2>1
  <1>6. "rollover" \notin Faults =>
            \A d \in DirNames : \A i \in LogKept'[d] : InTime(i, d)
    BY <1>5 DEF DayInv
  <1>7. "rollover" \notin Faults =>
            \A d \in DirNames : \A i \in LogKept'[d] : InTime(i, d)'
    BY <1>1, <1>6 DEF InTime, NextMidnight
  <1> QED BY <1>1, <1>3, <1>7 DEF DayInv, NextMidnight

(* A batch of speech was read now, in the session under way.                  *)
LEMMA DayFeed ==
  ASSUME TypeOK, FitInv, LogInv, FiledInv, DayInv, Feed
  PROVE  DayInv'
  <1>1. pc = "feed" /\ UNCHANGED <<heard, dir, rolloverAt>>
    BY DEF Feed, inputVars, sessionVars
  <1>2. /\ LogKept' = LogKept
        /\ LogPending' = IF speech THEN LogPending \cup Elems(batch) ELSE LogPending
    BY FeedLog
  <1>3. CASE ~speech
    BY <1>1, <1>2, <1>3, DayFrame
  <1>4. CASE speech /\ "rollover" \notin Faults
    <2>1. \A i \in Elems(batch) : InTime(i, dir)
      <3>1. dir <= now /\ now < rolloverAt /\ rolloverAt = NextMidnight(dir)
        BY <1>1, <1>4 DEF FiledInv, DayInv
      <3>2. \A i \in Elems(batch) : heard[i].at = now
        BY <1>1 DEF FiledInv, InHand
      <3> QED BY <3>1, <3>2 DEF InTime
    <2>2. \A i \in LogPending' : InTime(i, dir)
      BY <1>2, <1>4, <2>1 DEF DayInv
    <2>3. \A i \in LogPending' : InTime(i, dir)'
      BY <1>1, <2>2 DEF InTime, NextMidnight
    <2>4. \A d \in DirNames : \A i \in LogKept'[d] : InTime(i, d)'
      BY <1>1, <1>2, <1>4 DEF DayInv, InTime, NextMidnight
    <2>5. (rolloverAt = NextMidnight(dir))'
      BY <1>1, <1>4 DEF DayInv, NextMidnight
    <2> QED BY <2>3, <2>4, <2>5 DEF DayInv
  <1>5. CASE speech /\ "rollover" \in Faults
    BY <1>5 DEF DayInv
  <1> QED BY <1>3, <1>4, <1>5 DEF TypeOK

(* The next session begins now, with nothing pending.                         *)
LEMMA DaySwitch ==
  ASSUME TypeOK, LogInv, DayInv, RetireSession
  PROVE  DayInv'
  <1>1. /\ UNCHANGED <<now, heard, meta, current>> /\ current = NoChunk
        /\ dir' = now /\ rolloverAt' = NextMidnight(now)
    BY DEF RetireSession, Switch, inputVars
  <1>2. LogPending' = {} /\ LogKept' = LogKept
    BY <1>1 DEF LogPending, LogKept, FramesOf, SpokenOf
  <1>3. "rollover" \notin Faults =>
            \A d \in DirNames : \A i \in LogKept'[d] : InTime(i, d)'
    BY <1>1, <1>2 DEF DayInv, InTime, NextMidnight
  <1> QED BY <1>1, <1>2, <1>3 DEF DayInv, NextMidnight

(* Every step keeps the days apart.                                           *)
LEMMA DayStep ==
  ASSUME TypeOK, FitInv, SessionInv, LogInv, FiledInv, DayInv, [Next]_vars
  PROVE  DayInv'
  <1>1. CASE Read
    <2>1. PICK n \in BatchSizes, spoken \in BOOLEAN, step \in ClockSteps :
              ReadBatch(n, spoken, step)
      BY <1>1 DEF Read
    <2>2. UNCHANGED <<dir, rolloverAt>> /\ \A i \in Frames : heard'[i] = heard[i]
      BY <2>1, ReadKeeps
    <2>3. UNCHANGED Log!vars
      BY <2>1, ReadLog
    <2> QED BY <2>2, <2>3, DayFrame DEF Log!vars
  <1>2. CASE RetireChunk \/ CloseLast \/ CutChunk
    BY <1>2, DayClose
  <1>3. CASE Feed
    BY <1>3, DayFeed
  <1>4. CASE RetireSession
    BY <1>4, DaySwitch
  <1>5. CASE RolloverFails
    BY <1>5 DEF RolloverFails, DayInv
  <1>6. CASE \/ StayInSession \/ GoIdle \/ BeginNext \/ NoCut \/ LeaveLoop \/ EndSession
             \/ WriterFails \/ StopRecording \/ Terminated \/ UNCHANGED vars
    <2>1. UNCHANGED <<heard, current, dir, rolloverAt>>
      BY <1>6 DEF StayInSession, GoIdle, BeginNext, NoCut, LeaveLoop, EndSession, WriterFails,
                  StopRecording, Terminated, inputVars, audioVars, sessionVars, vars
    <2>2. meta' = meta
      BY <1>6, BeginsEmpty DEF StayInSession, GoIdle, NoCut, LeaveLoop, EndSession, WriterFails,
                  StopRecording, Terminated, storeVars, vars
    <2>3. LogKept' = LogKept /\ LogPending' = LogPending
      BY <2>1, <2>2 DEF LogKept, LogPending, FramesOf, SpokenOf
    <2> QED BY <2>1, <2>3, DayFrame
  <1> QED BY <1>1, <1>2, <1>3, <1>4, <1>5, <1>6 DEF Next, Writer

(* Nothing has been said.                                                     *)
LEMMA InitFiled == Init => FiledInv
  <1> SUFFICES ASSUME Init PROVE FiledInv
    OBVIOUS
  <1>1. /\ heard = <<>> /\ pc = "read" /\ begun = {StartTime} /\ dir = StartTime
        /\ now = StartTime /\ StartTime \in Nat
    BY RecorderAssumption DEF Init, DirNames
  <1>2. Said = {}
    BY <1>1 DEF Said, Frames
  <1> QED BY <1>1, <1>2 DEF FiledInv, InHand

(* Unless a rollover fails, what a session keeps was spoken on the day it     *)
(* began, however long the machine slept (next_midnight).                     *)
THEOREM DaysStaySeparate == Spec => []DaysAreSeparate
  <1>1. TypeOK /\ LogInv /\ DayInv => DaysAreSeparate
    <2> SUFFICES ASSUME TypeOK, LogInv, DayInv, "rollover" \notin Faults, NEW d \in DirNames,
                        NEW i \in FramesOf(d), heard[i].speech
                 PROVE  heard[i].at \div Day = d \div Day
      BY DEF DaysAreSeparate
    <2>1. i \in LogKept[d]
      BY DEF LogKept, SpokenOf
    <2>2. InTime(i, d) /\ i \in Frames
      BY <2>1, LoggedIsHeard DEF DayInv
    <2>3. heard[i].at \in Nat /\ d \in Nat
      BY <2>2, SaidTimes DEF DirNames
    <2> QED BY <2>2, <2>3, SameDay DEF InTime
  <1>2. Init => DayInv
    <2> SUFFICES ASSUME Init PROVE DayInv
      OBVIOUS
    <2>1. /\ rolloverAt = NextMidnight(StartTime) /\ dir = StartTime /\ current = NoChunk
          /\ \A d \in DirNames : meta[d] = <<>>
      BY DEF Init
    <2>2. LogPending = {} /\ \A d \in DirNames : LogKept[d] = {}
      BY <2>1 DEF LogPending, LogKept, FramesOf, SpokenOf
    <2> QED BY <2>1, <2>2 DEF DayInv
  <1>3. Init => LogInv
    BY InitLog
  <1>4. TypeOK /\ FitInv /\ SessionInv /\ LogInv /\ [Next]_vars => LogInv'
    BY LogStep
  <1> QED BY <1>1, <1>2, <1>3, <1>4, InitType, TypeStep, InitFits, FitStep, InitSession,
             SessionStep, InitFiled, FiledStep, DayStep, PTL DEF Spec

-----------------------------------------------------------------------------
(* Long quiets.                                                               *)

(* A batch counts once the session it belongs to is settled.                  *)
Settled == IF pc \in {"rollover", "retire", "failed"} THEN Frames \ Elems(batch) ELSE Frames
TalkSettled == {0} \cup {i \in Settled : heard[i].speech}

(* Everything fed since frame i, or since the start, was silence.             *)
QuietSince(i) ==
    /\ i = 0 \/ (i \in 1..Past /\ heard[i].speech)
    /\ \A q \in i+1..Past : ~heard[q].speech

BatchIsWhole ==
    InHand => \A q \in Past+1..Len(heard) :
        q \in Elems(batch) /\ heard[q].at = now /\ heard[q].speech = speech

(* The chunker counts the silence, so a chunk is cut in time; lastSpeechAt is *)
(* when the quiet began.                                                      *)
QuietInv ==
    /\ BatchIsWhole
    /\ pc = "retire" => speech
    /\ chunker.open => chunker.hasSpeech
    /\ pc # "failed" => \A i \in 0..Past : QuietSince(i) => chunker.silence >= Past - i
    /\ pc # "failed" /\ (InHand => ~speech) =>
           \A i \in 0..Past : QuietSince(i) => lastSpeechAt = SpokenAt(i)
    /\ pc \in {"read", "rollover"} /\ current # NoChunk => chunker.silence < SilenceToCut
    /\ StartTime <= now /\ \A i \in Frames : heard[i].at <= now

(* The times and the verdicts of the stream, for arithmetic.                  *)
LEMMA StreamTypes ==
  ASSUME TypeOK, LogInv
  PROVE  /\ Past \in Nat /\ Past <= Len(heard) /\ Len(heard) \in Nat /\ Frames \subseteq Nat
         /\ \A i \in Frames : heard[i].at \in Nat /\ heard[i].speech \in BOOLEAN
         /\ \A i \in Frames \cup {0} : SpokenAt(i) \in Nat
         /\ chunker.silence \in Nat /\ now \in Nat /\ lastSpeechAt \in Nat
         /\ speech \in BOOLEAN /\ StartTime \in Nat
  <1>1. StartTime \in Nat
    BY DEF DirNames
  <1>2. \A i \in Frames : heard[i].at \in Nat /\ heard[i].speech \in BOOLEAN
    BY SaidTimes
  <1>3. \A i \in Frames \cup {0} : SpokenAt(i) \in Nat
    BY <1>1, <1>2 DEF SpokenAt
  <1>4. chunker.silence \in Nat /\ speech \in BOOLEAN
    BY DEF TypeOK, ChunkerState
  <1> QED BY <1>1, <1>2, <1>3, <1>4, PastNat, SaidTimes, Times

(* Reading: the batch is the newest of the stream, and nothing is fed.        *)
LEMMA QuietRead ==
  ASSUME TypeOK, LogInv, QuietInv, NEW n \in BatchSizes, NEW spoken \in BOOLEAN,
         NEW step \in ClockSteps, ReadBatch(n, spoken, step)
  PROVE  QuietInv'
  <1>1. /\ n \in Nat \ {0} /\ Len(heard) \in Nat /\ Len(heard') = Len(heard) + n
        /\ \A i \in Frames : heard'[i] = heard[i]
        /\ \A i \in 1..n : /\ heard'[Len(heard) + i].at = now'
                           /\ heard'[Len(heard) + i].speech = spoken
        /\ Len(batch') = n /\ \A i \in 1..n : batch'[i] = Len(heard) + i
        /\ pc = "read" /\ pc' = "rollover" /\ speech' = spoken
        /\ now' = now + step /\ now \in Nat /\ step \in Nat /\ now' \in DirNames
        /\ lastSpeechAt' = IF spoken THEN now' ELSE lastSpeechAt
        /\ UNCHANGED <<chunker, cut, current, preroll, hold, dir, rolloverAt, idle, meta, index,
                       runts, begun>>
    BY ReadKeeps, Zenon
  <1>2. Past = Len(heard) /\ Past' = Len(heard)
    BY <1>1 DEF Past, InHand
  <1>3. BatchIsWhole'
    <2> SUFFICES ASSUME NEW q \in Len(heard)+1..Len(heard')
                 PROVE  q \in Elems(batch') /\ heard'[q].at = now' /\ heard'[q].speech = spoken
      BY <1>1, <1>2 DEF BatchIsWhole, Elems
    <2>1. q - Len(heard) \in 1..n /\ q = Len(heard) + (q - Len(heard))
      BY <1>1
    <2>2. batch'[q - Len(heard)] = q
      BY <1>1, <2>1
    <2>3. q \in Elems(batch')
      BY <1>1, <2>1, <2>2 DEF Elems
    <2> QED BY <1>1, <2>1, <2>3
  <1>4. \A i \in 0..Past : /\ QuietSince(i)' => QuietSince(i)
                           /\ SpokenAt(i)' = SpokenAt(i)
    <2> SUFFICES ASSUME NEW i \in 0..Past
                 PROVE  (QuietSince(i)' => QuietSince(i)) /\ SpokenAt(i)' = SpokenAt(i)
      OBVIOUS
    <2>1. \A q \in 1..Past : heard'[q] = heard[q]
      BY <1>1, <1>2 DEF Frames
    <2>2. i \in Nat /\ \A q \in i+1..Past : q \in 1..Past
      BY <1>1, <1>2
    <2>3. SpokenAt(i)' = SpokenAt(i)
      BY <1>1, <1>2, <2>1 DEF SpokenAt
    <2>4. QuietSince(i)' => QuietSince(i)
      BY <1>2, <2>1, <2>2 DEF QuietSince
    <2> QED BY <2>3, <2>4
  <1>5. \A i \in 0..Past' : QuietSince(i)' => chunker'.silence >= Past' - i
    BY <1>1, <1>2, <1>4 DEF QuietInv
  <1>6. (InHand => ~speech)' => \A i \in 0..Past' : QuietSince(i)' => lastSpeechAt' = SpokenAt(i)'
    BY <1>1, <1>2, <1>4 DEF QuietInv, InHand
  <1>7. StartTime <= now' /\ \A i \in Frames' : heard'[i].at <= now'
    <2>1. /\ StartTime \in Nat /\ StartTime <= now
          /\ \A i \in Frames : heard[i].at <= now /\ heard[i].at \in Nat
      BY StreamTypes DEF QuietInv
    <2>2. \A i \in Frames : heard'[i] = heard[i]
      BY <1>1
    <2>3. now' = now + step /\ now \in Nat /\ step \in Nat
      BY <1>1
    <2>4. StartTime <= now' /\ \A i \in Frames : heard'[i].at <= now'
      BY <2>1, <2>2, <2>3
    <2>5. \A i \in Frames' : i \in Frames \/ i \in Len(heard)+1..Len(heard')
      BY <1>1 DEF Frames
    <2>6. \A i \in Len(heard)+1..Len(heard') : heard'[i].at = now'
      BY <1>1, <1>2, <1>3 DEF BatchIsWhole, InHand
    <2>7. now' \in Nat
      BY <2>3
    <2> QED BY <2>4, <2>5, <2>6, <2>7
  <1>8. (pc \in {"read", "rollover"} /\ current # NoChunk => chunker.silence < SilenceToCut)'
    BY <1>1 DEF QuietInv
  <1> QED BY <1>1, <1>3, <1>5, <1>6, <1>7, <1>8 DEF QuietInv

(* Feeding: a batch of silence prolongs the quiet, one of speech ends it.     *)
LEMMA QuietFeed ==
  ASSUME TypeOK, FitInv, LogInv, FiledInv, QuietInv, Feed
  PROVE  QuietInv'
  <1>1. /\ pc = "feed" /\ pc' = "cut" /\ chunker' = Fed(chunker, speech, Len(batch))
        /\ UNCHANGED <<now, heard, batch, speech, lastSpeechAt>>
    BY DEF Feed, inputVars, sessionVars
  <1>2. /\ Len(batch) \in Nat \ {0} /\ Past = Len(heard) - Len(batch) /\ Past' = Len(heard)
        /\ InHand /\ ~InHand' /\ Past \in Nat /\ Len(heard) \in Nat
    BY <1>1, StreamTypes DEF FitInv, BatchOK, Past, InHand
  <1>3. \A q \in Past+1..Len(heard) : heard[q].at = now /\ heard[q].speech = speech
    BY <1>2 DEF QuietInv, BatchIsWhole
  <1>4. /\ chunker.silence \in Nat /\ speech \in BOOLEAN /\ lastSpeechAt \in Nat
        /\ chunker'.silence = IF speech THEN 0 ELSE chunker.silence + Len(batch)
        /\ chunker'.open = (chunker.open \/ speech)
        /\ chunker'.hasSpeech = (chunker.hasSpeech \/ speech)
    BY <1>1, StreamTypes DEF Fed
  <1>5. \A i : SpokenAt(i)' = SpokenAt(i)
    BY <1>1 DEF SpokenAt
  <1>6. ASSUME NEW i \in 0..Past', QuietSince(i)'
        PROVE  chunker'.silence >= Past' - i /\ lastSpeechAt' = SpokenAt(i)
    <2>1. /\ i = 0 \/ (i \in 1..Len(heard) /\ heard[i].speech)
          /\ \A q \in i+1..Len(heard) : ~heard[q].speech
      BY <1>1, <1>2, <1>6 DEF QuietSince
    <2>2. Len(heard) \in Past+1..Len(heard)
      BY <1>2
    <2>3. CASE speech
      <3>1. ~(Len(heard) \in i+1..Len(heard))
        BY <1>3, <2>1, <2>2, <2>3
      <3>2. i = Len(heard)
        BY <1>2, <2>1, <3>1
      <3>3. lastSpeechAt = now /\ heard[i].at = now
        BY <1>1, <1>3, <2>2, <2>3, <3>2 DEF FiledInv
      <3> QED BY <1>1, <1>2, <1>4, <2>3, <3>2, <3>3 DEF SpokenAt
    <2>4. CASE ~speech
      <3>1. ~(i \in Past+1..Len(heard))
        BY <1>2, <1>3, <2>1, <2>4
      <3>2. i \in 0..Past
        BY <1>2, <2>1, <3>1
      <3>3. QuietSince(i)
        BY <1>2, <2>1, <3>2 DEF QuietSince
      <3>4. chunker.silence >= Past - i /\ lastSpeechAt = SpokenAt(i)
        BY <1>1, <2>4, <3>2, <3>3 DEF QuietInv
      <3> QED BY <1>1, <1>2, <1>4, <2>4, <3>2, <3>4
    <2> QED BY <1>4, <2>3, <2>4
  <1>7. StartTime <= now' /\ \A i \in Frames' : heard'[i].at <= now'
    BY <1>1 DEF QuietInv, Frames
  <1>8. \A i \in 0..Past' : QuietSince(i)' => lastSpeechAt' = SpokenAt(i)'
    BY <1>5, <1>6
  <1> QED BY <1>1, <1>2, <1>4, <1>6, <1>7, <1>8 DEF QuietInv, BatchIsWhole

(* A step that neither reads nor feeds, and cuts a chunk that was quiet.      *)
LEMMA QuietFrame ==
  ASSUME TypeOK, LogInv, QuietInv, UNCHANGED <<now, heard, batch, speech, lastSpeechAt>>,
         chunker' = chunker \/ chunker' = ResetAfterCut(chunker),
         pc' \in {"read", "rollover"} /\ current' # NoChunk => chunker.silence < SilenceToCut,
         pc' = "retire" => speech, pc = "failed" => pc' = "failed",
         InHand' = InHand \/ pc' = "failed"
  PROVE  QuietInv'
  <1>1. /\ chunker'.silence = chunker.silence
        /\ chunker'.open => chunker'.hasSpeech
    <2>1. chunker \in ChunkerState
      BY DEF TypeOK
    <2> QED BY <2>1 DEF ResetAfterCut, QuietInv, ChunkerState
  <1>2. BatchIsWhole'
    <2>1. InHand' => InHand /\ Past' = Past
      BY DEF InHand, Past
    <2> QED BY <2>1 DEF QuietInv, BatchIsWhole, Elems
  <1>3. pc' # "failed" => \A i : QuietSince(i)' => QuietSince(i)
    <2>1. pc' # "failed" => Past' = Past
      BY DEF Past, InHand
    <2> QED BY <2>1 DEF QuietSince
  <1>4. \A i : SpokenAt(i)' = SpokenAt(i)
    BY DEF SpokenAt
  <1>5. pc' # "failed" => pc # "failed" /\ InHand' = InHand /\ Past' = Past
    BY DEF Past
  <1>6. pc' # "failed" => \A i \in 0..Past' : QuietSince(i)' => chunker'.silence >= Past' - i
    BY <1>1, <1>3, <1>5 DEF QuietInv
  <1>7. pc' # "failed" /\ (InHand' => ~speech') =>
            \A i \in 0..Past' : QuietSince(i)' => lastSpeechAt' = SpokenAt(i)'
    BY <1>3, <1>4, <1>5 DEF QuietInv
  <1> QED BY <1>1, <1>2, <1>6, <1>7 DEF QuietInv, Frames

(* Every step keeps the account of the silence.                               *)
LEMMA QuietKept ==
  ASSUME TypeOK, FitInv, LogInv, FiledInv, QuietInv, [Next]_vars
  PROVE  QuietInv'
  <1>1. CASE Read
    <2>1. PICK n \in BatchSizes, spoken \in BOOLEAN, step \in ClockSteps :
              ReadBatch(n, spoken, step)
      BY <1>1 DEF Read
    <2> QED BY <2>1, QuietRead
  <1>2. CASE Feed
    BY <1>2, QuietFeed
  <1>3. CASE CutChunk \/ RetireChunk \/ CloseLast
    <2>1. /\ current' = NoChunk
          /\ chunker' = chunker \/ chunker' = ResetAfterCut(chunker)
          /\ UNCHANGED <<now, heard, batch, speech, lastSpeechAt>>
          /\ \/ pc' = pc /\ pc \in {"retire", "ending"}
             \/ pc = "cut" /\ pc' = "read"
      BY <1>3 DEF CutChunk, RetireChunk, CloseLast, inputVars
    <2>2. current' = NoChunk /\ (pc' = "retire" => speech)
      BY <1>3, <2>1 DEF CutChunk, RetireChunk, CloseLast, QuietInv
    <2>3. InHand' = InHand
      BY <2>1 DEF InHand
    <2> QED BY <2>1, <2>2, <2>3, QuietFrame
  <1>4. CASE RetireSession
    <2>1. /\ current' = NoChunk /\ chunker' = ResetAfterCut(chunker)
          /\ UNCHANGED <<now, heard, batch, speech, lastSpeechAt>>
          /\ pc = "retire" /\ pc' = "feed"
      BY <1>4 DEF RetireSession, inputVars
    <2>2. InHand' = InHand
      BY <2>1 DEF InHand
    <2> QED BY <2>1, <2>2, QuietFrame
  <1>5. CASE NoCut
    <2>1. /\ UNCHANGED <<now, heard, batch, speech, lastSpeechAt, chunker, current>>
          /\ pc = "cut" /\ pc' = "read" /\ cut = "None"
      BY <1>5 DEF NoCut, inputVars, audioVars, sessionVars
    <2>2. current # NoChunk => chunker.silence < SilenceToCut
      <3> SUFFICES ASSUME current # NoChunk PROVE chunker.silence < SilenceToCut
        OBVIOUS
      <3>1. chunker.open /\ CutOf(chunker) = "None"
        BY <2>1 DEF FitInv, OpenOK
      <3>2. chunker.hasSpeech /\ chunker.silence \in Nat
        BY <3>1, StreamTypes DEF QuietInv
      <3> QED BY <3>1, <3>2 DEF CutOf
    <2>3. InHand' = InHand
      BY <2>1 DEF InHand
    <2> QED BY <2>1, <2>2, <2>3, QuietFrame
  <1>6. CASE StayInSession \/ GoIdle \/ RolloverFails \/ BeginNext
    <2>1. /\ UNCHANGED <<now, heard, batch, speech, lastSpeechAt, chunker, current>>
          /\ pc = "rollover" /\ (pc' = "feed" \/ (pc' = "retire" /\ speech))
      BY <1>6 DEF StayInSession, GoIdle, RolloverFails, BeginNext, RolloverDue, inputVars,
                  audioVars, sessionVars
    <2>2. InHand' = InHand
      BY <2>1 DEF InHand
    <2> QED BY <2>1, <2>2, QuietFrame
  <1>7. CASE \/ LeaveLoop \/ EndSession \/ WriterFails \/ StopRecording \/ Terminated
             \/ UNCHANGED vars
    <2>1. /\ UNCHANGED <<now, heard, batch, speech, lastSpeechAt, chunker, current>>
          /\ \/ pc' = pc
             \/ pc' = "failed"
             \/ pc \in {"read", "ending"} /\ pc' \in {"ending", "done"}
      BY <1>7 DEF LeaveLoop, EndSession, WriterFails, StopRecording, Terminated, inputVars,
                  audioVars, sessionVars, vars
    <2>2. InHand' = InHand \/ pc' = "failed"
      BY <2>1 DEF InHand
    <2>3. /\ pc' = "retire" => speech
          /\ pc' \in {"read", "rollover"} /\ current' # NoChunk => chunker.silence < SilenceToCut
      BY <2>1 DEF QuietInv
    <2>4. pc = "failed" => pc' = "failed"
      BY <2>1
    <2> QED BY <2>1, <2>2, <2>3, <2>4, QuietFrame
  <1> QED BY <1>1, <1>2, <1>3, <1>4, <1>5, <1>6, <1>7 DEF Next, Writer

(* At the start nothing has been said and no time has passed.                 *)
LEMMA InitQuiet == Init => QuietInv
  <1> SUFFICES ASSUME Init PROVE QuietInv
    OBVIOUS
  <1>1. /\ heard = <<>> /\ pc = "read" /\ now = StartTime /\ lastSpeechAt = StartTime
        /\ current = NoChunk /\ chunker = NewChunker /\ StartTime \in Nat
    BY RecorderAssumption DEF Init, DirNames
  <1>2. Past = 0 /\ Len(heard) = 0 /\ Frames = {} /\ ~InHand
    BY <1>1 DEF Past, InHand, Frames
  <1>3. \A i \in 0..Past : i = 0 /\ SpokenAt(i) = StartTime
    BY <1>2 DEF SpokenAt
  <1>4. ~chunker.open /\ chunker.silence = 0
    BY <1>1 DEF NewChunker
  <1> QED BY <1>1, <1>2, <1>3, <1>4 DEF QuietInv, BatchIsWhole

-----------------------------------------------------------------------------
(* A long quiet parts two sessions.                                           *)

StillQuiet(m) == idle /\ \A q \in Settled : q > m => ~heard[q].speech
Divides(e, i, m) ==
    SpokenAt(i) < e /\ \A j \in Settled : j > m /\ heard[j].speech => e <= heard[j].at

(* After a long quiet the session is idle until somebody talks, and then the  *)
(* next one begins.                                                           *)
GapInv ==
    "rollover" \notin Faults =>
        \A i \in TalkSettled : \A k, m \in Settled :
            k < m /\ LongQuiet(i, k, m) => StillQuiet(m) \/ \E e \in begun : Divides(e, i, m)

(* What is settled while a batch is in hand is what was fed before it; the    *)
(* batch is settled with its session.                                         *)
LEMMA SettlesAre ==
  ASSUME TypeOK, LogInv, QuietInv, pc \in {"rollover", "retire"}, pc' = "feed",
         UNCHANGED <<heard, batch>>
  PROVE  /\ Settled = 1..Past /\ Settled' = Frames /\ Frames = 1..Len(heard)
         /\ Past \in Nat /\ Past <= Len(heard) /\ Len(heard) \in Nat
         /\ \A q \in Frames : /\ q \in Nat
                              /\ q \in 1..Past
                                 \/ (q > Past /\ heard[q].at = now /\ heard[q].speech = speech)
  <1>1. /\ Past \in Nat /\ Past <= Len(heard) /\ Len(heard) \in Nat /\ Frames = 1..Len(heard)
        /\ InHand
    BY StreamTypes DEF Frames, InHand
  <1>2. \A q \in Elems(batch) : q \in 1..Len(heard) /\ q > Past
    BY <1>1 DEF LogInv, BatchIsNext
  <1>3. \A q \in Past+1..Len(heard) :
            q \in Elems(batch) /\ heard[q].at = now /\ heard[q].speech = speech
    BY <1>1 DEF QuietInv, BatchIsWhole
  <1>4. Frames \ Elems(batch) = 1..Past
    BY <1>1, <1>2, <1>3
  <1>5. Settled' = Frames /\ Settled = Frames \ Elems(batch)
    BY DEF Settled, Frames
  <1> QED BY <1>1, <1>3, <1>4, <1>5

(* What a long quiet spans.                                                   *)
LEMMA QuietSpans ==
  ASSUME TypeOK, LogInv, NEW i \in Frames \cup {0}, NEW k \in Frames, NEW m \in Frames, k < m,
         LongQuiet(i, k, m)
  PROVE  /\ i \in Nat /\ k \in Nat /\ m \in Nat /\ i < k /\ i + SilenceToCut <= k
         /\ ~heard[m].speech /\ heard[k].at < heard[m].at
         /\ SpokenAt(i) \in Nat /\ heard[m].at \in Nat
         /\ SpokenAt(i) + IdleRollover <= heard[m].at /\ SpokenAt(i) < heard[m].at
  <1>1. /\ i \in Nat /\ k \in Nat /\ m \in Nat
        /\ SilenceToCut \in Nat \ {0} /\ IdleRollover \in Nat \ {0}
    BY StreamTypes
  <1>2. SpokenAt(i) \in Nat /\ heard[m].at \in Nat
    BY StreamTypes
  <1>3. /\ i + SilenceToCut <= k /\ \A q \in i+1..m : ~heard[q].speech
        /\ heard[k].at < heard[m].at /\ SpokenAt(i) + IdleRollover <= heard[m].at
    BY DEF LongQuiet
  <1>4. m \in i+1..m
    BY <1>1, <1>3
  <1> QED BY <1>1, <1>2, <1>3, <1>4

(* A step that settles nothing and begins nothing parts nothing anew.         *)
LEMMA GapFrame ==
  ASSUME TypeOK, GapInv, \A i \in Frames : heard'[i] = heard[i],
         Settled' \subseteq Settled, Settled \subseteq Frames,
         UNCHANGED <<begun, idle>>
  PROVE  GapInv'
  <1> SUFFICES ASSUME "rollover" \notin Faults,
                      NEW i \in TalkSettled', NEW k \in Settled', NEW m \in Settled',
                      k < m, LongQuiet(i, k, m)'
               PROVE  (StillQuiet(m) \/ \E e \in begun : Divides(e, i, m))'
    BY DEF GapInv
  <1>1. Frames \subseteq Nat
    BY SaidTimes
  <1>2. i \in TalkSettled /\ i \in Nat /\ SpokenAt(i)' = SpokenAt(i)
    <2>1. i = 0 \/ (i \in Settled' /\ heard'[i].speech)
      BY DEF TalkSettled
    <2>2. i = 0 \/ (i \in Settled /\ i \in Nat /\ heard'[i] = heard[i])
      BY <1>1, <2>1
    <2> QED BY <2>1, <2>2 DEF TalkSettled, SpokenAt
  <1>3. k \in Frames /\ m \in Frames /\ heard'[k] = heard[k] /\ heard'[m] = heard[m]
    OBVIOUS
  <1>4. \A q \in i+1..m : q \in Frames
    BY <1>1, <1>2, <1>3 DEF Frames
  <1>5. LongQuiet(i, k, m)
    BY <1>2, <1>3, <1>4 DEF LongQuiet
  <1>6. CASE StillQuiet(m)
    BY <1>6 DEF StillQuiet
  <1>7. CASE \E e \in begun : Divides(e, i, m)
    BY <1>2, <1>7 DEF Divides
  <1> QED BY <1>2, <1>3, <1>5, <1>6, <1>7 DEF GapInv

(* Staying in the session, awake or asleep: a batch of silence that completes *)
(* a long quiet puts the session to sleep, and no talk wakes it here.         *)
LEMMA GapStay ==
  ASSUME TypeOK, LogInv, FiledInv, QuietInv, GapInv, StayInSession \/ GoIdle
  PROVE  GapInv'
  <1>1. /\ UNCHANGED <<heard, batch, begun, now, speech, lastSpeechAt, current>>
        /\ pc = "rollover" /\ pc' = "feed"
    BY DEF StayInSession, GoIdle, inputVars, audioVars, sessionVars, storeVars
  <1>2. /\ idle => idle'
        /\ speech => ~idle
        /\ IdleDue => idle'
    <2>1. CASE StayInSession
      BY <2>1 DEF StayInSession, RolloverDue, sessionVars
    <2>2. CASE GoIdle
      <3>1. idle' = TRUE /\ ~speech
        BY <2>2 DEF GoIdle, IdleDue
      <3> QED BY <3>1
    <2> QED BY <2>1, <2>2
  <1>3. /\ Settled = 1..Past /\ Settled' = Frames /\ Frames = 1..Len(heard)
        /\ Past \in Nat /\ Past <= Len(heard) /\ Len(heard) \in Nat
        /\ \A q \in Frames : /\ q \in Nat
                             /\ q \in 1..Past
                                \/ (q > Past /\ heard[q].at = now /\ heard[q].speech = speech)
    BY <1>1, SettlesAre
  <1> SUFFICES ASSUME "rollover" \notin Faults,
                      NEW i \in TalkSettled', NEW k \in Frames, NEW m \in Frames,
                      k < m, LongQuiet(i, k, m)
               PROVE  StillQuiet(m)' \/ \E e \in begun : Divides(e, i, m)'
    BY <1>1, <1>3 DEF GapInv, LongQuiet, SpokenAt
  <1>4. i \in Frames \cup {0} /\ (i = 0 \/ heard[i].speech)
    BY <1>1, <1>3 DEF TalkSettled
  <1>5. /\ i \in Nat /\ k \in Nat /\ m \in Nat /\ i < k /\ i + SilenceToCut <= k
        /\ ~heard[m].speech /\ heard[k].at < heard[m].at
        /\ SpokenAt(i) \in Nat /\ heard[m].at \in Nat
        /\ SpokenAt(i) + IdleRollover <= heard[m].at
    BY <1>4, QuietSpans
  <1>6. SpokenAt(i)' = SpokenAt(i)
    BY <1>1 DEF SpokenAt
  <1>7. CASE m \in 1..Past
    <2>1. k \in Settled /\ m \in Settled /\ i \in TalkSettled
      BY <1>3, <1>4, <1>5, <1>7 DEF TalkSettled
    <2>2. StillQuiet(m) \/ \E e \in begun : Divides(e, i, m)
      BY <2>1 DEF GapInv
    <2>3. CASE StillQuiet(m)
      <3>1. idle' /\ ~speech
        BY <1>2, <2>3 DEF StillQuiet
      <3>2. \A q \in Frames : q > m => ~heard[q].speech
        BY <1>3, <2>3, <3>1 DEF StillQuiet
      <3> QED BY <1>1, <1>3, <3>1, <3>2 DEF StillQuiet
    <2>4. CASE \E e \in begun : Divides(e, i, m)
      <3>1. PICK e \in begun : Divides(e, i, m)
        BY <2>4
      <3>2. e <= now
        <4>1. e \in Nat /\ dir \in Nat /\ now \in Nat /\ e <= dir /\ dir <= now
          BY Times, SaidTimes DEF FiledInv
        <4> QED BY <4>1
      <3>3. \A j \in Frames : j > m /\ heard[j].speech => e <= heard[j].at
        BY <1>3, <3>1, <3>2 DEF Divides
      <3>4. Divides(e, i, m)'
        BY <1>1, <1>3, <1>6, <3>1, <3>3 DEF Divides
      <3> QED BY <3>4
    <2> QED BY <2>2, <2>3, <2>4
  <1>8. CASE m > Past /\ heard[m].at = now /\ heard[m].speech = speech
    <2>1. ~speech /\ now \in Nat
      BY <1>5, <1>8, Times
    <2>2. k \in 1..Past
      BY <1>3, <1>5, <1>8, <2>1
    <2>3. QuietSince(i)
      <3>1. \A q \in i+1..Past : q \in i+1..m
        BY <1>3, <1>5, <1>8
      <3>2. \A q \in i+1..Past : ~heard[q].speech
        BY <3>1 DEF LongQuiet
      <3>3. i = 0 \/ (i \in 1..Past /\ heard[i].speech)
        BY <1>3, <1>4, <1>5, <2>2
      <3> QED BY <3>2, <3>3 DEF QuietSince
    <2>4. i \in 0..Past
      BY <1>3, <1>5, <2>2
    <2>5. chunker.silence >= Past - i /\ lastSpeechAt = SpokenAt(i)
      BY <1>1, <2>1, <2>3, <2>4 DEF QuietInv
    <2>6. current = NoChunk
      <3>1. chunker.silence \in Nat /\ SilenceToCut \in Nat
        BY StreamTypes
      <3>2. ~(chunker.silence < SilenceToCut)
        BY <1>3, <1>5, <2>2, <2>5, <3>1
      <3> QED BY <1>1, <3>2 DEF QuietInv
    <2>7. now - lastSpeechAt >= IdleRollover
      BY <1>5, <1>8, <2>1, <2>5
    <2>8. idle'
      BY <1>2, <2>1, <2>6, <2>7 DEF IdleDue
    <2>9. \A q \in Frames : q > m => ~heard[q].speech
      BY <1>3, <1>5, <1>8, <2>1
    <2> QED BY <1>1, <1>3, <2>8, <2>9 DEF StillQuiet
  <1> QED BY <1>3, <1>7, <1>8

(* The switch: the session that begins now parts every quiet it ends from     *)
(* the talk that ends it.                                                     *)
LEMMA GapSwitch ==
  ASSUME TypeOK, LogInv, FiledInv, QuietInv, GapInv, RetireSession
  PROVE  GapInv'
  <1>1. /\ UNCHANGED <<heard, batch, now, speech>>
        /\ pc = "retire" /\ pc' = "feed" /\ begun' = begun \cup {now} /\ speech
    BY DEF RetireSession, inputVars, QuietInv
  <1>2. /\ Settled = 1..Past /\ Settled' = Frames /\ Frames = 1..Len(heard)
        /\ Past \in Nat /\ Past <= Len(heard) /\ Len(heard) \in Nat
        /\ \A q \in Frames : /\ q \in Nat
                             /\ q \in 1..Past
                                \/ (q > Past /\ heard[q].at = now /\ heard[q].speech = speech)
    BY <1>1, SettlesAre
  <1> SUFFICES ASSUME "rollover" \notin Faults,
                      NEW i \in TalkSettled', NEW k \in Frames, NEW m \in Frames,
                      k < m, LongQuiet(i, k, m)
               PROVE  \E e \in begun \cup {now} : Divides(e, i, m)'
    BY <1>1, <1>2 DEF GapInv, LongQuiet, SpokenAt
  <1>3. i \in Frames \cup {0} /\ (i = 0 \/ heard[i].speech)
    BY <1>1, <1>2 DEF TalkSettled
  <1>4. /\ i \in Nat /\ k \in Nat /\ m \in Nat /\ i < k
        /\ ~heard[m].speech /\ SpokenAt(i) \in Nat /\ heard[m].at \in Nat
        /\ SpokenAt(i) < heard[m].at
    BY <1>3, QuietSpans
  <1>5. SpokenAt(i)' = SpokenAt(i)
    BY <1>1 DEF SpokenAt
  <1>6. m \in 1..Past
    BY <1>1, <1>2, <1>4
  <1>7. k \in Settled /\ m \in Settled /\ i \in TalkSettled
    BY <1>2, <1>3, <1>4, <1>6 DEF TalkSettled
  <1>8. StillQuiet(m) \/ \E e \in begun : Divides(e, i, m)
    BY <1>7 DEF GapInv
  <1>9. CASE StillQuiet(m)
    <2>1. SpokenAt(i) < now
      <3>1. heard[m].at <= now /\ now \in Nat
        BY Times DEF QuietInv
      <3> QED BY <1>4, <3>1
    <2>2. \A j \in Frames : j > m /\ heard[j].speech => now <= heard[j].at
      <3>1. now \in Nat
        BY Times
      <3> QED BY <1>2, <1>9, <3>1 DEF StillQuiet
    <2>3. PICK e \in begun \cup {now} : e = now
      OBVIOUS
    <2>4. Divides(e, i, m)'
      BY <1>1, <1>2, <1>5, <2>1, <2>2, <2>3 DEF Divides
    <2> QED BY <2>4
  <1>10. CASE \E e \in begun : Divides(e, i, m)
    <2>1. PICK e \in begun : Divides(e, i, m)
      BY <1>10
    <2>2. e <= now
      <3>1. e \in Nat /\ dir \in Nat /\ now \in Nat /\ e <= dir /\ dir <= now
        BY Times, SaidTimes DEF FiledInv
      <3> QED BY <3>1
    <2>3. \A j \in Frames : j > m /\ heard[j].speech => e <= heard[j].at
      BY <1>2, <2>1, <2>2 DEF Divides
    <2>4. Divides(e, i, m)'
      BY <1>1, <1>2, <1>5, <2>1, <2>3 DEF Divides
    <2> QED BY <2>4
  <1> QED BY <1>8, <1>9, <1>10

(* The steps that settle no batch, begin no session, and neither wake nor     *)
(* sleep.                                                                     *)
Unsettling ==
    \/ Read \/ BeginNext \/ RetireChunk \/ CloseLast \/ CutChunk \/ Feed \/ NoCut
    \/ LeaveLoop \/ EndSession \/ WriterFails \/ StopRecording \/ Terminated
    \/ UNCHANGED vars

(* They lose nothing that was heard, and time does not run backwards.         *)
LEMMA UnsettlingKeeps ==
  ASSUME TypeOK, Unsettling
  PROVE  /\ \A i \in Frames : heard'[i] = heard[i]
         /\ Settled' \subseteq Settled /\ Settled \subseteq Frames
         /\ UNCHANGED <<begun, idle, dir>> /\ now <= now'
         /\ pc = "done" => pc' = "done"
  <1>1. Settled \subseteq Frames /\ now \in Nat
    BY Times DEF Settled
  <1>2. CASE Read
    <2>1. PICK n \in BatchSizes, spoken \in BOOLEAN, step \in ClockSteps :
              ReadBatch(n, spoken, step)
      BY <1>2 DEF Read
    <2>2. /\ n \in Nat \ {0} /\ Len(heard) \in Nat /\ Len(heard') = Len(heard) + n
          /\ \A i \in Frames : heard'[i] = heard[i]
          /\ Len(batch') = n /\ \A i \in 1..n : batch'[i] = Len(heard) + i
          /\ pc = "read" /\ pc' = "rollover"
          /\ now' = now + step /\ now \in Nat /\ step \in Nat
          /\ UNCHANGED <<dir, idle, begun>>
      BY <2>1, ReadKeeps
    <2>3. Settled = Frames /\ Settled' = (1..Len(heard')) \ Elems(batch')
      BY <2>2 DEF Settled, Frames, Elems
    <2>4. ASSUME NEW q \in 1..Len(heard'), q > Len(heard)
          PROVE  q \in Elems(batch')
      <3>1. q - Len(heard) \in 1..n /\ Len(heard) + (q - Len(heard)) = q
        BY <2>2, <2>4
      <3>2. batch'[q - Len(heard)] = q
        BY <2>2, <3>1
      <3> QED BY <2>2, <3>1, <3>2 DEF Elems
    <2>5. Settled' \subseteq Settled
      BY <2>2, <2>3, <2>4 DEF Frames
    <2> QED BY <1>1, <2>2, <2>5
  <1>3. CASE ~Read
    <2>1. UNCHANGED <<now, heard, batch>>
      BY <1>3 DEF Unsettling, BeginNext, RetireChunk, CloseLast, CutChunk, Feed, NoCut, LeaveLoop,
                  EndSession, WriterFails, StopRecording, Terminated, inputVars, vars
    <2>2. UNCHANGED <<begun, idle, dir>>
      BY <1>3 DEF Unsettling, BeginNext, RetireChunk, CloseLast, CutChunk, Feed, NoCut, LeaveLoop,
                  EndSession, WriterFails, StopRecording, Terminated, sessionVars, storeVars, vars
    <2>3. /\ pc \in {"rollover", "retire", "failed"} => pc' \in {"rollover", "retire", "failed"}
          /\ pc = "done" => pc' = "done"
      BY <1>3 DEF Unsettling, BeginNext, RetireChunk, CloseLast, CutChunk, Feed, NoCut, LeaveLoop,
                  EndSession, WriterFails, StopRecording, Terminated, vars
    <2>4. Settled' \subseteq Settled
      BY <2>1, <2>3 DEF Settled, Frames, Elems
    <2> QED BY <1>1, <2>1, <2>2, <2>3, <2>4
  <1> QED BY <1>2, <1>3

(* Every step keeps the long quiets between sessions.                         *)
LEMMA GapStep ==
  ASSUME TypeOK, LogInv, FiledInv, QuietInv, GapInv, [Next]_vars
  PROVE  GapInv'
  <1>1. CASE StayInSession \/ GoIdle
    BY <1>1, GapStay
  <1>2. CASE RetireSession
    BY <1>2, GapSwitch
  <1>3. CASE RolloverFails
    BY <1>3 DEF RolloverFails, GapInv
  <1>4. CASE Unsettling
    BY <1>4, UnsettlingKeeps, GapFrame
  <1> QED BY <1>1, <1>2, <1>3, <1>4 DEF Next, Writer, Unsettling

(* At the start nothing has been heard.                                       *)
LEMMA InitGap == Init => GapInv
  <1> SUFFICES ASSUME Init PROVE GapInv
    OBVIOUS
  <1>1. Frames = {}
    BY DEF Init, Frames
  <1>2. Settled = {}
    BY <1>1 DEF Settled
  <1> QED BY <1>2 DEF GapInv

(* While no rollover fails, a conversation after a long quiet is another      *)
(* session: one begins after the talk before the quiet and no later than the  *)
(* talk that ends it, however the clock and the batches fall (record).        *)
THEOREM QuietsSplit == Spec => []IdleGapSplits
  <1>1. TypeOK /\ LogInv /\ GapInv => IdleGapSplits
    <2> SUFFICES ASSUME TypeOK, LogInv, GapInv, "rollover" \notin Faults,
                        NEW i \in Talk, NEW j \in Talk,
                        NEW k \in (i+1..j-1) \ InFlight, NEW m \in (i+1..j-1) \ InFlight,
                        k < m, LongQuiet(i, k, m)
                 PROVE  \E d \in begun : SpokenAt(i) < d /\ d <= heard[j].at
      BY DEF IdleGapSplits
    <2>1. Frames \ InFlight \subseteq Settled
      BY DEF InFlight, Settled
    <2>2. /\ i \in TalkSettled /\ i \in Nat /\ j \in Nat
          /\ j = 0 \/ (j \in Settled /\ heard[j].speech)
      BY <2>1, StreamTypes DEF Talk, TalkSettled
    <2>3. j > m /\ m \in Nat /\ k \in Nat /\ k > 0 /\ m > 0 /\ j \in Settled /\ heard[j].speech
      BY <2>2
    <2>4. k \in Settled /\ m \in Settled
      <3>1. j \in 1..Len(heard) /\ Len(heard) \in Nat
        BY <2>3, StreamTypes DEF Settled, Frames
      <3>2. k \in Frames /\ m \in Frames
        BY <2>2, <2>3, <3>1 DEF Frames
      <3> QED BY <2>1, <3>2
    <2>5. StillQuiet(m) \/ \E e \in begun : Divides(e, i, m)
      BY <2>2, <2>4 DEF GapInv
    <2> QED BY <2>3, <2>5 DEF StillQuiet, Divides
  <1>2. Init => LogInv
    BY InitLog
  <1>3. TypeOK /\ FitInv /\ SessionInv /\ LogInv /\ [Next]_vars => LogInv'
    BY LogStep
  <1> QED BY <1>1, <1>2, <1>3, InitType, TypeStep, InitFits, FitStep, InitSession, SessionStep,
             InitFiled, FiledStep, InitQuiet, QuietKept, InitGap, GapStep, PTL DEF Spec

-----------------------------------------------------------------------------
(* A session's end is stamped when its talk stopped.                          *)

NearTalk(i, stamp) ==
    /\ SpokenAt(i) <= stamp
    /\ \A k, m \in Settled : k < m /\ LongQuiet(i, k, m) => stamp <= heard[m].at

(* A session that bears a stamp is over, asleep or the last, and the stamp    *)
(* came after its talk and before a long quiet went on.                       *)
StampInv ==
    "rollover" \notin Faults =>
        \A d \in DirNames : index[d].ended # Never =>
            /\ d \in begun /\ index[d].ended \in Nat /\ index[d].ended <= now
            /\ d # dir \/ idle \/ pc = "done"
            /\ \A i \in TalkSettled : SpokenIn(i, d) => NearTalk(i, index[d].ended)

(* finish_session stamps the row it is given with now, or leaves it.          *)
LEMMA FinishStamps ==
  ASSUME TypeOK, NEW n \in Nat, FinishSession(n)
  PROVE  /\ \A d \in DirNames : d # dir => index'[d].ended = index[d].ended
         /\ index'[dir].ended \in {index[dir].ended, now}
  <1>1. index \in [DirNames -> Row] /\ dir \in DirNames /\ now \in DirNames
    BY DEF TypeOK
  <1>2. PICK ok \in Outcomes("index") : index' = IF ok THEN FinishRow(index, dir, n) ELSE index
    BY DEF FinishSession
  <1>3. CASE ok /\ index[dir].row
    BY <1>1, <1>2, <1>3, FinishRowIs
  <1>4. CASE ~(ok /\ index[dir].row)
    <2>1. index' = index
      BY <1>2, <1>4 DEF FinishRow
    <2> QED BY <2>1
  <1> QED BY <1>3, <1>4

(* No other step stamps a row.                                                *)
LEMMA UnsettlingStamps ==
  ASSUME TypeOK, Unsettling, ~EndSession
  PROVE  \A d \in DirNames : index'[d].ended = index[d].ended
  <1>1. index \in [DirNames -> Row] /\ dir \in DirNames /\ now \in DirNames
    BY DEF TypeOK
  <1>2. ASSUME NEW e \in DirNames, NEW d \in DirNames
        PROVE  [index EXCEPT ![e].row = TRUE][d].ended = index[d].ended
    BY <1>1 DEF Row
  <1>4. ASSUME NEW c, FinishChunk(c)
        PROVE  \A d \in DirNames : index'[d].ended = index[d].ended
    <2>1. CASE IsRunt(c)
      BY <1>4, <2>1 DEF FinishChunk
    <2>2. CASE ~IsRunt(c)
      <3>1. PICK ok \in Outcomes("index") :
                index' = IF ok THEN RecordRow(index, dir, c.index) ELSE index
        BY <1>4, <2>2 DEF FinishChunk
      <3>2. index' = index \/ index' = [index EXCEPT ![dir].chunks = @ \cup {c.index}]
        BY <3>1 DEF RecordRow
      <3> QED BY <1>1, <3>2 DEF Row
    <2> QED BY <2>1, <2>2
  <1>5. CASE RetireChunk \/ CloseLast \/ CutChunk
    <2>1. PICK c : FinishChunk(c)
      BY <1>5 DEF RetireChunk, CloseLast, CutChunk
    <2> QED BY <1>4, <2>1
  <1>6. CASE BeginNext
    <2>1. index' = index \/ index' = [index EXCEPT ![now].row = TRUE]
      BY <1>6 DEF BeginNext, StartRow
    <2> QED BY <1>1, <1>2, <2>1
  <1>7. CASE Read
    BY <1>7 DEF Read, ReadBatch, storeVars
  <1>8. CASE \/ Feed \/ NoCut \/ LeaveLoop \/ WriterFails \/ StopRecording \/ Terminated
             \/ UNCHANGED vars
    BY <1>8 DEF Feed, NoCut, LeaveLoop, WriterFails, StopRecording, Terminated, storeVars, vars
  <1> QED BY <1>5, <1>6, <1>7, <1>8 DEF Unsettling

(* Where nothing is settled, a stamp stays near the talk.                     *)
LEMMA NearStays ==
  ASSUME TypeOK, \A i \in Frames : heard'[i] = heard[i],
         Settled' \subseteq Settled, Settled \subseteq Frames,
         NEW i \in TalkSettled'
  PROVE  /\ i \in TalkSettled /\ SpokenAt(i)' = SpokenAt(i)
         /\ \A stamp : NearTalk(i, stamp) => NearTalk(i, stamp)'
  <1>1. Frames \subseteq Nat
    BY SaidTimes
  <1>2. i \in TalkSettled /\ i \in Nat /\ SpokenAt(i)' = SpokenAt(i)
    <2>1. i = 0 \/ (i \in Settled' /\ heard'[i].speech)
      BY DEF TalkSettled
    <2>2. i = 0 \/ (i \in Settled /\ i \in Nat /\ heard'[i] = heard[i])
      BY <1>1, <2>1
    <2> QED BY <2>1, <2>2 DEF TalkSettled, SpokenAt
  <1>3. ASSUME NEW stamp, NearTalk(i, stamp), NEW k \in Settled', NEW m \in Settled',
               k < m, LongQuiet(i, k, m)'
        PROVE  stamp <= heard'[m].at
    <2>1. k \in Frames /\ m \in Frames /\ heard'[k] = heard[k] /\ heard'[m] = heard[m]
      OBVIOUS
    <2>2. \A q \in i+1..m : q \in Frames
      BY <1>1, <1>2, <2>1 DEF Frames
    <2>3. LongQuiet(i, k, m)
      BY <1>2, <1>3, <2>1, <2>2 DEF LongQuiet
    <2> QED BY <1>3, <2>1, <2>3 DEF NearTalk
  <1>4. \A stamp : NearTalk(i, stamp) => NearTalk(i, stamp)'
    BY <1>2, <1>3 DEF NearTalk
  <1> QED BY <1>2, <1>4

(* A session cannot end while somebody talks in it: a session under way that  *)
(* is awake has no long quiet after its talk.                                 *)
LEMMA AwakeIsNear ==
  ASSUME TypeOK, FiledInv, GapInv, "rollover" \notin Faults, ~idle,
         NEW i \in TalkSettled, SpokenIn(i, dir), SpokenAt(i) \in Nat
  PROVE  \A k, m \in Settled : k < m => ~LongQuiet(i, k, m)
  <1> SUFFICES ASSUME NEW k \in Settled, NEW m \in Settled, k < m, LongQuiet(i, k, m)
               PROVE  FALSE
    OBVIOUS
  <1>1. PICK e \in begun : Divides(e, i, m)
    BY DEF GapInv, StillQuiet
  <1>2. e \in Nat /\ dir \in Nat /\ e <= dir /\ dir <= SpokenAt(i) /\ SpokenAt(i) < e
    BY <1>1, Times, SaidTimes DEF FiledInv, SpokenIn, Divides
  <1> QED BY <1>2

(* A step that settles nothing and stamps nothing.                            *)
LEMMA StampFrame ==
  ASSUME TypeOK, StampInv, Unsettling, ~EndSession
  PROVE  StampInv'
  <1>1. /\ \A i \in Frames : heard'[i] = heard[i]
        /\ Settled' \subseteq Settled /\ Settled \subseteq Frames
        /\ UNCHANGED <<begun, idle, dir>> /\ now <= now'
        /\ pc = "done" => pc' = "done"
    BY UnsettlingKeeps
  <1> SUFFICES ASSUME "rollover" \notin Faults, NEW d \in DirNames, index'[d].ended # Never
               PROVE  /\ d \in begun /\ index'[d].ended \in Nat /\ index'[d].ended <= now'
                      /\ d # dir \/ idle \/ pc' = "done"
                      /\ \A i \in TalkSettled' : SpokenIn(i, d)' => NearTalk(i, index[d].ended)'
    BY <1>1 DEF StampInv
  <1>2. PICK stamp : stamp = index[d].ended
    OBVIOUS
  <1>3. index'[d].ended = stamp /\ stamp # Never
    BY <1>2, UnsettlingStamps
  <1>4. /\ d \in begun /\ stamp \in Nat /\ stamp <= now
        /\ d # dir \/ idle \/ pc = "done"
        /\ \A i \in TalkSettled : SpokenIn(i, d) => NearTalk(i, stamp)
    BY <1>2, <1>3 DEF StampInv
  <1>5. stamp <= now'
    <2>1. now \in Nat /\ (now' = now \/ now' \in Nat)
      <3>1. CASE Read
        <4>1. PICK n \in BatchSizes, spoken \in BOOLEAN, step \in ClockSteps :
                  ReadBatch(n, spoken, step)
          BY <3>1 DEF Read
        <4> QED BY <4>1, ReadKeeps
      <3>2. CASE ~Read
        BY <3>2, Times DEF Unsettling, BeginNext, RetireChunk, CloseLast, CutChunk, Feed, NoCut,
               LeaveLoop, WriterFails, StopRecording, Terminated, inputVars, vars
      <3> QED BY <3>1, <3>2, Times
    <2> QED BY <1>1, <1>4, <2>1
  <1>6. ASSUME NEW i \in TalkSettled', SpokenIn(i, d)'
        PROVE  NearTalk(i, stamp)'
    <2>1. i \in TalkSettled /\ SpokenAt(i)' = SpokenAt(i)
          /\ (NearTalk(i, stamp) => NearTalk(i, stamp)')
      BY <1>1, NearStays
    <2>2. SpokenIn(i, d)
      BY <1>1, <1>6, <2>1 DEF SpokenIn
    <2> QED BY <1>4, <2>1, <2>2
  <1>7. \A i \in TalkSettled' : SpokenIn(i, d)' => NearTalk(i, index[d].ended)'
    BY <1>3, <1>6
  <1> QED BY <1>1, <1>3, <1>4, <1>5, <1>7

(* The session under way ends for good.                                       *)
LEMMA StampEnd ==
  ASSUME TypeOK, LogInv, FiledInv, QuietInv, GapInv, StampInv, EndSession
  PROVE  StampInv'
  <1>1. /\ pc = "ending" /\ pc' = "done"
        /\ UNCHANGED <<heard, batch, now, begun, dir, idle>>
        /\ IF idle THEN UNCHANGED index ELSE FinishSession(kept)
    BY DEF EndSession, inputVars, sessionVars
  <1>2. Settled' = Settled /\ Settled = Frames /\ TalkSettled' = TalkSettled
    BY <1>1 DEF Settled, TalkSettled, Frames
  <1>3. kept \in Nat /\ dir \in DirNames /\ now \in Nat /\ idle \in BOOLEAN /\ dir \in begun
    BY Times DEF TypeOK, FiledInv
  <1>4. /\ \A d \in DirNames : d # dir => index'[d].ended = index[d].ended
        /\ index'[dir].ended = index[dir].ended \/ (~idle /\ index'[dir].ended = now)
    <2>1. CASE idle
      BY <1>1, <2>1
    <2>2. CASE ~idle
      BY <1>1, <1>3, <2>2, FinishStamps
    <2> QED BY <1>3, <2>1, <2>2
  <1> SUFFICES ASSUME "rollover" \notin Faults, NEW d \in DirNames, index'[d].ended # Never
               PROVE  /\ d \in begun /\ index'[d].ended \in Nat /\ index'[d].ended <= now
                      /\ \A i \in TalkSettled : SpokenIn(i, d) => NearTalk(i, index'[d].ended)
    BY <1>1, <1>2 DEF StampInv, SpokenIn, SpokenAt, NearTalk, LongQuiet
  <1>5. CASE index'[d].ended = index[d].ended
    BY <1>5 DEF StampInv
  <1>6. CASE d = dir /\ ~idle /\ index'[dir].ended = now
    <2>1. ASSUME NEW i \in TalkSettled, SpokenIn(i, dir) PROVE NearTalk(i, now)
      <3>1. i \in Frames \cup {0}
        BY <1>2 DEF TalkSettled
      <3>2. SpokenAt(i) \in Nat /\ SpokenAt(i) <= now
        BY <3>1, StreamTypes DEF QuietInv, SpokenAt
      <3>3. \A k, m \in Settled : k < m => ~LongQuiet(i, k, m)
        BY <1>6, <2>1, <3>2, AwakeIsNear
      <3> QED BY <3>2, <3>3 DEF NearTalk
    <2> QED BY <1>3, <1>6, <2>1
  <1> QED BY <1>4, <1>5, <1>6

(* A batch that settles is heard now, so it is no quiet that went on before.  *)
LEMMA NearSettles ==
  ASSUME TypeOK, LogInv, QuietInv, pc \in {"rollover", "retire"}, pc' = "feed",
         UNCHANGED <<heard, batch>>,
         NEW i \in TalkSettled', NEW stamp \in Nat, stamp <= now
  PROVE  /\ i \in Frames \cup {0} /\ SpokenAt(i) \in Nat /\ SpokenAt(i)' = SpokenAt(i)
         /\ SpokenAt(i) <= now
         /\ i \in TalkSettled \/ (speech /\ SpokenAt(i) = now)
         /\ i \in TalkSettled /\ NearTalk(i, stamp) => NearTalk(i, stamp)'
  <1>1. /\ Settled = 1..Past /\ Settled' = Frames /\ Frames = 1..Len(heard)
        /\ Past \in Nat /\ Past <= Len(heard) /\ Len(heard) \in Nat
        /\ \A q \in Frames : /\ q \in Nat
                             /\ q \in 1..Past
                                \/ (q > Past /\ heard[q].at = now /\ heard[q].speech = speech)
    BY SettlesAre
  <1>2. i = 0 \/ (i \in Frames /\ heard[i].speech)
    BY <1>1 DEF TalkSettled
  <1>3. SpokenAt(i)' = SpokenAt(i)
    BY DEF SpokenAt
  <1>4. SpokenAt(i) \in Nat /\ SpokenAt(i) <= now
    BY <1>2, StreamTypes DEF QuietInv, SpokenAt
  <1>5. i \in TalkSettled \/ (speech /\ SpokenAt(i) = now)
    <2> SUFFICES ASSUME i \notin TalkSettled PROVE speech /\ SpokenAt(i) = now
      OBVIOUS
    <2>1. i # 0 /\ i \in Frames /\ heard[i].speech /\ i \notin 1..Past
      BY <1>1, <1>2 DEF TalkSettled
    <2> QED BY <1>1, <2>1 DEF SpokenAt
  <1>6. ASSUME NearTalk(i, stamp), NEW k \in Frames, NEW m \in Frames, k < m, LongQuiet(i, k, m)
        PROVE  stamp <= heard[m].at
    <2>1. CASE m \in 1..Past
      <3>1. k \in Settled /\ m \in Settled
        BY <1>1, <1>6, <2>1
      <3> QED BY <1>6, <3>1 DEF NearTalk
    <2>2. CASE heard[m].at = now
      BY <2>2
    <2> QED BY <1>1, <2>1, <2>2
  <1>7. NearTalk(i, stamp) => NearTalk(i, stamp)'
    BY <1>1, <1>3, <1>6 DEF NearTalk, LongQuiet
  <1> QED BY <1>2, <1>3, <1>4, <1>5, <1>7

(* Staying in the session: talk is never in a session that was stamped, and a *)
(* session that falls asleep is stamped now, before any long quiet went on.   *)
LEMMA StampStay ==
  ASSUME TypeOK, LogInv, FiledInv, QuietInv, GapInv, StampInv, StayInSession \/ GoIdle
  PROVE  StampInv'
  <1>1. /\ UNCHANGED <<heard, batch, begun, now, speech, dir>>
        /\ pc = "rollover" /\ pc' = "feed"
    BY DEF StayInSession, GoIdle, inputVars, audioVars, sessionVars, storeVars
  <1>2. /\ Settled = 1..Past /\ Settled' = Frames /\ Frames = 1..Len(heard)
        /\ Past \in Nat /\ Past <= Len(heard) /\ Len(heard) \in Nat
        /\ \A q \in Frames : /\ q \in Nat
                             /\ q \in 1..Past
                                \/ (q > Past /\ heard[q].at = now /\ heard[q].speech = speech)
    BY <1>1, SettlesAre
  <1>3. /\ kept \in Nat /\ dir \in DirNames /\ dir \in Nat /\ now \in Nat /\ dir \in begun
        /\ dir <= now
    BY Times DEF TypeOK, FiledInv
  <1>4. /\ \A d \in DirNames : d # dir => index'[d].ended = index[d].ended
        /\ \/ index'[dir].ended = index[dir].ended
           \/ ~idle /\ ~speech /\ idle' /\ index'[dir].ended = now
        /\ idle => idle'
        /\ speech => ~idle
    <2>1. CASE StayInSession
      BY <2>1 DEF StayInSession, RolloverDue, sessionVars, storeVars
    <2>2. CASE GoIdle
      <3>1. idle' = TRUE /\ ~speech /\ ~idle
        BY <2>2 DEF GoIdle, IdleDue
      <3>2. index' = index \/ FinishSession(kept)
        BY <2>2 DEF GoIdle
      <3> QED BY <1>3, <3>1, <3>2, FinishStamps
    <2> QED BY <2>1, <2>2
  <1> SUFFICES ASSUME "rollover" \notin Faults, NEW d \in DirNames, index'[d].ended # Never
               PROVE  /\ d \in begun /\ index'[d].ended \in Nat /\ index'[d].ended <= now
                      /\ d # dir \/ idle'
                      /\ \A i \in TalkSettled' : SpokenIn(i, d)' => NearTalk(i, index[d].ended)'
    BY <1>1 DEF StampInv
  <1>5. PICK stamp : stamp = index'[d].ended
    OBVIOUS
  <1>6. \/ stamp = index[d].ended
        \/ d = dir /\ ~idle /\ ~speech /\ idle' /\ stamp = now
    BY <1>4, <1>5
  <1>7. stamp = index[d].ended =>
            /\ d \in begun /\ stamp \in Nat /\ stamp <= now
            /\ d # dir \/ idle
            /\ \A i \in TalkSettled : SpokenIn(i, d) => NearTalk(i, stamp)
    BY <1>1, <1>5 DEF StampInv
  <1>8. d \in begun /\ stamp \in Nat /\ stamp <= now /\ (d # dir \/ idle')
    BY <1>3, <1>4, <1>6, <1>7
  <1>9. ASSUME NEW i \in TalkSettled', SpokenIn(i, d)'
        PROVE  NearTalk(i, stamp)'
    <2>1. /\ i \in Frames \cup {0} /\ SpokenAt(i) \in Nat /\ SpokenAt(i)' = SpokenAt(i)
          /\ SpokenAt(i) <= now
          /\ i \in TalkSettled \/ (speech /\ SpokenAt(i) = now)
          /\ i \in TalkSettled /\ NearTalk(i, stamp) => NearTalk(i, stamp)'
      BY <1>1, <1>8, NearSettles
    <2>2. SpokenIn(i, d)
      BY <1>1, <1>9, <2>1 DEF SpokenIn
    <2>3. i \in TalkSettled
      <3> SUFFICES ASSUME speech, SpokenAt(i) = now PROVE FALSE
        BY <2>1
      <3>1. dir <= d /\ d <= dir /\ d \in Nat
        BY <1>3, <1>8, <2>2, SaidTimes DEF SpokenIn, FiledInv
      <3>2. d = dir
        BY <1>3, <3>1
      <3> QED BY <1>4, <1>6, <1>7, <3>2
    <2>4. NearTalk(i, stamp)
      <3>1. CASE stamp = index[d].ended
        BY <1>7, <2>2, <2>3, <3>1
      <3>2. CASE d = dir /\ ~idle /\ stamp = now
        <4>1. \A k, m \in Settled : k < m => ~LongQuiet(i, k, m)
          BY <2>1, <2>2, <2>3, <3>2, AwakeIsNear
        <4> QED BY <2>1, <3>2, <4>1 DEF NearTalk
      <3> QED BY <1>6, <3>1, <3>2
    <2> QED BY <2>1, <2>3, <2>4
  <1> QED BY <1>5, <1>8, <1>9

(* The switch closes the old session; its talk is over, and the next session  *)
(* bears no stamp.                                                            *)
LEMMA StampSwitch ==
  ASSUME TypeOK, SessionInv, LogInv, FiledInv, QuietInv, GapInv, StampInv, RetireSession
  PROVE  StampInv'
  <1>1. /\ UNCHANGED <<heard, batch, now, speech>>
        /\ pc = "retire" /\ pc' = "feed" /\ begun' = begun \cup {now} /\ speech /\ dir' = now
        /\ IF kept = 0 THEN DiscardEmptySession ELSE CloseOldSession
    BY DEF RetireSession, Switch, inputVars, QuietInv
  <1>2. /\ kept \in Nat /\ dir \in DirNames /\ dir \in Nat /\ now \in Nat /\ dir \in begun
        /\ dir < now /\ now \in DirNames /\ \A e \in begun : e <= dir /\ e \in Nat
        /\ index \in [DirNames -> Row]
    BY <1>1, Times, SaidTimes DEF TypeOK, FiledInv, SessionInv, SwitchingDirs
  <1>3. \A d \in DirNames :
            \/ index'[d].ended = Never
            \/ index'[d].ended = index[d].ended
            \/ d = dir /\ ~idle /\ index'[d].ended = now
    <2>1. CASE kept = 0
      <3>1. DiscardEmptySession
        BY <1>1, <2>1
      <3>2. index' = index \/ index' = DeleteRow(index, dir)
        BY <3>1 DEF DiscardEmptySession
      <3> QED BY <1>2, <3>2 DEF DeleteRow, NoRow
    <2>2. CASE kept # 0 /\ idle
      BY <1>1, <2>2 DEF CloseOldSession
    <2>3. CASE kept # 0 /\ ~idle
      <3>1. FinishSession(kept)
        BY <1>1, <2>3 DEF CloseOldSession
      <3> QED BY <1>2, <2>3, <3>1, FinishStamps
    <2> QED BY <2>1, <2>2, <2>3
  <1> SUFFICES ASSUME "rollover" \notin Faults, NEW d \in DirNames, index'[d].ended # Never
               PROVE  /\ d \in begun /\ index'[d].ended \in Nat /\ index'[d].ended <= now
                      /\ \A i \in TalkSettled' : SpokenIn(i, d)' => NearTalk(i, index[d].ended)'
    <2>1. \A d \in begun : d # now
      BY <1>2
    <2> QED BY <1>1, <2>1 DEF StampInv
  <1>4. PICK stamp : stamp = index'[d].ended
    OBVIOUS
  <1>5. stamp = index[d].ended \/ (d = dir /\ ~idle /\ stamp = now)
    BY <1>3, <1>4
  <1>6. stamp = index[d].ended =>
            /\ d \in begun /\ stamp \in Nat /\ stamp <= now
            /\ \A i \in TalkSettled : SpokenIn(i, d) => NearTalk(i, stamp)
    BY <1>4 DEF StampInv
  <1>7. d \in begun /\ stamp \in Nat /\ stamp <= now
    BY <1>2, <1>5, <1>6
  <1>8. ASSUME NEW i \in TalkSettled', SpokenIn(i, d)'
        PROVE  NearTalk(i, stamp)'
    <2>1. /\ i \in Frames \cup {0} /\ SpokenAt(i) \in Nat /\ SpokenAt(i)' = SpokenAt(i)
          /\ SpokenAt(i) <= now
          /\ i \in TalkSettled \/ (speech /\ SpokenAt(i) = now)
          /\ i \in TalkSettled /\ NearTalk(i, stamp) => NearTalk(i, stamp)'
      BY <1>1, <1>7, NearSettles
    <2>2. SpokenIn(i, d) /\ (now <= SpokenAt(i) => now <= d)
      BY <1>1, <1>8, <2>1 DEF SpokenIn
    <2>3. i \in TalkSettled
      <3> SUFFICES ASSUME SpokenAt(i) = now PROVE FALSE
        BY <2>1
      <3>1. now <= d /\ d <= dir /\ d \in Nat
        BY <1>2, <1>7, <2>2
      <3> QED BY <1>2, <3>1
    <2>4. NearTalk(i, stamp)
      <3>1. CASE stamp = index[d].ended
        BY <1>6, <2>2, <2>3, <3>1
      <3>2. CASE d = dir /\ ~idle /\ stamp = now
        <4>1. \A k, m \in Settled : k < m => ~LongQuiet(i, k, m)
          BY <2>1, <2>2, <2>3, <3>2, AwakeIsNear
        <4> QED BY <2>1, <3>2, <4>1 DEF NearTalk
      <3> QED BY <1>5, <3>1, <3>2
    <2> QED BY <2>1, <2>3, <2>4
  <1> QED BY <1>4, <1>7, <1>8

(* Every step keeps the stamps near the talk.                                 *)
LEMMA StampStep ==
  ASSUME TypeOK, SessionInv, LogInv, FiledInv, QuietInv, GapInv, StampInv, [Next]_vars
  PROVE  StampInv'
  <1>1. CASE StayInSession \/ GoIdle
    BY <1>1, StampStay
  <1>2. CASE RetireSession
    BY <1>2, StampSwitch
  <1>3. CASE RolloverFails
    BY <1>3 DEF RolloverFails, StampInv
  <1>4. CASE EndSession
    BY <1>4, StampEnd
  <1>5. CASE Unsettling /\ ~EndSession
    BY <1>5, StampFrame
  <1> QED BY <1>1, <1>2, <1>3, <1>4, <1>5 DEF Next, Writer, Unsettling

(* At the start no session bears a stamp.                                     *)
LEMMA InitStamp == Init => StampInv
  <1> SUFFICES ASSUME Init PROVE StampInv
    OBVIOUS
  <1>1. PICK ok \in Outcomes("index") :
            index = [d \in DirNames |->
                       IF ok /\ d = StartTime THEN [NoRow EXCEPT !.row = TRUE] ELSE NoRow]
    BY DEF Init
  <1>2. NoRow.ended = Never /\ [NoRow EXCEPT !.row = TRUE].ended = Never
    BY DEF NoRow
  <1>3. \A d \in DirNames : index[d].ended = Never
    BY <1>1, <1>2
  <1> QED BY <1>3 DEF StampInv

(* While no rollover fails, the end of a session is stamped no earlier than   *)
(* anything said in it, and no later than the moment the quiet after its talk *)
(* had lasted IDLE_ROLLOVER (finish_session at idle, at a rollover, at the    *)
(* end).                                                                      *)
THEOREM StampsNearTalk == Spec => []EndStampNearTalk
  <1>1. TypeOK /\ StampInv => EndStampNearTalk
    <2> SUFFICES ASSUME TypeOK, StampInv, "rollover" \notin Faults, NEW d \in begun, NEW i \in Talk,
                        index[d].ended # Never, SpokenIn(i, d)
                 PROVE  /\ SpokenAt(i) <= index[d].ended
                        /\ \A k, m \in Frames \ InFlight :
                               k < m /\ LongQuiet(i, k, m) => index[d].ended <= heard[m].at
      BY DEF EndStampNearTalk
    <2>1. Frames \ InFlight \subseteq Settled
      BY DEF InFlight, Settled
    <2>2. i \in TalkSettled /\ d \in DirNames
      BY <2>1 DEF Talk, TalkSettled, TypeOK
    <2>3. NearTalk(i, index[d].ended)
      BY <2>2 DEF StampInv
    <2> QED BY <2>1, <2>3 DEF NearTalk
  <1>2. Init => LogInv
    BY InitLog
  <1>3. TypeOK /\ FitInv /\ SessionInv /\ LogInv /\ [Next]_vars => LogInv'
    BY LogStep
  <1> QED BY <1>1, <1>2, <1>3, InitType, TypeStep, InitFits, FitStep, InitSession, SessionStep,
             InitFiled, FiledStep, InitQuiet, QuietKept, InitGap, GapStep, InitStamp, StampStep,
             PTL DEF Spec
=============================================================================
