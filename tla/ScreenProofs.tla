---------------------------- MODULE ScreenProofs ----------------------------
(* What the drained screen says is where the writer and the transcriber       *)
(* stand, for any bounds: of the session, its idleness, the chunk list, the   *)
(* chunk being written, the one being transcribed and the transcript.  TLC    *)
(* checks them on two sessions, three chunks and a channel of two statuses.   *)
EXTENDS Screen, TLAPS

USE ScreenAssumption

(* What a status of each kind carries.                                        *)
OfChunk == {"ChunkOpened", "ChunkClosed", "ChunkDiscarded", "TranscribeStarted",
            "TranscribeDone", "TranscribeFailed"}
OfNumber == {"SessionStarted", "TranscribeBacklog"}
OfNothing == {"SessionIdle", "Warning", "Finished"}
Status == [kind: OfChunk, what: Chunk] \cup [kind: OfNumber, what: Nat]
              \cup [kind: OfNothing, what: {None}]
              \cup [kind: {"Transcript"}, what: Seq(Line)]

IsApp(a) ==
    a \in [session: Nat, idle: BOOLEAN, current: Nat, chunks: Seq(Chunk),
           warned: BOOLEAN, finished: BOOLEAN, transcribing: Nat \cup {None},
           backlog: Nat, transcribed: Seq(Chunk), transcript: Seq(Line)]

WriterTypes ==
    /\ writer \in {"loop", "closing", "rollover", "ending", "done", "failed"}
    /\ closing \in {"cut", "rollover", "ending", None}
    /\ ses \in Nat /\ next \in Nat /\ open \in BOOLEAN /\ idle \in BOOLEAN
    /\ closed \in Seq(Chunk) /\ unannounced \in BOOLEAN
    /\ opened \in Nat /\ pauses \in Nat
AsrTypes ==
    /\ jobs \in Seq(Chunk) /\ queue \in Seq(Chunk)
    /\ asr \in {"loading", "wait", "work", "lines", "report", "gone"}
    /\ job \in Chunk \cup {None}
    /\ asr \in {"work", "lines", "report"} => job \in Chunk
    /\ read \in Seq(Chunk \X (Nat \ {0})) /\ done \in Seq(Chunk)
UITypes ==
    /\ channel \in Seq(Status)
    /\ IsApp(app)
    /\ ui \in {"drain", "poll", "off"} /\ stop \in BOOLEAN
TypeOK == WriterTypes /\ AsrTypes /\ UITypes

-----------------------------------------------------------------------------
(* The last word.  What a field of the screen will show once the channel is   *)
(* drained is what the last status about it says, or what it shows already    *)
(* when none is on its way.                                                   *)

Fields == {"session", "says", "current", "transcribing", "queued"}
About(f) ==
    CASE f = "session"      -> {"SessionStarted"}
      [] f = "says"         -> {"SessionStarted", "SessionIdle"}
      [] f = "current"      -> {"SessionStarted", "ChunkOpened"}
      [] f = "transcribing" -> {"TranscribeStarted", "TranscribeDone", "TranscribeFailed"}
      [] f = "queued"       -> {"TranscribeBacklog"}
Shows(f, a) ==
    CASE f = "session"      -> a.session
      [] f = "says"         -> IF a.idle THEN "idle" ELSE "recording"
      [] f = "current"      -> a.current
      [] f = "transcribing" -> a.transcribing
      [] f = "queued"       -> a.backlog
Says(f, s) ==
    CASE f = "session"      -> s.what
      [] f = "says"         -> IF s.kind = "SessionIdle" THEN "idle" ELSE "recording"
      [] f = "current"      -> IF s.kind = "ChunkOpened" THEN s.what[2] ELSE 0
      [] f = "transcribing" -> IF s.kind = "TranscribeStarted" THEN s.what[2] ELSE None
      [] f = "queued"       -> s.what

NoneAfter(kinds, ch, p) == \A q \in (p + 1)..Len(ch) : ch[q].kind \notin kinds
LastWord(f, ch, a, v) ==
    /\ NoneAfter(About(f), ch, 0) => Shows(f, a) = v
    /\ \A p \in 1..Len(ch) :
           ch[p].kind \in About(f) /\ NoneAfter(About(f), ch, p) => Says(f, ch[p]) = v

Told(f, v) == ui # "off" => LastWord(f, channel, app, v)

SessionInv == Told("session", ses)
IdleInv == Told("says", IF idle \/ unannounced THEN "idle" ELSE "recording")
AsrInv ==
    /\ Told("transcribing", IF asr \in {"work", "lines"} THEN job[2] ELSE None)
    /\ asr \in {"loading", "wait"} => Told("queued", Len(queue))
CurrentInv == open => Told("current", next)

(* What is still to be told, in order: of x from its m-th on, by the statuses *)
(* of the kind that come after p.                                             *)
Carries(kind, ch, q, what) == ch[q].kind = kind /\ ch[q].what = what
ToldFrom(kind, ch, p, m, x) ==
    /\ \A q \in (p + 1)..Len(ch) : ch[q].kind = kind =>
           \E k \in (m + 1)..Len(x) : ch[q].what = x[k]
    /\ \A k \in (m + 1)..Len(x) : \E q \in (p + 1)..Len(ch) : Carries(kind, ch, q, x[k])
    /\ \A q, r \in (p + 1)..Len(ch) : \A k, j \in (m + 1)..Len(x) :
           Carries(kind, ch, q, x[k]) /\ Carries(kind, ch, r, x[j]) => (q < r <=> k < j)

(* A list of the newest of the first m chunks.                                *)
Listed(list, m, cl) ==
    /\ Len(list) = (IF m < ChunkHistory THEN m ELSE ChunkHistory)
    /\ \A j \in 1..Len(list) : list[j] = cl[m + 1 - j]

(* The session's chunks: the last SessionStarted begins a new list.           *)
Starts(ch, p) == p = 0 \/ ch[p].kind = "SessionStarted"
ListAfter(ch, p, a, cl) ==
    \E m \in 0..Len(cl) : /\ IF p = 0 THEN Listed(a.chunks, m, cl) ELSE m = 0
                          /\ ToldFrom("ChunkClosed", ch, p, m, cl)
ListWord(ch, a, cl) ==
    \A p \in 0..Len(ch) :
        Starts(ch, p) /\ NoneAfter({"SessionStarted"}, ch, p) => ListAfter(ch, p, a, cl)
ListInv == ui # "off" => ListWord(channel, app, closed)

(* What the transcriber has done, in all sessions.                            *)
DoneWord(ch, a, dn) ==
    \E m \in 0..Len(dn) : /\ Listed(a.transcribed, m, dn)
                          /\ ToldFrom("TranscribeDone", ch, 0, m, dn)
DoneInv == ui # "off" => DoneWord(channel, app, done)

(* A session's chunks are closed one index after the other, and the one that  *)
(* is being written comes after them.                                         *)
Ascends(cl) == \A k, m \in 1..Len(cl) : k < m => cl[k][2] < cl[m][2]
WriterInv ==
    /\ writer \in {"closing", "rollover", "ending", "done"} => ~open
    /\ \A k \in 1..Len(closed) : writer \in {"loop", "closing", "failed"} => closed[k][2] < next
    /\ Ascends(closed)

(* The transcript: a text of the first chunks with lines; the others' are on  *)
(* their way.                                                                 *)
LinesOf(entry) == [n \in 1..entry[2] |-> [chunk |-> entry[1], n |-> n]]
Texts(rd) == [k \in 1..Len(rd) |-> LinesOf(rd[k])]
TextWord(ch, a, rd) ==
    \E m \in 0..Len(rd) : /\ ReadsDown(a.transcript, m, rd)
                          /\ ToldFrom("Transcript", ch, 0, m, Texts(rd))
TextInv == ui # "off" => TextWord(channel, app, read)

(* The transcriber works through the chunks in the order in which the writer  *)
(* closed them, and no chunk comes twice.                                     *)
Waiting == queue \o jobs
Sent(c) ==
    \/ Before(c, <<ses, next>>)
    \/ writer \in {"closing", "rollover", "ending", "done"} /\ c = <<ses, next>>
OrderInv ==
    /\ \A k, m \in 1..Len(read) : k < m => Before(read[k][1], read[m][1])
    /\ \A k \in 1..Len(read) : Sent(read[k][1])
    /\ \A k \in 1..Len(read), i \in 1..Len(Waiting) : Before(read[k][1], Waiting[i])
    /\ \A i, j \in 1..Len(Waiting) : i < j => Before(Waiting[i], Waiting[j])
    /\ \A i \in 1..Len(Waiting) : Sent(Waiting[i])
    /\ asr = "work" =>
           /\ Sent(job)
           /\ \A k \in 1..Len(read) : Before(read[k][1], job)
           /\ \A i \in 1..Len(Waiting) : Before(job, Waiting[i])
DoneOrder ==
    /\ \A k \in 1..Len(done) : Sent(done[k])
    /\ \A k \in 1..Len(done), i \in 1..Len(Waiting) : Before(done[k], Waiting[i])
    /\ asr \in {"work", "lines"} =>
           /\ \A k \in 1..Len(done) : Before(done[k], job)
           /\ Sent(job) /\ \A i \in 1..Len(Waiting) : Before(job, Waiting[i])

-----------------------------------------------------------------------------
(* The operators of the model.                                                *)

LEMMA NewestProperties ==
    ASSUME NEW S, NEW seq \in Seq(S), NEW n \in Nat
    PROVE  /\ Newest(seq, n) \in Seq(S)
           /\ Len(Newest(seq, n)) = (IF Len(seq) < n THEN Len(seq) ELSE n)
           /\ \A j \in 1..Len(Newest(seq, n)) : Newest(seq, n)[j] = seq[j]
  BY DEF Newest

LEMMA OntoProperties ==
    ASSUME NEW S, NEW seq \in Seq(S), NEW x \in S
    PROVE  /\ Onto(x, seq) \in Seq(S)
           /\ Len(Onto(x, seq)) = Len(seq) + 1
           /\ Onto(x, seq)[1] = x
           /\ \A j \in 1..Len(seq) : Onto(x, seq)[j + 1] = seq[j]
  BY DEF Onto

LEMMA StatusKinds ==
    ASSUME NEW s \in Status
    PROVE  /\ s.kind \in Kinds
           /\ s.kind \in OfChunk => s.what \in Chunk
           /\ s.kind \in OfNumber => s.what \in Nat
           /\ s.kind = "Transcript" => s.what \in Seq(Line)
  BY DEF Status, Kinds, OfChunk, OfNumber, OfNothing

(* A status leaves an App behind it.                                          *)
LEMMA AppliedIsApp ==
    ASSUME NEW a, IsApp(a), NEW s \in Status
    PROVE  IsApp(Applied(a, s))
<1> USE DEF IsApp, Applied
<1>0. /\ s.kind \in Kinds
      /\ s.kind \in OfChunk => s.what \in Chunk
      /\ s.kind \in OfNumber => s.what \in Nat
      /\ s.kind = "Transcript" => s.what \in Seq(Line)
  BY StatusKinds
<1>1. CASE s.kind = "ChunkOpened"
  <2>1. s.what[2] \in Nat
    BY <1>0, <1>1 DEF OfChunk, Chunk
  <2>. QED  BY <1>1, <2>1 DEF ApplyOpened
<1>2. CASE s.kind = "ChunkClosed"
  <2>1. Newest(Onto(s.what, a.chunks), ChunkHistory) \in Seq(Chunk)
    BY <1>0, <1>2, NewestProperties, OntoProperties DEF OfChunk
  <2>. QED  BY <1>2, <2>1 DEF ApplyClosed
<1>3. CASE s.kind = "SessionStarted"
  <2>1. s.what \in Nat /\ <<>> \in Seq(Chunk)
    BY <1>0, <1>3 DEF OfNumber
  <2>. QED  BY <1>3, <2>1 DEF ApplySession
<1>4. CASE s.kind = "TranscribeStarted"
  <2>1. s.what[2] \in Nat
    BY <1>0, <1>4 DEF OfChunk, Chunk
  <2>. QED  BY <1>4, <2>1
<1>5. CASE s.kind = "Transcript"
  <2>1. s.what \o a.transcript \in Seq(Line)
    BY <1>0, <1>5
  <2>2. Newest(s.what \o a.transcript, TranscriptHistory) \in Seq(Line)
    BY <2>1, NewestProperties
  <2>. QED  BY <1>5, <2>2 DEF ApplyTranscript
<1>6. CASE s.kind = "TranscribeDone"
  <2>1. Newest(Onto(s.what, a.transcribed), ChunkHistory) \in Seq(Chunk)
    BY <1>0, <1>6, NewestProperties, OntoProperties DEF OfChunk
  <2>. QED  BY <1>6, <2>1 DEF ApplyDone
<1>7. CASE s.kind = "TranscribeFailed"
  BY <1>7 DEF ApplyFailed
<1>8. CASE s.kind = "TranscribeBacklog"
  BY <1>0, <1>8 DEF OfNumber
<1>9. CASE s.kind \in {"ChunkDiscarded", "SessionIdle", "Warning", "Finished"}
  BY <1>9
<1>. QED  BY <1>0, <1>1, <1>2, <1>3, <1>4, <1>5, <1>6, <1>7, <1>8, <1>9 DEF Kinds

(* What an applied status changes of a field.                                 *)
LEMMA AppliedShows ==
    ASSUME NEW a, IsApp(a), NEW s \in Status, NEW f \in Fields
    PROVE  Shows(f, Applied(a, s)) = IF s.kind \in About(f) THEN Says(f, s) ELSE Shows(f, a)
<1> USE DEF IsApp, Applied, ApplyOpened, ApplyClosed, ApplySession, ApplyDone, ApplyFailed,
            ApplyTranscript
<1>0. s.kind \in Kinds
  BY StatusKinds
<1>1. CASE f = "session"
  BY <1>0, <1>1 DEF Kinds, About, Says, Shows
<1>2. CASE f = "says"
  BY <1>0, <1>2 DEF Kinds, About, Says, Shows
<1>3. CASE f = "current"
  BY <1>0, <1>3 DEF Kinds, About, Says, Shows
<1>4. CASE f = "transcribing"
  BY <1>0, <1>4 DEF Kinds, About, Says, Shows
<1>5. CASE f = "queued"
  BY <1>0, <1>5 DEF Kinds, About, Says, Shows
<1>. QED  BY <1>1, <1>2, <1>3, <1>4, <1>5 DEF Fields

(* The channel: a status at its end, and one taken from its beginning.        *)
LEMMA SentOther ==
    ASSUME NEW ch \in Seq(Status), NEW s \in Status, NEW a, NEW f, NEW v,
           s.kind \notin About(f), LastWord(f, ch, a, v)
    PROVE  LastWord(f, Append(ch, s), a, v)
<1> DEFINE c == Append(ch, s)
<1>1. /\ Len(c) = Len(ch) + 1 /\ c[Len(ch) + 1] = s
      /\ \A q \in 1..Len(ch) : c[q] = ch[q]
  OBVIOUS
<1> HIDE DEF c
<1>2. ASSUME NoneAfter(About(f), c, 0)  PROVE Shows(f, a) = v
  <2>1. NoneAfter(About(f), ch, 0)
    BY <1>1, <1>2 DEF NoneAfter
  <2>. QED  BY <2>1 DEF LastWord
<1>3. ASSUME NEW p \in 1..Len(c), c[p].kind \in About(f), NoneAfter(About(f), c, p)
      PROVE  Says(f, c[p]) = v
  <2>1. p \in 1..Len(ch) /\ c[p] = ch[p]
    BY <1>1, <1>3
  <2>2. NoneAfter(About(f), ch, p)
    BY <1>1, <1>3, <2>1 DEF NoneAfter
  <2>. QED  BY <1>3, <2>1, <2>2 DEF LastWord
<1>4. LastWord(f, c, a, v)
  BY <1>2, <1>3 DEF LastWord
<1>. QED  BY <1>4 DEF c

LEMMA SentWord ==
    ASSUME NEW ch \in Seq(Status), NEW s \in Status, NEW a, NEW f, NEW v,
           s.kind \in About(f), Says(f, s) = v
    PROVE  LastWord(f, Append(ch, s), a, v)
<1> DEFINE c == Append(ch, s)
<1>1. Len(c) = Len(ch) + 1 /\ c[Len(ch) + 1] = s /\ Len(ch) \in Nat
  OBVIOUS
<1> HIDE DEF c
<1>2. ~NoneAfter(About(f), c, 0)
  BY <1>1 DEF NoneAfter
<1>3. ASSUME NEW p \in 1..Len(c), NoneAfter(About(f), c, p)
      PROVE  c[p] = s
  BY <1>1, <1>3 DEF NoneAfter
<1>4. LastWord(f, c, a, v)
  BY <1>2, <1>3 DEF LastWord
<1>. QED  BY <1>4 DEF c

LEMMA ReadWord ==
    ASSUME NEW ch \in Seq(Status), ch # <<>>, NEW a, IsApp(a), NEW f \in Fields, NEW v,
           LastWord(f, ch, a, v)
    PROVE  LastWord(f, Tail(ch), Applied(a, Head(ch)), v)
<1> DEFINE c == Tail(ch)
           b == Applied(a, Head(ch))
<1>1. /\ Len(ch) \in Nat \ {0} /\ Len(c) = Len(ch) - 1
      /\ \A q \in 1..Len(c) : c[q] = ch[q + 1]
      /\ Head(ch) = ch[1] /\ ch[1] \in Status
  OBVIOUS
<1>2. Shows(f, b) = IF ch[1].kind \in About(f) THEN Says(f, ch[1]) ELSE Shows(f, a)
  BY <1>1, AppliedShows
<1> HIDE DEF c, b
<1>3. ASSUME NoneAfter(About(f), c, 0)  PROVE Shows(f, b) = v
  <2>1. NoneAfter(About(f), ch, 1)
    <3>1. ASSUME NEW q \in 2..Len(ch)  PROVE ch[q].kind \notin About(f)
      <4>1. q - 1 \in 1..Len(c) /\ c[q - 1] = ch[q]
        BY <1>1
      <4>. QED  BY <1>3, <4>1 DEF NoneAfter
    <3>. QED  BY <3>1 DEF NoneAfter
  <2>2. CASE ch[1].kind \in About(f)
    BY <1>1, <1>2, <2>1, <2>2 DEF LastWord
  <2>3. CASE ch[1].kind \notin About(f)
    <3>1. NoneAfter(About(f), ch, 0)
      BY <1>1, <2>1, <2>3 DEF NoneAfter
    <3>. QED  BY <1>2, <2>3, <3>1 DEF LastWord
  <2>. QED  BY <2>2, <2>3
<1>4. ASSUME NEW p \in 1..Len(c), c[p].kind \in About(f), NoneAfter(About(f), c, p)
      PROVE  Says(f, c[p]) = v
  <2>1. p + 1 \in 1..Len(ch) /\ c[p] = ch[p + 1]
    BY <1>1
  <2>2. NoneAfter(About(f), ch, p + 1)
    <3>1. ASSUME NEW q \in (p + 2)..Len(ch)  PROVE ch[q].kind \notin About(f)
      <4>1. q - 1 \in (p + 1)..Len(c) /\ q - 1 \in 1..Len(c) /\ c[q - 1] = ch[q]
        BY <1>1
      <4>. QED  BY <1>4, <4>1 DEF NoneAfter
    <3>. QED  BY <3>1 DEF NoneAfter
  <2>. QED  BY <1>4, <2>1, <2>2 DEF LastWord
<1>5. LastWord(f, c, b, v)
  BY <1>3, <1>4 DEF LastWord
<1>. QED  BY <1>5 DEF c, b

(* Drawing an empty channel changes none of the fields.                       *)
LEMMA DrawnWord ==
    ASSUME NEW ch, NEW a, IsApp(a), NEW f \in Fields, NEW v, LastWord(f, ch, a, v)
    PROVE  LastWord(f, ch, [a EXCEPT !.finished = TRUE], v)
<1>1. Shows(f, [a EXCEPT !.finished = TRUE]) = Shows(f, a)
  BY DEF Fields, Shows, IsApp
<1>. QED  BY <1>1 DEF LastWord

-----------------------------------------------------------------------------
(* Types.                                                                     *)

LEMMA ToldTypes ==
    ASSUME UITypes, NEW kind, NEW what, [kind |-> kind, what |-> what] \in Status,
           UNCHANGED uiVars,
           ui # "off" => channel' = Append(channel, [kind |-> kind, what |-> what]),
           ui = "off" => UNCHANGED channel
    PROVE  UITypes'
<1>1. channel' \in Seq(Status)
  <2>1. CASE ui = "off"
    BY <2>1 DEF UITypes
  <2>2. CASE ui # "off"
    BY <2>2 DEF UITypes
  <2>. QED  BY <2>1, <2>2
<1>2. IsApp(app')
  BY DEF UITypes, uiVars, IsApp
<1>. QED  BY <1>1, <1>2 DEF UITypes, uiVars

LEMMA ToldOfChunk ==
    ASSUME NEW kind \in OfChunk, NEW c \in Chunk
    PROVE  [kind |-> kind, what |-> c] \in Status
  BY DEF Status

LEMMA ToldOfNumber ==
    ASSUME NEW kind \in OfNumber, NEW n \in Nat
    PROVE  [kind |-> kind, what |-> n] \in Status
  BY DEF Status

LEMMA ToldOfNothing ==
    ASSUME NEW kind \in OfNothing
    PROVE  [kind |-> kind, what |-> None] \in Status
  BY DEF Status

LEMMA WriterTypesStep ==
    ASSUME TypeOK, Writer
    PROVE  TypeOK'
<1> USE DEF TypeOK, WriterTypes, AsrTypes, asrVars
<1>0. <<ses, next>> \in Chunk
  BY DEF Chunk
<1>1. CASE OpenChunk
  <2>1. [kind |-> "ChunkOpened", what |-> <<ses, next>>] \in Status
    BY <1>0, ToldOfChunk DEF OfChunk
  <2>2. UITypes'
    BY <1>1, <2>1, ToldTypes DEF OpenChunk, Tells
  <2>. QED  BY <1>1, <2>2 DEF OpenChunk
<1>2. ASSUME NEW why \in Reasons, Discard(why)  PROVE TypeOK'
  <2>1. [kind |-> "ChunkDiscarded", what |-> <<ses, next>>] \in Status
    BY <1>0, ToldOfChunk DEF OfChunk
  <2>2. UITypes'
    BY <1>2, <2>1, ToldTypes DEF Discard, Tells
  <2>3. After(why) \in {"loop", "rollover", "ending"} /\ IndexAfter(why) \in Nat
    BY DEF After, IndexAfter, Reasons
  <2>. QED  BY <1>2, <2>2, <2>3 DEF Discard
<1>3. ASSUME NEW why \in Reasons, SendJob(why)  PROVE TypeOK'
  <2>1. UITypes'
    BY <1>3 DEF SendJob, UITypes, uiVars, IsApp
  <2>2. jobs' \in Seq(Chunk)
    BY <1>0, <1>3 DEF SendJob
  <2>. QED  BY <1>3, <2>1, <2>2 DEF SendJob, Reasons
<1>4. ASSUME NEW why \in {"cut", "rollover", "ending"}, SayClosed(why)  PROVE TypeOK'
  <2>1. [kind |-> "ChunkClosed", what |-> <<ses, next>>] \in Status
    BY <1>0, ToldOfChunk DEF OfChunk
  <2>2. UITypes'
    BY <1>4, <2>1, ToldTypes DEF SayClosed, Tells
  <2>3. After(why) \in {"loop", "rollover", "ending"} /\ IndexAfter(why) \in Nat
    BY DEF After, IndexAfter
  <2>4. closed' \in Seq(Chunk)
    BY <1>0, <1>4 DEF SayClosed
  <2>. QED  BY <1>4, <2>2, <2>3, <2>4 DEF SayClosed
<1>5. CASE StartSession
  <2>1. [kind |-> "SessionStarted", what |-> ses + 1] \in Status
    BY ToldOfNumber DEF OfNumber
  <2>2. UITypes'
    BY <1>5, <2>1, ToldTypes DEF StartSession, Tells
  <2>3. idle' \in BOOLEAN /\ unannounced' \in BOOLEAN
    BY <1>5 DEF StartSession
  <2>. QED  BY <1>5, <2>2, <2>3 DEF StartSession
<1>6. CASE FailedRollover
  <2>1. [kind |-> "Warning", what |-> None] \in Status
    BY ToldOfNothing DEF OfNothing
  <2>2. UITypes'
    BY <1>6, <2>1, ToldTypes DEF FailedRollover, Tells
  <2>3. idle' \in BOOLEAN /\ unannounced' \in BOOLEAN
    BY <1>6 DEF FailedRollover
  <2>. QED  BY <1>6, <2>2, <2>3 DEF FailedRollover
<1>7. CASE GoIdle
  <2>1. [kind |-> "SessionIdle", what |-> None] \in Status
    BY ToldOfNothing DEF OfNothing
  <2>2. UITypes'
    BY <1>7, <2>1, ToldTypes DEF GoIdle, Tells
  <2>3. idle' \in BOOLEAN /\ unannounced' \in BOOLEAN
    BY <1>7 DEF GoIdle
  <2>. QED  BY <1>7, <2>2, <2>3 DEF GoIdle
<1>8. CASE Finish
  <2>1. [kind |-> "Finished", what |-> None] \in Status
    BY ToldOfNothing DEF OfNothing
  <2>2. UITypes'
    BY <1>8, <2>1, ToldTypes DEF Finish, Tells
  <2>. QED  BY <1>8, <2>2 DEF Finish
<1>9. CASE WriterFails
  BY <1>9 DEF WriterFails, UITypes, uiVars, IsApp
<1>. QED  BY <1>1, <1>2, <1>3, <1>4, <1>5, <1>6, <1>7, <1>8, <1>9 DEF Writer

LEMMA AsrTypesStep ==
    ASSUME TypeOK, Transcriber
    PROVE  TypeOK'
<1> USE DEF TypeOK, WriterTypes, AsrTypes, writerVars
<1>1. CASE LoadModel
  <2>1. asr' \in {"wait", "gone"}
    BY <1>1 DEF LoadModel
  <2>2. UITypes'
    BY <1>1 DEF LoadModel, UITypes, uiVars, IsApp
  <2>. QED  BY <1>1, <2>1, <2>2 DEF LoadModel
<1>2. CASE TakeJob
  <2>0. queue \o jobs \in Seq(Chunk)
    OBVIOUS
  <2>1. PICK all \in Seq(Chunk) : all = queue \o jobs
    BY <2>0
  <2>2. Head(all) \in Chunk /\ Tail(all) \in Seq(Chunk) /\ job' = Head(all)
    BY <1>2, <2>1 DEF TakeJob
  <2>3. [kind |-> "TranscribeStarted", what |-> Head(all)] \in Status
    BY <2>2, ToldOfChunk DEF OfChunk
  <2>4. UITypes'
    BY <1>2, <2>2, <2>3, ToldTypes DEF TakeJob, Tells
  <2>5. queue' \in Seq(Chunk) /\ jobs' \in Seq(Chunk) /\ job' \in Chunk
    BY <1>2, <2>1, <2>2 DEF TakeJob
  <2>. QED  BY <1>2, <2>4, <2>5 DEF TakeJob
<1>3. ASSUME NEW n \in 0..MaxLines, Recognize(n)  PROVE TypeOK'
  <2>1. CASE n = 0
    BY <1>3, <2>1 DEF Recognize, UITypes, uiVars, IsApp
  <2>2. CASE n # 0
    <3>1. PICK lines : lines = [k \in 1..n |-> [chunk |-> job, n |-> k]]
      OBVIOUS
    <3>2. job \in Chunk
      BY <1>3 DEF Recognize
    <3>3. lines \in Seq(Line)
      <4>1. \A k \in 1..n : [chunk |-> job, n |-> k] \in Line
        BY <3>2 DEF Line
      <4>. QED  BY <3>1, <4>1
    <3>4. [kind |-> "Transcript", what |-> lines] \in Status
      BY <3>3 DEF Status
    <3>5. UITypes'
      BY <1>3, <2>2, <3>1, <3>4, ToldTypes DEF Recognize, Tells
    <3>6. read' \in Seq(Chunk \X (Nat \ {0}))
      <4>0. n \in Nat \ {0}
        BY <2>2
      <4>1. <<job, n>> \in Chunk \X (Nat \ {0})
        BY <3>2, <4>0
      <4>2. read' = Append(read, <<job, n>>)
        BY <1>3, <2>2 DEF Recognize
      <4>. QED  BY <4>1, <4>2
    <3>. QED  BY <1>3, <3>2, <3>5, <3>6 DEF Recognize
  <2>. QED  BY <2>1, <2>2
<1>4. CASE Done
  <2>1. [kind |-> "TranscribeDone", what |-> job] \in Status
    BY <1>4, ToldOfChunk DEF OfChunk, Done
  <2>2. UITypes'
    BY <1>4, <2>1, ToldTypes DEF Done, Tells
  <2>3. done' \in Seq(Chunk)
    BY <1>4 DEF Done
  <2>. QED  BY <1>4, <2>2, <2>3 DEF Done
<1>5. CASE Failed
  <2>1. [kind |-> "TranscribeFailed", what |-> job] \in Status
    BY <1>5, ToldOfChunk DEF OfChunk, Failed
  <2>2. UITypes'
    BY <1>5, <2>1, ToldTypes DEF Failed, Tells
  <2>. QED  BY <1>5, <2>2 DEF Failed
<1>6. CASE Report
  <2>1. [kind |-> "TranscribeBacklog", what |-> Pending] \in Status
    BY ToldOfNumber DEF OfNumber, Pending
  <2>2. UITypes'
    BY <1>6, <2>1, ToldTypes DEF Report, Tells
  <2>. QED  BY <1>6, <2>2 DEF Report
<1>7. CASE AsrReturns
  BY <1>7 DEF AsrReturns, UITypes, uiVars, IsApp
<1>. QED  BY <1>1, <1>2, <1>3, <1>4, <1>5, <1>6, <1>7 DEF Transcriber

LEMMA UITypesStep ==
    ASSUME TypeOK, UI
    PROVE  TypeOK'
<1> USE DEF TypeOK, WriterTypes, AsrTypes, writerVars, asrVars
<1>1. CASE Drain
  <2>1. Head(channel) \in Status /\ Tail(channel) \in Seq(Status)
    BY <1>1 DEF Drain, UITypes
  <2>2. PICK a : a = Applied(app, Head(channel))
    OBVIOUS
  <2>3. IsApp(a)
    BY <2>1, <2>2, AppliedIsApp DEF UITypes
  <2>4. IsApp(app')
    BY <1>1, <2>2, <2>3 DEF Drain, IsApp
  <2>. QED  BY <1>1, <2>1, <2>4 DEF Drain, UITypes
<1>2. CASE Draw
  <2>1. IsApp(app')
    BY <1>2 DEF Draw, UITypes, IsApp
  <2>. QED  BY <1>2, <2>1 DEF Draw, UITypes
<1>3. CASE PollTick
  BY <1>3 DEF PollTick, UITypes, IsApp
<1>4. CASE QuitKey
  BY <1>4 DEF QuitKey, UITypes, IsApp
<1>. QED  BY <1>1, <1>2, <1>3, <1>4 DEF UI

(* Every status, field and variable has its type.                             *)
THEOREM ScreenTypes == Spec => []TypeOK
<1>1. Init => TypeOK
  <2>1. IsApp(NewApp)
    BY DEF IsApp, NewApp
  <2>2. ASSUME Init  PROVE WriterTypes
    <3>1. open \in BOOLEAN /\ idle \in BOOLEAN /\ unannounced \in BOOLEAN
      BY <2>2, Zenon DEF Init
    <3>. QED  BY <2>2, <3>1 DEF Init, WriterTypes
  <2>3. ASSUME Init  PROVE AsrTypes
    BY <2>3 DEF Init, AsrTypes
  <2>4. ASSUME Init  PROVE UITypes
    <3>1. stop \in BOOLEAN
      BY <2>4, Zenon DEF Init
    <3>2. IsApp(app)
      BY <2>1, <2>4, Zenon DEF Init
    <3>. QED  BY <2>4, <3>1, <3>2 DEF Init, UITypes
  <2>. QED  BY <2>2, <2>3, <2>4 DEF TypeOK
<1>2. ASSUME TypeOK, [Next]_vars  PROVE TypeOK'
  <2>1. CASE UNCHANGED vars
    BY <1>2, <2>1 DEF TypeOK, WriterTypes, AsrTypes, UITypes, IsApp,
                      vars, writerVars, asrVars, uiVars
  <2>2. CASE Over
    BY <1>2, <2>2 DEF Over, TypeOK, WriterTypes, AsrTypes, UITypes, IsApp,
                      vars, writerVars, asrVars, uiVars
  <2>. QED
    BY <1>2, <2>1, <2>2, WriterTypesStep, AsrTypesStep, UITypesStep DEF Next
<1>. QED  BY <1>1, <1>2, PTL DEF Spec

-----------------------------------------------------------------------------
(* Who sends what: each kind of status tells of one step.                     *)

TellsOf(s) ==
    /\ s.kind = "SessionStarted" => StartSession /\ s.what = ses'
    /\ s.kind = "SessionIdle" => GoIdle
    /\ s.kind = "ChunkOpened" => OpenChunk /\ s.what = <<ses, next>>
    /\ s.kind = "ChunkClosed" =>
           \E why \in {"cut", "rollover", "ending"} : SayClosed(why) /\ s.what = <<ses, next>>
    /\ s.kind = "TranscribeStarted" => TakeJob /\ s.what = job'
    /\ s.kind = "TranscribeDone" => Done /\ s.what = job
    /\ s.kind = "TranscribeFailed" => Failed
    /\ s.kind = "TranscribeBacklog" => Report /\ s.what = Len(queue)
    /\ s.kind = "Transcript" => \E n \in 1..MaxLines : Recognize(n)
Sends(s) == s \in Status /\ channel' = Append(channel, s) /\ TellsOf(s)

LEMMA WriterSends ==
    ASSUME TypeOK, Writer, ui # "off"
    PROVE  UNCHANGED uiVars /\ (UNCHANGED channel \/ \E s : Sends(s))
<1>0. <<ses, next>> \in Chunk /\ ses + 1 \in Nat
  BY DEF Chunk, TypeOK, WriterTypes
<1>1. CASE OpenChunk
  <2>1. PICK s : s = [kind |-> "ChunkOpened", what |-> <<ses, next>>]
    OBVIOUS
  <2>2. s \in Status
    BY <1>0, <2>1, ToldOfChunk DEF OfChunk
  <2>3. Sends(s)
    BY <1>1, <2>1, <2>2 DEF Sends, TellsOf, OpenChunk, Tells
  <2>. QED  BY <1>1, <2>3 DEF OpenChunk
<1>2. ASSUME NEW why \in Reasons, Discard(why)
      PROVE  UNCHANGED uiVars /\ \E s : Sends(s)
  <2>1. PICK s : s = [kind |-> "ChunkDiscarded", what |-> <<ses, next>>]
    OBVIOUS
  <2>2. s \in Status
    BY <1>0, <2>1, ToldOfChunk DEF OfChunk
  <2>3. Sends(s)
    BY <1>2, <2>1, <2>2 DEF Sends, TellsOf, Discard, Tells
  <2>. QED  BY <1>2, <2>3 DEF Discard
<1>3. ASSUME NEW why \in Reasons, SendJob(why)
      PROVE  UNCHANGED uiVars /\ UNCHANGED channel
  BY <1>3 DEF SendJob
<1>4. ASSUME NEW why \in {"cut", "rollover", "ending"}, SayClosed(why)
      PROVE  UNCHANGED uiVars /\ \E s : Sends(s)
  <2>1. PICK s : s = [kind |-> "ChunkClosed", what |-> <<ses, next>>]
    OBVIOUS
  <2>2. s \in Status
    BY <1>0, <2>1, ToldOfChunk DEF OfChunk
  <2>3. channel' = Append(channel, s)
    BY <1>4, <2>1 DEF SayClosed, Tells
  <2>4. Sends(s)
    BY <1>4, <2>1, <2>2, <2>3 DEF Sends, TellsOf
  <2>. QED  BY <1>4, <2>4 DEF SayClosed
<1>5. CASE StartSession
  <2>1. PICK s : s = [kind |-> "SessionStarted", what |-> ses + 1]
    OBVIOUS
  <2>2. s \in Status
    BY <1>0, <2>1, ToldOfNumber DEF OfNumber
  <2>3. channel' = Append(channel, s) /\ ses' = ses + 1
    BY <1>5, <2>1 DEF StartSession, Tells
  <2>4. Sends(s)
    BY <1>5, <2>1, <2>2, <2>3 DEF Sends, TellsOf
  <2>. QED  BY <1>5, <2>4 DEF StartSession
<1>6. CASE FailedRollover
  <2>1. PICK s : s = [kind |-> "Warning", what |-> None]
    OBVIOUS
  <2>2. s \in Status
    BY <2>1, ToldOfNothing DEF OfNothing
  <2>3. Sends(s)
    BY <1>6, <2>1, <2>2 DEF Sends, TellsOf, FailedRollover, Tells
  <2>. QED  BY <1>6, <2>3 DEF FailedRollover
<1>7. CASE GoIdle
  <2>1. PICK s : s = [kind |-> "SessionIdle", what |-> None]
    OBVIOUS
  <2>2. s \in Status
    BY <2>1, ToldOfNothing DEF OfNothing
  <2>3. channel' = Append(channel, s)
    BY <1>7, <2>1 DEF GoIdle, Tells
  <2>4. Sends(s)
    BY <1>7, <2>1, <2>2, <2>3 DEF Sends, TellsOf
  <2>. QED  BY <1>7, <2>4 DEF GoIdle
<1>8. CASE Finish
  <2>1. PICK s : s = [kind |-> "Finished", what |-> None]
    OBVIOUS
  <2>2. s \in Status
    BY <2>1, ToldOfNothing DEF OfNothing
  <2>3. Sends(s)
    BY <1>8, <2>1, <2>2 DEF Sends, TellsOf, Finish, Tells
  <2>. QED  BY <1>8, <2>3 DEF Finish
<1>9. CASE WriterFails
  BY <1>9 DEF WriterFails
<1>. QED  BY <1>1, <1>2, <1>3, <1>4, <1>5, <1>6, <1>7, <1>8, <1>9 DEF Writer

LEMMA AsrSends ==
    ASSUME TypeOK, Transcriber, ui # "off"
    PROVE  UNCHANGED uiVars /\ (UNCHANGED channel \/ \E s : Sends(s))
<1>1. CASE LoadModel
  BY <1>1 DEF LoadModel
<1>2. CASE TakeJob
  <2>1. queue \o jobs \in Seq(Chunk) /\ queue \o jobs # <<>>
    BY <1>2 DEF TakeJob, TypeOK, AsrTypes
  <2>2. PICK c \in Chunk : c = Head(queue \o jobs)
    BY <2>1
  <2>3. PICK s : s = [kind |-> "TranscribeStarted", what |-> c]
    OBVIOUS
  <2>4. s \in Status
    BY <2>3, ToldOfChunk DEF OfChunk
  <2>5. channel' = Append(channel, s) /\ job' = c
    BY <1>2, <2>2, <2>3 DEF TakeJob, Tells
  <2>6. Sends(s)
    BY <1>2, <2>3, <2>4, <2>5 DEF Sends, TellsOf
  <2>. QED  BY <1>2, <2>6 DEF TakeJob
<1>3. ASSUME NEW n \in 0..MaxLines, Recognize(n)
      PROVE  UNCHANGED uiVars /\ (UNCHANGED channel \/ \E s : Sends(s))
  <2>1. CASE n = 0
    BY <1>3, <2>1 DEF Recognize
  <2>2. CASE n # 0
    <3>1. PICK lines : lines = [k \in 1..n |-> [chunk |-> job, n |-> k]]
      OBVIOUS
    <3>2. PICK s : s = [kind |-> "Transcript", what |-> lines]
      OBVIOUS
    <3>3. job \in Chunk
      BY <1>3 DEF Recognize, TypeOK, AsrTypes
    <3>4. \A k \in 1..n : [chunk |-> job, n |-> k] \in Line
      BY <3>3 DEF Line
    <3>5. lines \in Seq(Line)
      BY <3>1, <3>4
    <3>6. s \in Status
      BY <3>2, <3>5 DEF Status
    <3>7. channel' = Append(channel, s)
      BY <1>3, <2>2, <3>1, <3>2 DEF Recognize, Tells
    <3>8. Sends(s)
      <4>1. n \in 1..MaxLines
        BY <2>2
      <4>. QED  BY <1>3, <3>2, <3>6, <3>7, <4>1 DEF Sends, TellsOf
    <3>. QED  BY <1>3, <3>8 DEF Recognize
  <2>. QED  BY <2>1, <2>2
<1>4. CASE Done
  <2>1. PICK s : s = [kind |-> "TranscribeDone", what |-> job]
    OBVIOUS
  <2>2. s \in Status
    BY <1>4, <2>1, ToldOfChunk DEF OfChunk, Done, TypeOK, AsrTypes
  <2>3. channel' = Append(channel, s)
    BY <1>4, <2>1 DEF Done, Tells
  <2>4. Sends(s)
    BY <1>4, <2>1, <2>2, <2>3 DEF Sends, TellsOf
  <2>. QED  BY <1>4, <2>4 DEF Done
<1>5. CASE Failed
  <2>1. PICK s : s = [kind |-> "TranscribeFailed", what |-> job]
    OBVIOUS
  <2>2. s \in Status
    BY <1>5, <2>1, ToldOfChunk DEF OfChunk, Failed, TypeOK, AsrTypes
  <2>3. channel' = Append(channel, s)
    BY <1>5, <2>1 DEF Failed, Tells
  <2>4. Sends(s)
    BY <1>5, <2>1, <2>2, <2>3 DEF Sends, TellsOf
  <2>. QED  BY <1>5, <2>4 DEF Failed
<1>6. CASE Report
  <2>1. PICK s : s = [kind |-> "TranscribeBacklog", what |-> Len(queue)]
    OBVIOUS
  <2>2. Len(queue) \in Nat
    BY DEF TypeOK, AsrTypes
  <2>3. s \in Status
    BY <2>1, <2>2, ToldOfNumber DEF OfNumber
  <2>4. channel' = Append(channel, s)
    BY <1>6, <2>1 DEF Report, Tells, Pending
  <2>5. Sends(s)
    BY <1>6, <2>1, <2>3, <2>4 DEF Sends, TellsOf
  <2>. QED  BY <1>6, <2>5 DEF Report
<1>7. CASE AsrReturns
  BY <1>7 DEF AsrReturns
<1>. QED  BY <1>1, <1>2, <1>3, <1>4, <1>5, <1>6, <1>7 DEF Transcriber

(* A field goes on being told: whoever changes what it stands for says so.    *)
LEMMA ToldStep ==
    ASSUME TypeOK, [Next]_vars, NEW f \in Fields, NEW v, NEW w, Told(f, v),
           ui # "off" => v = w \/ \E s : Sends(s) /\ s.kind \in About(f),
           ui # "off" => \A s : Sends(s) /\ s.kind \in About(f) => Says(f, s) = w
    PROVE  Told(f, w)'
<1> SUFFICES ASSUME ui' # "off"  PROVE LastWord(f, channel', app', w)
  BY DEF Told
<1>0. channel \in Seq(Status) /\ IsApp(app)
  BY DEF TypeOK, UITypes
<1>1. ui # "off"
  BY DEF Next, Writer, Transcriber, UI, Over, Drain, Draw, PollTick, QuitKey, vars, uiVars,
         OpenChunk, Discard, SendJob, SayClosed, StartSession, FailedRollover, GoIdle, Finish,
         WriterFails, LoadModel, TakeJob, Recognize, Done, Failed, Report, AsrReturns
<1>2. LastWord(f, channel, app, v)
  BY <1>1 DEF Told
<1>3. CASE Writer \/ Transcriber
  <2>1. UNCHANGED uiVars /\ (UNCHANGED channel \/ \E s : Sends(s))
    BY <1>1, <1>3, WriterSends, AsrSends
  <2>2. app' = app
    BY <2>1 DEF uiVars
  <2>3. CASE UNCHANGED channel
    <3>1. \A s : ~Sends(s)
      BY <1>0, <2>3 DEF Sends
    <3>2. v = w
      BY <1>1, <3>1
    <3>. QED  BY <1>2, <2>2, <2>3, <3>2
  <2>4. ASSUME NEW s, Sends(s)  PROVE LastWord(f, channel', app', w)
    <3>1. s \in Status /\ channel' = Append(channel, s)
      BY <2>4 DEF Sends
    <3>2. CASE s.kind \in About(f)
      <4>1. Says(f, s) = w
        BY <1>1, <2>4, <3>2
      <4>2. LastWord(f, Append(channel, s), app, w)
        BY <1>0, <3>1, <3>2, <4>1, SentWord
      <4>. QED  BY <2>2, <3>1, <4>2
    <3>3. CASE s.kind \notin About(f)
      <4>1. \A t : Sends(t) => t = s
        <5>1. ASSUME NEW t, Sends(t)  PROVE channel'[Len(channel) + 1] = t
          BY <1>0, <5>1 DEF Sends
        <5>. QED  BY <2>4, <5>1
      <4>2. v = w
        BY <1>1, <3>3, <4>1
      <4>3. LastWord(f, Append(channel, s), app, v)
        BY <1>0, <1>2, <3>1, <3>3, SentOther
      <4>. QED  BY <2>2, <3>1, <4>2, <4>3
    <3>. QED  BY <3>2, <3>3
  <2>. QED  BY <2>1, <2>3, <2>4
<1>4. CASE ~(Writer \/ Transcriber)
  <2>1. UI \/ Over \/ UNCHANGED vars
    BY <1>4 DEF Next
  <2>2. Len(channel') <= Len(channel)
    BY <1>0, <2>1 DEF UI, Over, Drain, Draw, PollTick, QuitKey, vars, uiVars
  <2>3. v = w
    <3>1. \A s : ~Sends(s)
      BY <1>0, <2>2 DEF Sends
    <3>. QED  BY <1>1, <3>1
  <2>4. CASE Drain
    BY <1>0, <1>2, <2>3, <2>4, ReadWord DEF Drain
  <2>5. CASE Draw
    BY <1>0, <1>2, <2>3, <2>5, DrawnWord DEF Draw
  <2>6. CASE PollTick \/ Over \/ UNCHANGED vars
    BY <1>2, <2>3, <2>6 DEF PollTick, Over, vars, uiVars
  <2>7. ~QuitKey
    BY DEF QuitKey
  <2>. QED  BY <2>1, <2>4, <2>5, <2>6, <2>7 DEF UI
<1>. QED  BY <1>3, <1>4

LEMMA ToldAtFirst ==
    ASSUME NEW f \in Fields, NEW v, Init, Shows(f, NewApp) = v
    PROVE  Told(f, v)
  BY DEF Told, LastWord, Init

(* The empty channel leaves what is shown.                                    *)
LEMMA UpToDateShows ==
    ASSUME NEW f \in Fields, NEW v, Told(f, v), UpToDate
    PROVE  Shows(f, app) = v
  BY DEF Told, LastWord, NoneAfter, UpToDate

-----------------------------------------------------------------------------
(* Idleness: the writer turns idle and begins a session aloud, and a failed   *)
(* rollover leaves the word as it is.                                         *)

Word == IF idle \/ unannounced THEN "idle" ELSE "recording"

(* The header says that a session is idle when it is, or when it was and a    *)
(* rollover failed since (App::apply, start_session).                         *)
THEOREM IdleIsShown == Spec => []IdleShown
<1>1. Init => IdleInv
  <2>1. ASSUME Init  PROVE ~idle /\ ~unannounced
    BY <2>1 DEF Init
  <2>2. Shows("says", NewApp) = "recording"
    BY DEF Shows, NewApp
  <2>. QED  BY <2>1, <2>2, ToldAtFirst DEF IdleInv, Fields
<1>2. TypeOK /\ IdleInv /\ [Next]_vars => IdleInv'
  <2> SUFFICES ASSUME TypeOK, IdleInv, [Next]_vars  PROVE IdleInv'
    OBVIOUS
  <2>1. PICK v : v = Word
    OBVIOUS
  <2>2. PICK w : w = Word'
    OBVIOUS
  <2>3. Told("says", v)
    BY <2>1 DEF IdleInv, Word
  <2>4. About("says") = {"SessionStarted", "SessionIdle"}
    BY DEF About
  <2>5. ASSUME ui # "off", NEW s, Sends(s), s.kind \in About("says")
        PROVE  Says("says", s) = w
    <3>1. CASE s.kind = "SessionStarted"
      <4>1. ~idle' /\ ~unannounced'
        BY <2>5, <3>1 DEF Sends, TellsOf, StartSession
      <4>2. Says("says", s) = "recording"
        BY <3>1 DEF Says
      <4>. QED  BY <2>2, <4>1, <4>2 DEF Word
    <3>2. CASE s.kind = "SessionIdle"
      <4>1. idle'
        BY <2>5, <3>2 DEF Sends, TellsOf, GoIdle
      <4>2. Says("says", s) = "idle"
        BY <3>2 DEF Says
      <4>. QED  BY <2>2, <4>1, <4>2 DEF Word
    <3>. QED  BY <2>4, <2>5, <3>1, <3>2
  <2>6. ASSUME ui # "off", v # w
        PROVE  \E s : Sends(s) /\ s.kind \in About("says")
    <3>1. CASE StartSession
      <4>1. PICK s : s = [kind |-> "SessionStarted", what |-> ses + 1]
        OBVIOUS
      <4>2. s \in Status
        BY <4>1, ToldOfNumber DEF OfNumber, TypeOK, WriterTypes
      <4>3. channel' = Append(channel, s) /\ ses' = ses + 1
        BY <2>6, <3>1, <4>1 DEF StartSession, Tells
      <4>. QED  BY <2>4, <3>1, <4>1, <4>2, <4>3 DEF Sends, TellsOf
    <3>2. CASE GoIdle
      <4>1. PICK s : s = [kind |-> "SessionIdle", what |-> None]
        OBVIOUS
      <4>2. s \in Status
        BY <4>1, ToldOfNothing DEF OfNothing
      <4>3. channel' = Append(channel, s)
        BY <2>6, <3>2, <4>1 DEF GoIdle, Tells
      <4>. QED  BY <2>4, <3>2, <4>1, <4>2, <4>3 DEF Sends, TellsOf
    <3>3. CASE FailedRollover
      <4>1. (idle' \/ unannounced') <=> (idle \/ unannounced)
        BY <3>3 DEF FailedRollover, TypeOK, WriterTypes
      <4>. QED  BY <2>1, <2>2, <2>6, <4>1 DEF Word
    <3>4. CASE ~StartSession /\ ~GoIdle /\ ~FailedRollover
      <4>1. UNCHANGED <<idle, unannounced>>
        BY <3>4 DEF Next, Writer, Transcriber, UI, Over, Drain, Draw, PollTick, QuitKey, vars,
               writerVars, OpenChunk, Discard, SendJob, SayClosed, Finish, WriterFails,
               LoadModel, TakeJob, Recognize, Done, Failed, Report, AsrReturns
      <4>. QED  BY <2>1, <2>2, <2>6, <4>1 DEF Word
    <3>. QED  BY <3>1, <3>2, <3>3, <3>4
  <2>7. Told("says", w)'
    BY <2>3, <2>5, <2>6, ToldStep DEF Fields
  <2>. QED  BY <2>2, <2>7 DEF IdleInv, Told, Word
<1>3. TypeOK /\ IdleInv => IdleShown
  <2> SUFFICES ASSUME TypeOK, IdleInv, UpToDate
               PROVE  Header.says = "idle" <=> idle \/ unannounced
    BY DEF IdleShown
  <2>1. PICK v : v = Word
    OBVIOUS
  <2>2. Shows("says", app) = v
    BY <2>1, UpToDateShows DEF IdleInv, Word, Fields
  <2>3. Header.says = v
    BY <2>2 DEF Header, Shows
  <2>. QED  BY <2>1, <2>3 DEF Word
<1>. QED  BY <1>1, <1>2, <1>3, ScreenTypes, PTL DEF Spec

-----------------------------------------------------------------------------
(* The transcriber: it names its chunk when it begins, takes the name back    *)
(* however that ends, and tells its backlog before it waits.                  *)

Transcribing == IF asr \in {"work", "lines"} THEN job[2] ELSE None
Waits == asr \in {"loading", "wait"}

(* The status line names the chunk being transcribed, none when there is      *)
(* none, and what is left in the queue (App::apply).                          *)
THEOREM AsrIsShown == Spec => []AsrShown
<1>1. Init => AsrInv
  <2>1. Shows("transcribing", NewApp) = None /\ Shows("queued", NewApp) = 0
    BY DEF Shows, NewApp
  <2>2. ASSUME Init  PROVE asr \notin {"work", "lines"} /\ Len(queue) = 0
    BY <2>2 DEF Init
  <2>. QED  BY <2>1, <2>2, ToldAtFirst DEF AsrInv, Fields
<1>2. TypeOK /\ AsrInv /\ [Next]_vars => AsrInv'
  <2> SUFFICES ASSUME TypeOK, AsrInv, [Next]_vars  PROVE AsrInv'
    OBVIOUS
  <2>0. /\ About("transcribing") = {"TranscribeStarted", "TranscribeDone", "TranscribeFailed"}
        /\ About("queued") = {"TranscribeBacklog"}
    BY DEF About
  <2>1. ASSUME ~TakeJob, ~Done, ~Failed
        PROVE  Transcribing' = Transcribing
    <3>1. CASE Writer
      BY <3>1 DEF Writer, OpenChunk, Discard, SendJob, SayClosed, StartSession, FailedRollover,
             GoIdle, Finish, WriterFails, asrVars, Transcribing
    <3>2. CASE UI \/ Over \/ UNCHANGED vars
      BY <3>2 DEF UI, Drain, Draw, PollTick, QuitKey, Over, vars, asrVars, Transcribing
    <3>3. CASE LoadModel \/ Report \/ AsrReturns
      BY <3>3 DEF LoadModel, Report, AsrReturns, Transcribing
    <3>4. CASE \E n \in 0..MaxLines : Recognize(n)
      BY <3>4 DEF Recognize, Transcribing
    <3>. QED  BY <2>1, <3>1, <3>2, <3>3, <3>4 DEF Next, Transcriber
  <2>2. PICK v : v = Transcribing
    OBVIOUS
  <2>3. PICK w : w = Transcribing'
    OBVIOUS
  <2>4. Told("transcribing", v)
    BY <2>2 DEF AsrInv, Transcribing
  <2>5. ASSUME ui # "off", NEW s, Sends(s), s.kind \in About("transcribing")
        PROVE  Says("transcribing", s) = w
    <3>1. CASE s.kind = "TranscribeStarted"
      <4>1. s.what = job' /\ asr' = "work"
        BY <2>5, <3>1 DEF Sends, TellsOf, TakeJob
      <4>2. Says("transcribing", s) = s.what[2]
        BY <3>1 DEF Says
      <4>. QED  BY <2>3, <4>1, <4>2 DEF Transcribing
    <3>2. CASE s.kind \in {"TranscribeDone", "TranscribeFailed"}
      <4>1. asr' = "report"
        BY <2>5, <3>2 DEF Sends, TellsOf, Done, Failed
      <4>2. Says("transcribing", s) = None
        BY <3>2 DEF Says
      <4>. QED  BY <2>3, <4>1, <4>2 DEF Transcribing
    <3>. QED  BY <2>0, <2>5, <3>1, <3>2
  <2>6. ASSUME ui # "off", TakeJob \/ Done \/ Failed
        PROVE  \E s : Sends(s) /\ s.kind \in About("transcribing")
    <3>1. CASE TakeJob
      <4>1. queue \o jobs \in Seq(Chunk) /\ queue \o jobs # <<>>
        BY <3>1 DEF TakeJob, TypeOK, AsrTypes
      <4>2. PICK c \in Chunk : c = Head(queue \o jobs)
        BY <4>1
      <4>3. PICK s : s = [kind |-> "TranscribeStarted", what |-> c]
        OBVIOUS
      <4>4. s \in Status
        BY <4>3, ToldOfChunk DEF OfChunk
      <4>5. channel' = Append(channel, s) /\ job' = c
        BY <2>6, <3>1, <4>2, <4>3 DEF TakeJob, Tells
      <4>. QED  BY <2>0, <3>1, <4>3, <4>4, <4>5 DEF Sends, TellsOf
    <3>2. CASE Done
      <4>1. PICK s : s = [kind |-> "TranscribeDone", what |-> job]
        OBVIOUS
      <4>2. s \in Status
        BY <3>2, <4>1, ToldOfChunk DEF OfChunk, Done, TypeOK, AsrTypes
      <4>3. channel' = Append(channel, s)
        BY <2>6, <3>2, <4>1 DEF Done, Tells
      <4>. QED  BY <2>0, <3>2, <4>1, <4>2, <4>3 DEF Sends, TellsOf
    <3>3. CASE Failed
      <4>1. PICK s : s = [kind |-> "TranscribeFailed", what |-> job]
        OBVIOUS
      <4>2. s \in Status
        BY <3>3, <4>1, ToldOfChunk DEF OfChunk, Failed, TypeOK, AsrTypes
      <4>3. channel' = Append(channel, s)
        BY <2>6, <3>3, <4>1 DEF Failed, Tells
      <4>. QED  BY <2>0, <3>3, <4>1, <4>2, <4>3 DEF Sends, TellsOf
    <3>. QED  BY <2>6, <3>1, <3>2, <3>3
  <2>7. ui # "off" => v = w \/ \E s : Sends(s) /\ s.kind \in About("transcribing")
    BY <2>1, <2>2, <2>3, <2>6
  <2>8. Told("transcribing", w)'
    BY <2>4, <2>5, <2>7, ToldStep DEF Fields
  <2>9. ASSUME Waits'  PROVE Told("queued", Len(queue))'
    <3>1. PICK n : n = Len(queue)
      OBVIOUS
    <3>2. Len(queue)' = n /\ (Waits \/ Report)
      <4>1. CASE Writer
        BY <2>9, <3>1, <4>1 DEF Writer, OpenChunk, Discard, SendJob, SayClosed, StartSession,
               FailedRollover, GoIdle, Finish, WriterFails, asrVars, Waits
      <4>2. CASE UI \/ Over \/ UNCHANGED vars
        BY <2>9, <3>1, <4>2 DEF UI, Drain, Draw, PollTick, QuitKey, Over, vars, asrVars, Waits
      <4>3. CASE Transcriber
        BY <2>9, <3>1, <4>3 DEF Transcriber, LoadModel, TakeJob, Recognize, Done, Failed,
               Report, AsrReturns, Waits
      <4>. QED  BY <4>1, <4>2, <4>3 DEF Next
    <3>3. ASSUME ui # "off", NEW s, Sends(s), s.kind \in About("queued")
          PROVE  Report /\ Says("queued", s) = n
      BY <2>0, <3>1, <3>3 DEF Sends, TellsOf, Says
    <3>4. CASE Waits
      <4>1. Told("queued", n)
        BY <3>1, <3>4 DEF AsrInv, Waits
      <4>2. Told("queued", n)'
        BY <3>3, <4>1, ToldStep DEF Fields
      <4>. QED  BY <3>2, <4>2 DEF Told
    <3>5. CASE Report
      <4> SUFFICES ASSUME ui' # "off"  PROVE LastWord("queued", channel', app', n)
        BY <3>2 DEF Told
      <4>1. ui # "off" /\ app' = app
        BY <3>5 DEF Report, uiVars
      <4>2. PICK s : s = [kind |-> "TranscribeBacklog", what |-> n]
        OBVIOUS
      <4>3. s \in Status
        BY <3>1, <4>2, ToldOfNumber DEF OfNumber, TypeOK, AsrTypes
      <4>4. channel' = Append(channel, s)
        BY <3>1, <3>5, <4>1, <4>2 DEF Report, Tells, Pending
      <4>5. s.kind \in About("queued") /\ Says("queued", s) = n
        BY <2>0, <4>2 DEF Says
      <4>6. LastWord("queued", Append(channel, s), app, n)
        BY <4>3, <4>5, SentWord DEF TypeOK, UITypes
      <4>. QED  BY <4>1, <4>4, <4>6
    <3>. QED  BY <3>2, <3>4, <3>5
  <2>. QED  BY <2>3, <2>8, <2>9 DEF AsrInv, Told, Transcribing, Waits
<1>3. TypeOK /\ AsrInv => AsrShown
  <2> SUFFICES ASSUME TypeOK, AsrInv, UpToDate  PROVE AsrShown
    BY DEF AsrShown
  <2>1. PICK v : v = Transcribing
    OBVIOUS
  <2>2. app.transcribing = v
    <3>1. Shows("transcribing", app) = v
      BY <2>1, UpToDateShows DEF AsrInv, Transcribing, Fields
    <3>. QED  BY <3>1 DEF Shows
  <2>3. ASSUME asr = "wait"  PROVE app.backlog = Len(queue)
    <3>1. PICK n : n = Len(queue)
      OBVIOUS
    <3>2. Shows("queued", app) = n
      BY <2>3, <3>1, UpToDateShows DEF AsrInv, Fields
    <3>. QED  BY <3>1, <3>2 DEF Shows
  <2>. QED  BY <2>1, <2>2, <2>3 DEF AsrShown, StatusLine, Transcribing
<1>. QED  BY <1>1, <1>2, <1>3, ScreenTypes, PTL DEF Spec

-----------------------------------------------------------------------------
(* What is still to be told, one status more or less.                         *)

LEMMA ToldSentOther ==
    ASSUME NEW kind, NEW ch \in Seq(Status), NEW s \in Status, s.kind # kind,
           NEW T, NEW x \in Seq(T), NEW p \in 0..Len(ch), NEW m \in 0..Len(x),
           ToldFrom(kind, ch, p, m, x)
    PROVE  ToldFrom(kind, Append(ch, s), p, m, x)
<1> DEFINE c == Append(ch, s)
<1>1. /\ Len(c) = Len(ch) + 1 /\ c[Len(ch) + 1] = s /\ Len(ch) \in Nat
      /\ \A q \in 1..Len(ch) : c[q] = ch[q]
  OBVIOUS
<1> HIDE DEF c
<1>2. \A q \in (p + 1)..Len(c) : c[q].kind = kind => q \in (p + 1)..Len(ch) /\ c[q] = ch[q]
  BY <1>1
<1>3. \A q \in (p + 1)..Len(ch) : q \in (p + 1)..Len(c) /\ c[q] = ch[q]
  BY <1>1
<1>4. ASSUME NEW q \in (p + 1)..Len(c), c[q].kind = kind
      PROVE  \E k \in (m + 1)..Len(x) : c[q].what = x[k]
  BY <1>2, <1>4 DEF ToldFrom
<1>5. ASSUME NEW k \in (m + 1)..Len(x)
      PROVE  \E q \in (p + 1)..Len(c) : Carries(kind, c, q, x[k])
  <2>1. PICK q \in (p + 1)..Len(ch) : Carries(kind, ch, q, x[k])
    BY DEF ToldFrom
  <2>. QED  BY <1>3, <2>1 DEF Carries
<1>6. ASSUME NEW q \in (p + 1)..Len(c), NEW r \in (p + 1)..Len(c),
             NEW k \in (m + 1)..Len(x), NEW j \in (m + 1)..Len(x),
             Carries(kind, c, q, x[k]), Carries(kind, c, r, x[j])
      PROVE  q < r <=> k < j
  <2>1. /\ q \in (p + 1)..Len(ch) /\ Carries(kind, ch, q, x[k])
        /\ r \in (p + 1)..Len(ch) /\ Carries(kind, ch, r, x[j])
    BY <1>2, <1>6 DEF Carries
  <2>. QED  BY <2>1 DEF ToldFrom
<1>7. ToldFrom(kind, c, p, m, x)
  BY <1>4, <1>5, <1>6 DEF ToldFrom
<1>. QED  BY <1>7 DEF c

LEMMA ToldSentNew ==
    ASSUME NEW kind, NEW ch \in Seq(Status), NEW s \in Status, s.kind = kind,
           NEW T, NEW x \in Seq(T), NEW v \in T, s.what = v, \A k \in 1..Len(x) : x[k] # v,
           NEW p \in 0..Len(ch), NEW m \in 0..Len(x), ToldFrom(kind, ch, p, m, x)
    PROVE  ToldFrom(kind, Append(ch, s), p, m, Append(x, v))
<1> DEFINE c == Append(ch, s)
           y == Append(x, v)
<1>1. /\ Len(c) = Len(ch) + 1 /\ c[Len(ch) + 1] = s /\ Len(ch) \in Nat
      /\ \A q \in 1..Len(ch) : c[q] = ch[q]
  OBVIOUS
<1>2. /\ Len(y) = Len(x) + 1 /\ y[Len(x) + 1] = v /\ Len(x) \in Nat
      /\ \A k \in 1..Len(x) : y[k] = x[k]
  OBVIOUS
<1> HIDE DEF c, y
<1>3. ASSUME NEW q \in (p + 1)..Len(c), c[q].kind = kind, q # Len(ch) + 1
      PROVE  /\ q \in (p + 1)..Len(ch) /\ c[q] = ch[q]
             /\ \E k \in (m + 1)..Len(x) : c[q].what = x[k]
  <2>1. q \in (p + 1)..Len(ch) /\ c[q] = ch[q]
    BY <1>1, <1>3
  <2>. QED  BY <1>3, <2>1 DEF ToldFrom
<1>4. ASSUME NEW q \in (p + 1)..Len(c), c[q].kind = kind
      PROVE  \E k \in (m + 1)..Len(y) : c[q].what = y[k]
  <2>1. CASE q = Len(ch) + 1
    <3>1. Len(x) + 1 \in (m + 1)..Len(y) /\ c[q].what = y[Len(x) + 1]
      BY <1>1, <1>2, <2>1
    <3>. QED  BY <3>1
  <2>2. CASE q # Len(ch) + 1
    <3>1. PICK k \in (m + 1)..Len(x) : c[q].what = x[k]
      BY <1>3, <1>4, <2>2
    <3>2. k \in (m + 1)..Len(y) /\ y[k] = x[k]
      BY <1>2
    <3>. QED  BY <3>1, <3>2
  <2>. QED  BY <2>1, <2>2
<1>5. ASSUME NEW k \in (m + 1)..Len(y)
      PROVE  \E q \in (p + 1)..Len(c) : Carries(kind, c, q, y[k])
  <2>1. CASE k = Len(x) + 1
    <3>1. Len(ch) + 1 \in (p + 1)..Len(c)
      BY <1>1
    <3>. QED  BY <1>1, <1>2, <2>1, <3>1 DEF Carries
  <2>2. CASE k # Len(x) + 1
    <3>1. k \in (m + 1)..Len(x) /\ y[k] = x[k]
      BY <1>2, <2>2
    <3>2. PICK q \in (p + 1)..Len(ch) : Carries(kind, ch, q, x[k])
      BY <3>1 DEF ToldFrom
    <3>3. q \in (p + 1)..Len(c) /\ c[q] = ch[q]
      BY <1>1
    <3>. QED  BY <3>1, <3>2, <3>3 DEF Carries
  <2>. QED  BY <2>1, <2>2
(* The new value is carried by the new status and by no other.                *)
<1>6. ASSUME NEW q \in (p + 1)..Len(c), NEW k \in (m + 1)..Len(y), Carries(kind, c, q, y[k])
      PROVE  /\ q = Len(ch) + 1 <=> k = Len(x) + 1
             /\ q # Len(ch) + 1 =>
                    /\ q \in (p + 1)..Len(ch) /\ k \in (m + 1)..Len(x)
                    /\ Carries(kind, ch, q, x[k])
  <2>1. CASE q = Len(ch) + 1
    <3>1. y[k] = v
      BY <1>1, <1>6, <2>1 DEF Carries
    <3>2. k \notin 1..Len(x)
      BY <1>2, <3>1
    <3>3. k = Len(x) + 1
      BY <1>2, <3>2
    <3>. QED  BY <2>1, <3>3
  <2>2. CASE q # Len(ch) + 1
    <3>1. c[q].kind = kind /\ c[q].what = y[k]
      BY <1>6 DEF Carries
    <3>2. /\ q \in (p + 1)..Len(ch) /\ c[q] = ch[q]
          /\ \E j \in (m + 1)..Len(x) : c[q].what = x[j]
      BY <1>3, <2>2, <3>1
    <3>3. y[k] # v
      BY <3>1, <3>2
    <3>4. k \in (m + 1)..Len(x) /\ y[k] = x[k]
      BY <1>2, <3>3
    <3>5. Carries(kind, ch, q, x[k])
      BY <3>1, <3>2, <3>4 DEF Carries
    <3>6. k # Len(x) + 1
      BY <1>2, <3>4
    <3>. QED  BY <2>2, <3>2, <3>4, <3>5, <3>6
  <2>. QED  BY <2>1, <2>2
<1>7. ASSUME NEW q \in (p + 1)..Len(c), NEW r \in (p + 1)..Len(c),
             NEW k \in (m + 1)..Len(y), NEW j \in (m + 1)..Len(y),
             Carries(kind, c, q, y[k]), Carries(kind, c, r, y[j])
      PROVE  q < r <=> k < j
  <2>1. CASE q # Len(ch) + 1 /\ r # Len(ch) + 1
    <3>1. /\ q \in (p + 1)..Len(ch) /\ k \in (m + 1)..Len(x) /\ Carries(kind, ch, q, x[k])
          /\ r \in (p + 1)..Len(ch) /\ j \in (m + 1)..Len(x) /\ Carries(kind, ch, r, x[j])
      BY <1>6, <1>7, <2>1
    <3>. QED  BY <3>1 DEF ToldFrom
  <2>2. CASE q = Len(ch) + 1
    <3>1. k = Len(x) + 1
      BY <1>6, <1>7, <2>2
    <3>. QED  BY <1>1, <1>2, <2>2, <3>1
  <2>3. CASE q # Len(ch) + 1 /\ r = Len(ch) + 1
    <3>1. j = Len(x) + 1 /\ k # Len(x) + 1
      BY <1>6, <1>7, <2>3
    <3>. QED  BY <1>1, <1>2, <2>3, <3>1
  <2>. QED  BY <2>1, <2>2, <2>3
<1>8. ToldFrom(kind, c, p, m, y)
  BY <1>4, <1>5, <1>7 DEF ToldFrom
<1>. QED  BY <1>8 DEF c, y

LEMMA ToldFromTail ==
    ASSUME NEW kind, NEW ch \in Seq(Status), ch # <<>>, NEW p \in Nat, NEW m \in Nat,
           NEW T, NEW x \in Seq(T), ToldFrom(kind, ch, p + 1, m, x)
    PROVE  ToldFrom(kind, Tail(ch), p, m, x)
<1> DEFINE c == Tail(ch)
<1>1. /\ Len(ch) \in Nat \ {0} /\ Len(c) = Len(ch) - 1
      /\ \A q \in 1..Len(c) : c[q] = ch[q + 1]
  OBVIOUS
<1> HIDE DEF c
<1>2. \A q \in (p + 1)..Len(c) : q + 1 \in (p + 1 + 1)..Len(ch) /\ c[q] = ch[q + 1]
  BY <1>1
<1>3. ASSUME NEW q \in (p + 1 + 1)..Len(ch)
      PROVE  q - 1 \in (p + 1)..Len(c) /\ c[q - 1] = ch[q]
  BY <1>1
<1>4. ASSUME NEW q \in (p + 1)..Len(c), c[q].kind = kind
      PROVE  \E k \in (m + 1)..Len(x) : c[q].what = x[k]
  <2>1. q + 1 \in (p + 1 + 1)..Len(ch) /\ c[q] = ch[q + 1] /\ ch[q + 1].kind = kind
    BY <1>2, <1>4
  <2>. QED  BY <2>1 DEF ToldFrom
<1>5. ASSUME NEW k \in (m + 1)..Len(x)
      PROVE  \E q \in (p + 1)..Len(c) : Carries(kind, c, q, x[k])
  <2>1. PICK q \in (p + 1 + 1)..Len(ch) : Carries(kind, ch, q, x[k])
    BY DEF ToldFrom
  <2>. QED  BY <1>3, <2>1 DEF Carries
<1>6. ASSUME NEW q \in (p + 1)..Len(c), NEW r \in (p + 1)..Len(c),
             NEW k \in (m + 1)..Len(x), NEW j \in (m + 1)..Len(x),
             Carries(kind, c, q, x[k]), Carries(kind, c, r, x[j])
      PROVE  q < r <=> k < j
  <2>1. /\ q + 1 \in (p + 1 + 1)..Len(ch) /\ Carries(kind, ch, q + 1, x[k])
        /\ r + 1 \in (p + 1 + 1)..Len(ch) /\ Carries(kind, ch, r + 1, x[j])
    BY <1>2, <1>6 DEF Carries
  <2>2. q + 1 < r + 1 <=> k < j
    BY <2>1 DEF ToldFrom
  <2>. QED  BY <2>2
<1>7. ToldFrom(kind, c, p, m, x)
  BY <1>4, <1>5, <1>6 DEF ToldFrom
<1>. QED  BY <1>7 DEF c

(* The first status: of another kind it is not in the count, of this kind it  *)
(* tells of the first that is left.                                           *)
LEMMA ToldFromOther ==
    ASSUME NEW kind, NEW ch \in Seq(Status), NEW m \in Nat, NEW T, NEW x \in Seq(T),
           ToldFrom(kind, ch, 0, m, x), ch[1].kind # kind
    PROVE  ToldFrom(kind, ch, 0 + 1, m, x)
<1>1. ASSUME NEW k \in (m + 1)..Len(x)
      PROVE  \E q \in (0 + 1 + 1)..Len(ch) : Carries(kind, ch, q, x[k])
  <2>1. PICK q \in (0 + 1)..Len(ch) : Carries(kind, ch, q, x[k])
    BY DEF ToldFrom
  <2>2. q # 1
    BY <2>1 DEF Carries
  <2>3. q \in (0 + 1 + 1)..Len(ch)
    BY <2>2
  <2>. QED  BY <2>1, <2>3
<1>2. \A q \in (0 + 1 + 1)..Len(ch) : q \in (0 + 1)..Len(ch)
  OBVIOUS
<1>3. \A q \in (0 + 1 + 1)..Len(ch) : ch[q].kind = kind =>
          \E k \in (m + 1)..Len(x) : ch[q].what = x[k]
  BY <1>2 DEF ToldFrom
<1>4. \A q, r \in (0 + 1 + 1)..Len(ch) : \A k, j \in (m + 1)..Len(x) :
          Carries(kind, ch, q, x[k]) /\ Carries(kind, ch, r, x[j]) => (q < r <=> k < j)
  BY <1>2 DEF ToldFrom
<1>. QED  BY <1>1, <1>3, <1>4 DEF ToldFrom

LEMMA ToldFromFirst ==
    ASSUME NEW kind, NEW ch \in Seq(Status), ch # <<>>, NEW T, NEW x \in Seq(T),
           NEW m \in 0..Len(x), ToldFrom(kind, ch, 0, m, x), ch[1].kind = kind
    PROVE  /\ m + 1 \in 1..Len(x)
           /\ ch[1].what = x[m + 1]
           /\ ToldFrom(kind, ch, 0 + 1, m + 1, x)
<1>0. Len(ch) \in Nat \ {0} /\ Len(x) \in Nat /\ 1 \in (0 + 1)..Len(ch)
  OBVIOUS
<1>1. PICK k \in (m + 1)..Len(x) : ch[1].what = x[k]
  BY <1>0 DEF ToldFrom
<1>2. m + 1 \in 1..Len(x) /\ m + 1 \in (m + 1)..Len(x)
  BY <1>0, <1>1
<1>3. PICK q \in (0 + 1)..Len(ch) : Carries(kind, ch, q, x[m + 1])
  BY <1>2 DEF ToldFrom
<1>4. \A r \in (0 + 1)..Len(ch) : \A j \in (m + 1)..Len(x), i \in (m + 1)..Len(x) :
          Carries(kind, ch, 1, x[i]) /\ Carries(kind, ch, r, x[j]) => (1 < r <=> i < j)
  BY <1>0 DEF ToldFrom
<1>5. ch[1].what = x[m + 1]
  <2>1. Carries(kind, ch, 1, x[k])
    BY <1>1 DEF Carries
  <2>2. 1 < q <=> k < m + 1
    BY <1>2, <1>3, <1>4, <2>1
  <2>3. q = 1
    BY <1>0, <2>2
  <2>. QED  BY <1>3, <2>3 DEF Carries
<1>6. ASSUME NEW r \in (0 + 1)..Len(ch), NEW j \in (m + 1)..Len(x), Carries(kind, ch, r, x[j])
      PROVE  1 < r <=> m + 1 < j
  <2>1. Carries(kind, ch, 1, x[m + 1])
    BY <1>5 DEF Carries
  <2>. QED  BY <1>2, <1>4, <1>6, <2>1
<1>7. ASSUME NEW r \in (0 + 1 + 1)..Len(ch), ch[r].kind = kind
      PROVE  \E j \in (m + 1 + 1)..Len(x) : ch[r].what = x[j]
  <2>1. r \in (0 + 1)..Len(ch) /\ 1 < r
    BY <1>0
  <2>2. PICK j \in (m + 1)..Len(x) : ch[r].what = x[j]
    BY <1>7, <2>1 DEF ToldFrom
  <2>3. m + 1 < j
    BY <1>6, <1>7, <2>1, <2>2 DEF Carries
  <2>. QED  BY <2>2, <2>3
<1>8. ASSUME NEW j \in (m + 1 + 1)..Len(x)
      PROVE  \E r \in (0 + 1 + 1)..Len(ch) : Carries(kind, ch, r, x[j])
  <2>1. j \in (m + 1)..Len(x) /\ m + 1 < j
    OBVIOUS
  <2>2. PICK r \in (0 + 1)..Len(ch) : Carries(kind, ch, r, x[j])
    BY <2>1 DEF ToldFrom
  <2>3. 1 < r
    BY <1>6, <2>1, <2>2
  <2>. QED  BY <2>2, <2>3
<1>9. ToldFrom(kind, ch, 0 + 1, m + 1, x)
  <2>1. \A r \in (0 + 1 + 1)..Len(ch) : r \in (0 + 1)..Len(ch)
    OBVIOUS
  <2>2. \A j \in (m + 1 + 1)..Len(x) : j \in (m + 1)..Len(x)
    OBVIOUS
  <2>3. ASSUME NEW q1 \in (0 + 1 + 1)..Len(ch), NEW r \in (0 + 1 + 1)..Len(ch),
               NEW i \in (m + 1 + 1)..Len(x), NEW j \in (m + 1 + 1)..Len(x),
               Carries(kind, ch, q1, x[i]), Carries(kind, ch, r, x[j])
        PROVE  q1 < r <=> i < j
    BY <2>1, <2>2, <2>3 DEF ToldFrom
  <2>. QED  BY <1>7, <1>8, <2>3 DEF ToldFrom
<1>. QED  BY <1>2, <1>5, <1>9

LEMMA ToldAll ==
    ASSUME NEW kind, NEW T, NEW x \in Seq(T), NEW m \in 0..Len(x), ToldFrom(kind, <<>>, 0, m, x)
    PROVE  m = Len(x)
<1>1. ASSUME NEW k \in (m + 1)..Len(x)  PROVE FALSE
  <2>1. \E q \in (0 + 1)..Len(<<>>) : TRUE
    BY DEF ToldFrom
  <2>. QED  BY <2>1
<1>. QED  BY <1>1

-----------------------------------------------------------------------------
(* A list of the newest: one chunk more, and all of them.                     *)

LEMMA SameSeq ==
    ASSUME NEW S, NEW s \in Seq(S), NEW t \in Seq(S), Len(s) = Len(t),
           \A j \in 1..Len(s) : s[j] = t[j]
    PROVE  s = t
  OBVIOUS

LEMMA ListedOnto ==
    ASSUME NEW cl \in Seq(Chunk), NEW m \in 0..Len(cl), m + 1 \in 1..Len(cl),
           NEW list \in Seq(Chunk), Listed(list, m, cl)
    PROVE  Listed(Newest(Onto(cl[m + 1], list), ChunkHistory), m + 1, cl)
<1>1. PICK x \in Chunk : x = cl[m + 1]
  OBVIOUS
<1>2. PICK l \in Seq(Chunk) : l = Onto(x, list)
  BY OntoProperties
<1>3. /\ Len(l) = Len(list) + 1 /\ l[1] = x
      /\ \A j \in 1..Len(list) : l[j + 1] = list[j]
  BY <1>2 DEF Onto
<1>4. PICK n \in Seq(Chunk) : n = Newest(l, ChunkHistory)
  BY NewestProperties
<1>5. /\ Len(n) = (IF Len(l) < ChunkHistory THEN Len(l) ELSE ChunkHistory)
      /\ \A j \in 1..Len(n) : n[j] = l[j]
  BY <1>4, NewestProperties
<1>6. /\ Len(list) = (IF m < ChunkHistory THEN m ELSE ChunkHistory)
      /\ \A j \in 1..Len(list) : list[j] = cl[m + 1 - j]
  BY DEF Listed
<1>7. Len(n) = (IF m + 1 < ChunkHistory THEN m + 1 ELSE ChunkHistory)
  BY <1>3, <1>5, <1>6
<1>8. ASSUME NEW j \in 1..Len(n)
      PROVE  n[j] = cl[m + 1 + 1 - j]
  <2>1. CASE j = 1
    BY <1>1, <1>3, <1>5, <2>1
  <2>2. CASE j # 1
    <3>1. j - 1 \in 1..Len(list)
      BY <1>6, <1>7, <2>2
    <3>2. n[j] = list[j - 1]
      BY <1>3, <1>5, <3>1
    <3>3. list[j - 1] = cl[m + 1 - (j - 1)]
      BY <1>6, <3>1
    <3>4. m + 1 - (j - 1) = m + 1 + 1 - j
      OBVIOUS
    <3>. QED  BY <3>2, <3>3, <3>4
  <2>. QED  BY <2>1, <2>2
<1>9. Listed(n, m + 1, cl)
  BY <1>7, <1>8 DEF Listed
<1>. QED  BY <1>1, <1>2, <1>4, <1>9

LEMMA ListedAppend ==
    ASSUME NEW cl \in Seq(Chunk), NEW x, NEW m \in 0..Len(cl), NEW list, Listed(list, m, cl)
    PROVE  Listed(list, m, Append(cl, x))
<1>1. \A k \in 1..Len(cl) : Append(cl, x)[k] = cl[k]
  OBVIOUS
<1>2. ASSUME NEW j \in 1..Len(list)
      PROVE  list[j] = Append(cl, x)[m + 1 - j]
  <2>1. m + 1 - j \in 1..Len(cl)
    BY DEF Listed
  <2>. QED  BY <1>1, <2>1 DEF Listed
<1>. QED  BY <1>2 DEF Listed

LEMMA ListedAll ==
    ASSUME NEW cl \in Seq(Chunk), NEW list \in Seq(Chunk), Listed(list, Len(cl), cl)
    PROVE  list = Newest(Reverse(cl), ChunkHistory)
<1>1. /\ Reverse(cl) \in Seq(Chunk) /\ Len(Reverse(cl)) = Len(cl)
      /\ \A j \in 1..Len(cl) : Reverse(cl)[j] = cl[Len(cl) + 1 - j]
  <2>1. ASSUME NEW j \in 1..Len(cl)
        PROVE  Len(cl) - j + 1 \in 1..Len(cl) /\ Len(cl) - j + 1 = Len(cl) + 1 - j
    OBVIOUS
  <2>. QED  BY <2>1 DEF Reverse
<1>2. PICK l \in Seq(Chunk) : l = Reverse(cl)
  BY <1>1
<1>3. /\ Newest(l, ChunkHistory) \in Seq(Chunk)
      /\ Len(Newest(l, ChunkHistory)) = (IF Len(l) < ChunkHistory THEN Len(l) ELSE ChunkHistory)
      /\ \A j \in 1..Len(Newest(l, ChunkHistory)) : Newest(l, ChunkHistory)[j] = l[j]
  BY NewestProperties
<1>4. Len(list) = Len(Newest(l, ChunkHistory))
  BY <1>1, <1>2, <1>3 DEF Listed
<1>5. ASSUME NEW j \in 1..Len(list)
      PROVE  list[j] = Newest(l, ChunkHistory)[j]
  <2>1. list[j] = cl[Len(cl) + 1 - j] /\ j \in 1..Len(cl)
    BY DEF Listed
  <2>. QED  BY <1>1, <1>2, <1>3, <1>4, <2>1
<1>6. list = Newest(l, ChunkHistory)
  BY <1>3, <1>4, <1>5, SameSeq
<1>. QED  BY <1>2, <1>6

-----------------------------------------------------------------------------
(* The chunk list, one status more or less.                                   *)

LEMMA ListSentOther ==
    ASSUME NEW ch \in Seq(Status), NEW s \in Status, NEW a, NEW cl \in Seq(Chunk),
           s.kind \notin {"SessionStarted", "ChunkClosed"}, ListWord(ch, a, cl)
    PROVE  ListWord(Append(ch, s), a, cl)
<1> DEFINE c == Append(ch, s)
<1>1. /\ Len(c) = Len(ch) + 1 /\ c[Len(ch) + 1] = s /\ Len(ch) \in Nat
      /\ \A q \in 1..Len(ch) : c[q] = ch[q]
  OBVIOUS
<1>2. ASSUME NEW p \in 0..Len(ch), NEW m \in 0..Len(cl), ToldFrom("ChunkClosed", ch, p, m, cl)
      PROVE  ToldFrom("ChunkClosed", c, p, m, cl)
  BY <1>2, ToldSentOther
<1> HIDE DEF c
<1>3. ASSUME NEW p \in 0..Len(c), Starts(c, p), NoneAfter({"SessionStarted"}, c, p)
      PROVE  ListAfter(c, p, a, cl)
  <2>1. p \in 0..Len(ch) /\ Starts(ch, p)
    BY <1>1, <1>3 DEF Starts
  <2>2. NoneAfter({"SessionStarted"}, ch, p)
    BY <1>1, <1>3, <2>1 DEF NoneAfter
  <2>3. PICK m \in 0..Len(cl) : /\ IF p = 0 THEN Listed(a.chunks, m, cl) ELSE m = 0
                                /\ ToldFrom("ChunkClosed", ch, p, m, cl)
    BY <2>1, <2>2 DEF ListWord, ListAfter
  <2>. QED  BY <1>2, <2>1, <2>3 DEF ListAfter
<1>4. ListWord(c, a, cl)
  BY <1>3 DEF ListWord
<1>. QED  BY <1>4 DEF c

LEMMA ListSentClosed ==
    ASSUME NEW ch \in Seq(Status), NEW s \in Status, NEW a, NEW cl \in Seq(Chunk),
           NEW x \in Chunk, s.kind = "ChunkClosed", s.what = x,
           \A k \in 1..Len(cl) : cl[k] # x, ListWord(ch, a, cl)
    PROVE  ListWord(Append(ch, s), a, Append(cl, x))
<1> DEFINE c == Append(ch, s)
           d == Append(cl, x)
<1>1. /\ Len(c) = Len(ch) + 1 /\ c[Len(ch) + 1] = s /\ Len(ch) \in Nat
      /\ \A q \in 1..Len(ch) : c[q] = ch[q]
  OBVIOUS
<1>2. /\ Len(d) = Len(cl) + 1 /\ Len(cl) \in Nat
      /\ \A k \in 1..Len(cl) : d[k] = cl[k]
  OBVIOUS
<1>3. ASSUME NEW p \in 0..Len(ch), NEW m \in 0..Len(cl), ToldFrom("ChunkClosed", ch, p, m, cl)
      PROVE  ToldFrom("ChunkClosed", c, p, m, d)
  BY <1>3, ToldSentNew
<1> HIDE DEF c, d
<1>4. ASSUME NEW p \in 0..Len(c), Starts(c, p), NoneAfter({"SessionStarted"}, c, p)
      PROVE  ListAfter(c, p, a, d)
  <2>1. p \in 0..Len(ch) /\ Starts(ch, p)
    BY <1>1, <1>4 DEF Starts
  <2>2. NoneAfter({"SessionStarted"}, ch, p)
    BY <1>1, <1>4, <2>1 DEF NoneAfter
  <2>3. PICK m \in 0..Len(cl) : /\ IF p = 0 THEN Listed(a.chunks, m, cl) ELSE m = 0
                                /\ ToldFrom("ChunkClosed", ch, p, m, cl)
    BY <2>1, <2>2 DEF ListWord, ListAfter
  <2>4. Listed(a.chunks, m, cl) => Listed(a.chunks, m, d)
    BY ListedAppend DEF d
  <2>5. ToldFrom("ChunkClosed", c, p, m, d)
    BY <1>3, <2>1, <2>3
  <2>6. m \in 0..Len(d)
    BY <1>2
  <2>. QED  BY <2>3, <2>4, <2>5, <2>6 DEF ListAfter
<1>5. ListWord(c, a, d)
  BY <1>4 DEF ListWord
<1>. QED  BY <1>5 DEF c, d

LEMMA ListSentStart ==
    ASSUME NEW ch \in Seq(Status), NEW s \in Status, NEW a, s.kind = "SessionStarted"
    PROVE  ListWord(Append(ch, s), a, <<>>)
<1> DEFINE c == Append(ch, s)
<1>1. Len(c) = Len(ch) + 1 /\ c[Len(ch) + 1] = s /\ Len(ch) \in Nat
  OBVIOUS
<1> HIDE DEF c
<1>2. ASSUME NEW p \in 0..Len(c), NoneAfter({"SessionStarted"}, c, p)
      PROVE  p = Len(c)
  BY <1>1, <1>2 DEF NoneAfter
<1>3. ToldFrom("ChunkClosed", c, Len(c), 0, <<>>)
  BY <1>1 DEF ToldFrom
<1>4. 0 \in 0..Len(<<>>) /\ Len(c) # 0
  BY <1>1
<1>5. ListWord(c, a, <<>>)
  BY <1>2, <1>3, <1>4 DEF ListWord, ListAfter
<1>. QED  BY <1>5 DEF c

LEMMA ListRead ==
    ASSUME NEW ch \in Seq(Status), ch # <<>>, NEW a, IsApp(a), NEW cl \in Seq(Chunk),
           ListWord(ch, a, cl)
    PROVE  ListWord(Tail(ch), Applied(a, Head(ch)), cl)
<1> DEFINE c == Tail(ch)
           b == Applied(a, Head(ch))
<1>1. /\ Len(ch) \in Nat \ {0} /\ Len(c) = Len(ch) - 1 /\ Len(cl) \in Nat
      /\ \A q \in 1..Len(c) : c[q] = ch[q + 1]
      /\ Head(ch) = ch[1] /\ ch[1] \in Status
  OBVIOUS
<1>2. \A p \in Nat, m \in Nat :
          ToldFrom("ChunkClosed", ch, p + 1, m, cl) => ToldFrom("ChunkClosed", c, p, m, cl)
  BY ToldFromTail
<1>3. /\ ch[1].kind = "SessionStarted" => b.chunks = <<>>
      /\ ch[1].kind = "ChunkClosed" =>
             b.chunks = Newest(Onto(ch[1].what, a.chunks), ChunkHistory)
      /\ ch[1].kind \notin {"SessionStarted", "ChunkClosed"} => b.chunks = a.chunks
  <2>1. ch[1].kind \in Kinds
    BY <1>1, StatusKinds
  <2>. QED
    BY <1>1, <2>1 DEF IsApp, Applied, ApplyOpened, ApplyClosed, ApplySession, ApplyDone,
                      ApplyFailed, ApplyTranscript, Kinds
<1>4. a.chunks \in Seq(Chunk)
  BY DEF IsApp
<1> HIDE DEF c, b
<1>5. ASSUME NEW p \in 1..Len(c), Starts(c, p), NoneAfter({"SessionStarted"}, c, p)
      PROVE  ListAfter(c, p, b, cl)
  <2>1. p + 1 \in 1..Len(ch) /\ Starts(ch, p + 1)
    BY <1>1, <1>5 DEF Starts
  <2>2. NoneAfter({"SessionStarted"}, ch, p + 1)
    <3>1. ASSUME NEW q \in (p + 1 + 1)..Len(ch)  PROVE ch[q].kind \notin {"SessionStarted"}
      <4>1. q - 1 \in (p + 1)..Len(c) /\ c[q - 1] = ch[q]
        BY <1>1
      <4>. QED  BY <1>5, <4>1 DEF NoneAfter
    <3>. QED  BY <3>1 DEF NoneAfter
  <2>3. ToldFrom("ChunkClosed", ch, p + 1, 0, cl)
    BY <1>1, <2>1, <2>2 DEF ListWord, ListAfter
  <2>4. ToldFrom("ChunkClosed", c, p, 0, cl)
    BY <1>2, <2>3
  <2>. QED  BY <1>1, <2>4 DEF ListAfter
<1>6. ASSUME NoneAfter({"SessionStarted"}, c, 0)
      PROVE  ListAfter(c, 0, b, cl)
  <2>1. NoneAfter({"SessionStarted"}, ch, 1)
    <3>1. ASSUME NEW q \in 2..Len(ch)  PROVE ch[q].kind \notin {"SessionStarted"}
      <4>1. q - 1 \in 1..Len(c) /\ c[q - 1] = ch[q]
        BY <1>1
      <4>. QED  BY <1>6, <4>1 DEF NoneAfter
    <3>. QED  BY <3>1 DEF NoneAfter
  <2>2. CASE ch[1].kind = "SessionStarted"
    <3>1. 1 \in 0..Len(ch) /\ Starts(ch, 1)
      BY <1>1, <2>2 DEF Starts
    <3>2. ToldFrom("ChunkClosed", ch, 0 + 1, 0, cl)
      BY <2>1, <3>1 DEF ListWord, ListAfter
    <3>3. ToldFrom("ChunkClosed", c, 0, 0, cl)
      BY <1>2, <3>2
    <3>4. Listed(b.chunks, 0, cl)
      BY <1>3, <2>2 DEF Listed
    <3>. QED  BY <1>1, <3>3, <3>4 DEF ListAfter
  <2>3. ASSUME ch[1].kind # "SessionStarted"
        PROVE  \E m \in 0..Len(cl) : Listed(a.chunks, m, cl) /\ ToldFrom("ChunkClosed", ch, 0, m, cl)
    <3>1. NoneAfter({"SessionStarted"}, ch, 0)
      BY <1>1, <2>1, <2>3 DEF NoneAfter
    <3>2. 0 \in 0..Len(ch) /\ Starts(ch, 0)
      BY <1>1 DEF Starts
    <3>. QED  BY <3>1, <3>2 DEF ListWord, ListAfter
  <2>4. CASE ch[1].kind = "ChunkClosed"
    <3>1. PICK m \in 0..Len(cl) : Listed(a.chunks, m, cl) /\ ToldFrom("ChunkClosed", ch, 0, m, cl)
      BY <2>3, <2>4
    <3>2. /\ m + 1 \in 1..Len(cl) /\ ch[1].what = cl[m + 1]
          /\ ToldFrom("ChunkClosed", ch, 0 + 1, m + 1, cl)
      BY <2>4, <3>1, ToldFromFirst
    <3>3. ToldFrom("ChunkClosed", c, 0, m + 1, cl)
      BY ONLY <1>1, <1>2, <3>2, m \in 0..Len(cl)
    <3>4. Listed(b.chunks, m + 1, cl)
      BY <1>3, <1>4, <2>4, <3>1, <3>2, ListedOnto
    <3>. QED  BY <3>2, <3>3, <3>4 DEF ListAfter
  <2>5. CASE ch[1].kind \notin {"SessionStarted", "ChunkClosed"}
    <3>1. PICK m \in 0..Len(cl) : Listed(a.chunks, m, cl) /\ ToldFrom("ChunkClosed", ch, 0, m, cl)
      BY <2>3, <2>5
    <3>2. ToldFrom("ChunkClosed", ch, 0 + 1, m, cl)
      BY <2>5, <3>1, ToldFromOther
    <3>3. ToldFrom("ChunkClosed", c, 0, m, cl)
      BY ONLY <1>1, <1>2, <3>2, m \in 0..Len(cl)
    <3>4. Listed(b.chunks, m, cl)
      BY <1>3, <2>5, <3>1 DEF Listed
    <3>. QED  BY <3>3, <3>4 DEF ListAfter
  <2>. QED  BY <2>2, <2>4, <2>5
<1>7. ListWord(c, b, cl)
  BY <1>5, <1>6 DEF ListWord
<1>. QED  BY <1>7 DEF c, b

LEMMA ListDrawn ==
    ASSUME NEW ch, NEW a, IsApp(a), NEW cl, ListWord(ch, a, cl)
    PROVE  ListWord(ch, [a EXCEPT !.finished = TRUE], cl)
<1>1. [a EXCEPT !.finished = TRUE].chunks = a.chunks
  BY DEF IsApp
<1>. QED  BY <1>1 DEF ListWord, ListAfter, Listed

(* Everything read: the list is all of it.                                    *)
LEMMA ListAll ==
    ASSUME NEW a, IsApp(a), NEW cl \in Seq(Chunk), ListWord(<<>>, a, cl)
    PROVE  a.chunks = Newest(Reverse(cl), ChunkHistory)
<1>1. PICK m \in 0..Len(cl) : Listed(a.chunks, m, cl) /\ ToldFrom("ChunkClosed", <<>>, 0, m, cl)
  <2>1. NoneAfter({"SessionStarted"}, <<>>, 0) /\ Starts(<<>>, 0) /\ 0 \in 0..Len(<<>>)
    BY DEF NoneAfter, Starts
  <2>. QED  BY <2>1 DEF ListWord, ListAfter
<1>2. m = Len(cl)
  BY <1>1, ToldAll
<1>. QED  BY <1>1, <1>2, ListedAll DEF IsApp

-----------------------------------------------------------------------------
(* The chunk pane: the writer's own order of chunks, then each part of the    *)
(* pane.                                                                      *)

LEMMA WriterInvStep == TypeOK /\ WriterInv /\ [Next]_vars => WriterInv'
<1> SUFFICES ASSUME TypeOK, WriterInv, [Next]_vars  PROVE WriterInv'
  OBVIOUS
<1> USE DEF TypeOK, WriterTypes
<1>0. \A k \in 1..Len(closed) : closed[k][2] \in Nat
  BY DEF Chunk
<1>1. CASE OpenChunk
  BY <1>1 DEF OpenChunk, WriterInv, Ascends
<1>2. ASSUME NEW why \in Reasons, Discard(why)  PROVE WriterInv'
  <2>1. \A k \in 1..Len(closed) : closed[k][2] < next
    BY <1>2 DEF Discard, WriterInv
  <2>2. \A k \in 1..Len(closed) : writer' = "loop" => closed[k][2] < next'
    BY <1>0, <1>2, <2>1 DEF Discard, After, IndexAfter, Reasons
  <2>3. writer' \in {"loop", "rollover", "ending"} /\ ~open'
    BY <1>2 DEF Discard, After, Reasons
  <2>. QED  BY <1>2, <2>2, <2>3 DEF Discard, WriterInv, Ascends
<1>3. ASSUME NEW why \in Reasons, SendJob(why)  PROVE WriterInv'
  BY <1>3 DEF SendJob, WriterInv, Ascends
<1>4. ASSUME NEW why \in {"cut", "rollover", "ending"}, SayClosed(why)  PROVE WriterInv'
  <2>1. \A k \in 1..Len(closed) : closed[k][2] < next
    BY <1>4 DEF SayClosed, WriterInv
  <2>2. PICK x \in Chunk : x = <<ses, next>>
    BY DEF Chunk
  <2>3. /\ Len(closed') = Len(closed) + 1 /\ closed'[Len(closed) + 1] = x
        /\ \A k \in 1..Len(closed) : closed'[k] = closed[k]
    BY <1>4, <2>2 DEF SayClosed
  <2>4. x[2] = next
    BY <2>2
  <2>5. writer' \in {"loop", "rollover", "ending"} /\ ~open'
        /\ (writer' = "loop" => next' = next + 1)
    BY <1>4 DEF SayClosed, WriterInv, After, IndexAfter
  <2>6. \A k \in 1..Len(closed') : closed'[k][2] <= next
    BY <1>0, <2>1, <2>3, <2>4
  <2>7. \A k \in 1..Len(closed') : writer' = "loop" => closed'[k][2] < next'
    <3>1. ASSUME NEW k \in 1..Len(closed'), writer' = "loop"  PROVE closed'[k][2] < next'
      <4>1. closed'[k][2] \in Nat
        BY <1>0, <2>3, <2>4
      <4>. QED  BY <2>5, <2>6, <3>1, <4>1
    <3>. QED  BY <3>1
  <2>8. Ascends(closed')
    <3>1. ASSUME NEW k \in 1..Len(closed'), NEW m \in 1..Len(closed'), k < m
          PROVE  closed'[k][2] < closed'[m][2]
      <4>1. k \in 1..Len(closed) /\ closed'[k] = closed[k]
        BY <2>3, <3>1
      <4>2. CASE m = Len(closed) + 1
        BY <2>1, <2>3, <2>4, <4>1, <4>2
      <4>3. CASE m # Len(closed) + 1
        <5>1. m \in 1..Len(closed) /\ closed'[m] = closed[m]
          BY <2>3, <4>3
        <5>. QED  BY <3>1, <4>1, <5>1 DEF WriterInv, Ascends
      <4>. QED  BY <4>2, <4>3
    <3>. QED  BY <3>1 DEF Ascends
  <2>. QED  BY <2>5, <2>7, <2>8 DEF WriterInv
<1>5. CASE StartSession
  <2>1. closed' = <<>> /\ writer' = "loop"
    BY <1>5 DEF StartSession
  <2>. QED  BY <2>1 DEF WriterInv, Ascends
<1>6. CASE FailedRollover
  BY <1>6 DEF FailedRollover, WriterInv, Ascends
<1>7. CASE GoIdle
  BY <1>7 DEF GoIdle, WriterInv, Ascends
<1>8. CASE Finish
  BY <1>8 DEF Finish, WriterInv, Ascends
<1>9. CASE WriterFails
  BY <1>9 DEF WriterFails, WriterInv, Ascends
<1>10. CASE UNCHANGED writerVars
  BY <1>10 DEF writerVars, WriterInv, Ascends
<1>11. Transcriber \/ UI \/ Over \/ UNCHANGED vars => UNCHANGED writerVars
  BY DEF Transcriber, LoadModel, TakeJob, Recognize, Done, Failed, Report, AsrReturns,
         UI, Drain, Draw, PollTick, QuitKey, Over, vars
<1>. QED
  BY <1>1, <1>2, <1>3, <1>4, <1>5, <1>6, <1>7, <1>8, <1>9, <1>10, <1>11 DEF Next, Writer

LEMMA SessionStep == TypeOK /\ SessionInv /\ [Next]_vars => SessionInv'
<1> SUFFICES ASSUME TypeOK, SessionInv, [Next]_vars  PROVE SessionInv'
  OBVIOUS
<1>0. About("session") = {"SessionStarted"}
  BY DEF About
<1>1. PICK v : v = ses
  OBVIOUS
<1>2. PICK w : w = ses'
  OBVIOUS
<1>3. ASSUME ui # "off", NEW s, Sends(s), s.kind \in About("session")
      PROVE  Says("session", s) = w
  BY <1>0, <1>2, <1>3 DEF Sends, TellsOf, Says
<1>4. ASSUME ui # "off", v # w
      PROVE  \E s : Sends(s) /\ s.kind \in About("session")
  <2>1. StartSession
    BY <1>1, <1>2, <1>4 DEF Next, Writer, Transcriber, UI, Over, Drain, Draw, PollTick, QuitKey,
           vars, writerVars, OpenChunk, Discard, SendJob, SayClosed, FailedRollover, GoIdle,
           Finish, WriterFails, LoadModel, TakeJob, Recognize, Done, Failed, Report, AsrReturns
  <2>2. PICK s : s = [kind |-> "SessionStarted", what |-> ses + 1]
    OBVIOUS
  <2>3. s \in Status
    BY <2>2, ToldOfNumber DEF OfNumber, TypeOK, WriterTypes
  <2>4. channel' = Append(channel, s) /\ ses' = ses + 1
    BY <1>4, <2>1, <2>2 DEF StartSession, Tells
  <2>. QED  BY <1>0, <2>1, <2>2, <2>3, <2>4 DEF Sends, TellsOf
<1>5. Told("session", v)
  BY <1>1 DEF SessionInv
<1>6. Told("session", w)'
  BY <1>3, <1>4, <1>5, ToldStep DEF Fields
<1>. QED  BY <1>2, <1>6 DEF SessionInv, Told

LEMMA CurrentStep == TypeOK /\ WriterInv /\ CurrentInv /\ [Next]_vars => CurrentInv'
<1> SUFFICES ASSUME TypeOK, WriterInv, CurrentInv, [Next]_vars, open'
             PROVE  Told("current", next)'
  BY DEF CurrentInv
<1>0. About("current") = {"SessionStarted", "ChunkOpened"}
  BY DEF About
<1>1. PICK n : n = next
  OBVIOUS
<1>2. CASE OpenChunk
  <2>1. next' = n
    BY <1>1, <1>2 DEF OpenChunk
  <2> SUFFICES ASSUME ui' # "off"  PROVE LastWord("current", channel', app', n)
    BY <2>1 DEF Told
  <2>2. ui # "off" /\ app' = app
    BY <1>2 DEF OpenChunk, uiVars
  <2>3. PICK s : s = [kind |-> "ChunkOpened", what |-> <<ses, n>>]
    OBVIOUS
  <2>4. s \in Status
    <3>1. <<ses, n>> \in Chunk
      BY <1>1 DEF TypeOK, WriterTypes, Chunk
    <3>. QED  BY <2>3, <3>1, ToldOfChunk DEF OfChunk
  <2>5. channel' = Append(channel, s)
    BY <1>1, <1>2, <2>2, <2>3 DEF OpenChunk, Tells
  <2>6. s.kind \in About("current") /\ Says("current", s) = n
    BY <1>0, <2>3 DEF Says
  <2>7. LastWord("current", Append(channel, s), app, n)
    BY <2>4, <2>6, SentWord DEF TypeOK, UITypes
  <2>. QED  BY <2>2, <2>5, <2>7
<1>3. CASE ~OpenChunk
  <2>0. ~StartSession
    BY DEF StartSession, WriterInv, TypeOK, WriterTypes
  <2>1. open /\ next' = n
    <3>1. CASE Writer
      BY <1>1, <1>3, <2>0, <3>1 DEF Writer, Discard, SendJob, SayClosed, FailedRollover,
             GoIdle, Finish, WriterFails, WriterInv, TypeOK, WriterTypes
    <3>2. CASE Transcriber \/ UI \/ Over \/ UNCHANGED vars
      BY <1>1, <3>2 DEF Transcriber, LoadModel, TakeJob, Recognize, Done, Failed, Report,
             AsrReturns, UI, Drain, Draw, PollTick, QuitKey, Over, vars, writerVars
    <3>. QED  BY <3>1, <3>2 DEF Next
  <2>2. \A s : Sends(s) => s.kind \notin About("current")
    BY <1>0, <1>3, <2>0 DEF Sends, TellsOf
  <2>3. Told("current", n)
    BY <1>1, <2>1 DEF CurrentInv
  <2>4. Told("current", n)'
    BY <2>2, <2>3, ToldStep DEF Fields
  <2>. QED  BY <2>1, <2>4 DEF Told
<1>. QED  BY <1>2, <1>3

LEMMA ListStep == TypeOK /\ WriterInv /\ ListInv /\ [Next]_vars => ListInv'
<1> SUFFICES ASSUME TypeOK, WriterInv, ListInv, [Next]_vars, ui' # "off"
             PROVE  ListWord(channel', app', closed')
  BY DEF ListInv
<1>0. /\ channel \in Seq(Status) /\ IsApp(app) /\ closed \in Seq(Chunk)
  BY DEF TypeOK, UITypes, WriterTypes, WriterInv
<1>1. ui # "off"
  BY DEF Next, Writer, Transcriber, UI, Over, Drain, Draw, PollTick, QuitKey, vars, uiVars,
         OpenChunk, Discard, SendJob, SayClosed, StartSession, FailedRollover, GoIdle, Finish,
         WriterFails, LoadModel, TakeJob, Recognize, Done, Failed, Report, AsrReturns
<1>2. ListWord(channel, app, closed)
  BY <1>1 DEF ListInv
<1>3. CASE StartSession
  <2>1. PICK s : s = [kind |-> "SessionStarted", what |-> ses + 1]
    OBVIOUS
  <2>2. s \in Status
    BY <2>1, ToldOfNumber DEF OfNumber, TypeOK, WriterTypes
  <2>3. channel' = Append(channel, s) /\ app' = app /\ closed' = <<>>
    BY <1>1, <1>3, <2>1 DEF StartSession, Tells, uiVars
  <2>. QED  BY <1>0, <2>1, <2>2, <2>3, ListSentStart
<1>4. ASSUME NEW why \in {"cut", "rollover", "ending"}, SayClosed(why)
      PROVE  ListWord(channel', app', closed')
  <2>1. PICK x \in Chunk : x = <<ses, next>>
    BY DEF Chunk, TypeOK, WriterTypes
  <2>2. PICK s : s = [kind |-> "ChunkClosed", what |-> x]
    OBVIOUS
  <2>3. s \in Status
    BY <2>2, ToldOfChunk DEF OfChunk
  <2>4. channel' = Append(channel, s) /\ app' = app /\ closed' = Append(closed, x)
    BY <1>1, <1>4, <2>1, <2>2 DEF SayClosed, Tells, uiVars
  <2>5. \A k \in 1..Len(closed) : closed[k] # x
    BY <1>4, <2>1 DEF SayClosed, WriterInv, TypeOK, WriterTypes
  <2>6. ListWord(Append(channel, s), app, Append(closed, x))
    BY <1>0, <1>2, <2>2, <2>3, <2>5, ListSentClosed
  <2>. QED  BY <2>4, <2>6
<1>5. CASE (Writer \/ Transcriber) /\ ~StartSession
           /\ ~\E why \in {"cut", "rollover", "ending"} : SayClosed(why)
  <2>1. UNCHANGED uiVars /\ (UNCHANGED channel \/ \E s : Sends(s))
    BY <1>1, <1>5, WriterSends, AsrSends
  <2>2. app' = app /\ closed' = closed
    <3>1. closed' = closed
      BY <1>5 DEF Writer, OpenChunk, Discard, SendJob, FailedRollover, GoIdle, Finish,
             WriterFails, Transcriber, LoadModel, TakeJob, Recognize, Done, Failed, Report,
             AsrReturns, writerVars
    <3>. QED  BY <2>1, <3>1 DEF uiVars
  <2>3. ASSUME NEW s, Sends(s)  PROVE ListWord(channel', app', closed')
    <3>1. /\ s \in Status /\ channel' = Append(channel, s)
          /\ s.kind \notin {"SessionStarted", "ChunkClosed"}
      BY <1>5, <2>3 DEF Sends, TellsOf
    <3>. QED  BY <1>0, <1>2, <2>2, <3>1, ListSentOther
  <2>. QED  BY <1>2, <2>1, <2>2, <2>3
<1>6. CASE Drain
  <2>1. closed' = closed
    BY <1>6 DEF Drain, writerVars
  <2>2. /\ channel # <<>> /\ channel' = Tail(channel)
        /\ app' = Applied(app, Head(channel))
    BY <1>6 DEF Drain
  <2>3. ListWord(Tail(channel), Applied(app, Head(channel)), closed)
    BY <1>0, <1>2, <2>2, ListRead
  <2>. QED  BY <2>1, <2>2, <2>3
<1>7. CASE Draw
  BY <1>0, <1>2, <1>7, ListDrawn DEF Draw, writerVars
<1>8. CASE PollTick \/ Over \/ UNCHANGED vars
  BY <1>2, <1>8 DEF PollTick, Over, vars, uiVars, writerVars
<1>9. ~QuitKey
  BY DEF QuitKey
<1>. QED  BY <1>3, <1>4, <1>5, <1>6, <1>7, <1>8, <1>9 DEF Next, UI

-----------------------------------------------------------------------------
(* The transcript, one status more or less.                                   *)

Entry == Chunk \X (Nat \ {0})

LEMMA EntryLines ==
    ASSUME NEW e \in Entry
    PROVE  /\ e[1] \in Chunk /\ e[2] \in Nat \ {0}
           /\ LinesOf(e) \in Seq(Line) /\ Len(LinesOf(e)) = e[2]
           /\ \A n \in 1..e[2] : LinesOf(e)[n] = [chunk |-> e[1], n |-> n]
<1>1. e[1] \in Chunk /\ e[2] \in Nat \ {0}
  BY DEF Entry
<1>2. \A n \in 1..e[2] : [chunk |-> e[1], n |-> n] \in Line
  BY <1>1 DEF Line
<1>. QED  BY <1>1, <1>2 DEF LinesOf

LEMMA AppendOne ==
    ASSUME NEW S, NEW seq \in Seq(S), NEW x \in S
    PROVE  /\ Append(seq, x) \in Seq(S) /\ Len(Append(seq, x)) = Len(seq) + 1
           /\ Append(seq, x)[Len(seq) + 1] = x
           /\ \A k \in 1..Len(seq) : Append(seq, x)[k] = seq[k]
  OBVIOUS

LEMMA JoinTwo ==
    ASSUME NEW S, NEW s \in Seq(S), NEW t \in Seq(S)
    PROVE  /\ s \o t \in Seq(S) /\ Len(s \o t) = Len(s) + Len(t)
           /\ \A j \in 1..Len(s) : (s \o t)[j] = s[j]
           /\ \A j \in 1..Len(t) : (s \o t)[Len(s) + j] = t[j]
  OBVIOUS

LEMMA TextsOf ==
    ASSUME NEW rd \in Seq(Entry)
    PROVE  /\ Texts(rd) \in Seq(Seq(Line)) /\ Len(Texts(rd)) = Len(rd)
           /\ \A k \in 1..Len(rd) : Texts(rd)[k] = LinesOf(rd[k])
<1>1. \A k \in 1..Len(rd) : LinesOf(rd[k]) \in Seq(Line)
  BY EntryLines
<1>. QED  BY <1>1 DEF Texts

LEMMA TextsAppend ==
    ASSUME NEW rd \in Seq(Entry), NEW e \in Entry
    PROVE  Texts(Append(rd, e)) = Append(Texts(rd), LinesOf(e))
<1>2. PICK t : t = Texts(rd)
  OBVIOUS
<1>3. t \in Seq(Seq(Line)) /\ Len(t) = Len(rd) /\ \A k \in 1..Len(rd) : t[k] = LinesOf(rd[k])
  BY <1>2, TextsOf
<1>4. PICK d \in Seq(Entry) : d = Append(rd, e)
  BY AppendOne
<1>5. Len(d) = Len(rd) + 1 /\ d[Len(rd) + 1] = e /\ \A k \in 1..Len(rd) : d[k] = rd[k]
  BY <1>4
<1>6. PICK l \in Seq(Line) : l = LinesOf(e)
  BY EntryLines
<1>7. PICK u \in Seq(Seq(Line)) : u = Append(t, l)
  BY <1>3, AppendOne
<1>8. Len(u) = Len(rd) + 1 /\ u[Len(rd) + 1] = l /\ \A k \in 1..Len(rd) : u[k] = t[k]
  BY <1>3, <1>7
<1>9. \A k \in 1..Len(d) : u[k] = LinesOf(d[k])
  <2>1. ASSUME NEW k \in 1..Len(d)  PROVE u[k] = LinesOf(d[k])
    <3>1. CASE k = Len(rd) + 1
      BY <1>5, <1>6, <1>8, <3>1
    <3>2. CASE k # Len(rd) + 1
      <4>1. k \in 1..Len(rd)
        BY <1>5, <3>2
      <4>. QED  BY <1>3, <1>5, <1>8, <4>1
    <3>. QED  BY <3>1, <3>2
  <2>. QED  BY <2>1
<1>10. u = Texts(d)
  <2>1. u = [k \in 1..Len(u) |-> u[k]]
    OBVIOUS
  <2>. QED  BY <1>5, <1>8, <1>9, <2>1 DEF Texts
<1>. QED  BY <1>2, <1>3, <1>4, <1>6, <1>7, <1>10

LEMMA NextLine ==
    ASSUME NEW c, NEW i \in Nat
    PROVE  [chunk |-> c, n |-> i] = [[chunk |-> c, n |-> i - 1] EXCEPT !.n = @ + 1]
  OBVIOUS

(* The lines of the next chunk go on top.                                     *)
LEMMA ReadsOn ==
    ASSUME NEW rd \in Seq(Entry), NEW m \in Nat, m + 1 \in 1..Len(rd),
           NEW text \in Seq(Line), ReadsDown(text, m, rd)
    PROVE  ReadsDown(Newest(LinesOf(rd[m + 1]) \o text, TranscriptHistory), m + 1, rd)
<1>1. PICK e \in Entry : e = rd[m + 1]
  OBVIOUS
<1>2. PICK l \in Seq(Line) : l = LinesOf(e)
  BY EntryLines
<1>3. /\ e[1] \in Chunk /\ e[2] \in Nat \ {0} /\ Len(l) = e[2]
      /\ \A n \in 1..e[2] : l[n] = [chunk |-> e[1], n |-> n]
  BY <1>2, EntryLines
<1>4. PICK f \in Seq(Line) : f = l \o text
  BY JoinTwo
<1>5. /\ Len(f) = Len(l) + Len(text) /\ Len(text) \in Nat
      /\ \A j \in 1..Len(l) : f[j] = l[j]
      /\ \A j \in 1..Len(text) : f[Len(l) + j] = text[j]
  BY <1>4, JoinTwo
<1>6. PICK t \in Seq(Line) : t = Newest(f, TranscriptHistory)
  BY NewestProperties
<1>7. /\ Len(t) = (IF Len(f) < TranscriptHistory THEN Len(f) ELSE TranscriptHistory)
      /\ \A j \in 1..Len(t) : t[j] = f[j]
  BY <1>6, NewestProperties
<1>8. Len(t) <= TranscriptHistory /\ t # <<>>
  BY <1>3, <1>5, <1>7
<1>9. t[1] = FirstLine(rd[m + 1])
  <2>1. 1 \in 1..Len(t) /\ 1 \in 1..Len(l) /\ 1 \in 1..e[2]
    BY <1>3, <1>5, <1>7
  <2>2. t[1] = l[1]
    BY <1>5, <1>7, <2>1
  <2>. QED  BY <1>1, <1>3, <2>1, <2>2 DEF FirstLine
<1>10. ASSUME Len(t) < TranscriptHistory
       PROVE  t[Len(t)] = LastLine(rd[1])
  <2>1. Len(t) = Len(f) /\ Len(t) \in 1..Len(t)
    BY <1>3, <1>5, <1>7, <1>10
  <2>2. t[Len(t)] = f[Len(f)]
    BY <1>7, <2>1
  <2>3. CASE m = 0
    <3>1. text = <<>> /\ Len(f) = Len(l) /\ Len(l) \in 1..e[2]
      BY <1>3, <1>5, <2>3 DEF ReadsDown
    <3>2. f[Len(f)] = [chunk |-> e[1], n |-> e[2]]
      BY <1>3, <1>5, <3>1
    <3>. QED  BY <1>1, <2>2, <2>3, <3>2 DEF LastLine
  <2>4. CASE m # 0
    <3>1. text # <<>> /\ (Len(text) < TranscriptHistory => text[Len(text)] = LastLine(rd[1]))
      BY <2>4 DEF ReadsDown
    <3>2. Len(text) < TranscriptHistory /\ Len(text) \in 1..Len(text)
      BY <1>3, <1>5, <1>10, <2>1, <3>1
    <3>3. f[Len(f)] = text[Len(text)]
      BY <1>5, <3>2
    <3>. QED  BY <2>2, <3>1, <3>2, <3>3
  <2>. QED  BY <2>3, <2>4
<1>11. ASSUME NEW j \in 2..Len(t)
       PROVE  Under(t[j - 1], t[j], rd)
  <2>1. PICK n \in Nat \ {0}, w \in Nat : n = Len(l) /\ w = Len(text)
    BY <1>3, <1>5
  <2>2. j \in 2..(n + w)
    <3>1. Len(t) <= Len(f)
      BY <1>5, <1>7
    <3>2. Len(f) = n + w
      BY <1>5, <2>1
    <3>. QED  BY <3>1, <3>2
  <2>3. j \in Nat /\ j - 1 \in 1..Len(t) /\ j \in 1..Len(t)
    OBVIOUS
  <2>4. t[j - 1] = f[j - 1] /\ t[j] = f[j]
    BY <1>7, <2>3
  <2>5. /\ \A k \in 1..n : f[k] = [chunk |-> e[1], n |-> k]
        /\ \A k \in 1..w : f[n + k] = text[k]
    BY <1>3, <1>5, <2>1
  <2>6. CASE j <= n
    <3>1. j - 1 \in 1..n /\ j \in 1..n /\ j - 1 < n
      BY <2>2, <2>6
    <3>2. t[j - 1] = [chunk |-> e[1], n |-> j - 1] /\ t[j] = [chunk |-> e[1], n |-> j]
      BY <2>4, <2>5, <3>1
    <3>3. t[j] = [t[j - 1] EXCEPT !.n = @ + 1]
      <4>1. PICK u : u = t[j - 1]
        OBVIOUS
      <4>2. u = [chunk |-> e[1], n |-> j - 1]
        BY <3>2, <4>1
      <4>3. t[j] = [u EXCEPT !.n = @ + 1]
        BY ONLY <2>3, <3>2, <4>2, NextLine
      <4>. QED  BY <4>1, <4>3
    <3>4. t[j - 1].chunk = rd[m + 1][1] /\ t[j - 1].n < rd[m + 1][2]
      BY <1>1, <1>3, <2>1, <3>1, <3>2
    <3>. QED  BY <3>3, <3>4 DEF Under
  <2>7. CASE j = n + 1
    <3>1. j - 1 = n /\ n \in 1..n /\ w \in Nat \ {0} /\ 1 \in 1..w
      BY <2>1, <2>2, <2>7
    <3>2. t[j - 1] = [chunk |-> e[1], n |-> n] /\ t[j] = text[1]
      BY <2>4, <2>5, <2>7, <3>1
    <3>3. t[j - 1] = LastLine(rd[m + 1])
      BY <1>1, <1>3, <2>1, <3>2 DEF LastLine
    <3>4. m # 0
      BY <2>1, <3>1 DEF ReadsDown
    <3>5. text[1] = FirstLine(rd[m])
      BY <3>4 DEF ReadsDown
    <3>6. PICK k \in 1..Len(rd) : k = m + 1 /\ k > 1 /\ k - 1 = m
      BY <3>4
    <3>7. t[j - 1] = LastLine(rd[k]) /\ t[j] = FirstLine(rd[k - 1])
      BY <3>2, <3>3, <3>5, <3>6
    <3>. QED  BY <3>6, <3>7 DEF Under
  <2>8. CASE j > n + 1
    <3>1. PICK i \in 2..w : j = n + i
      <4>1. j - n \in 2..w /\ j = n + (j - n)
        BY ONLY <2>1, <2>2, <2>3, <2>8
      <4>. QED  BY ONLY <4>1
    <3>2. i - 1 \in 1..w /\ i \in 1..w /\ j - 1 = n + (i - 1)
      BY ONLY <2>1, <3>1
    <3>3. t[j - 1] = text[i - 1] /\ t[j] = text[i]
      BY <2>4, <2>5, <3>1, <3>2
    <3>. QED  BY <2>1, <3>3 DEF ReadsDown
  <2>. QED  BY ONLY <2>1, <2>3, <2>6, <2>7, <2>8
<1>12. ReadsDown(t, m + 1, rd)
  BY <1>8, <1>9, <1>10, <1>11 DEF ReadsDown
<1>. QED  BY <1>1, <1>2, <1>4, <1>6, <1>12

(* A text stays one when a chunk is read after those it is of.                *)
LEMMA ReadsDownAppend ==
    ASSUME NEW rd \in Seq(Entry), NEW e \in Entry, NEW m \in 0..Len(rd), NEW text,
           ReadsDown(text, m, rd)
    PROVE  ReadsDown(text, m, Append(rd, e))
<1>1. PICK d \in Seq(Entry) : d = Append(rd, e)
  BY AppendOne
<1>2. Len(d) = Len(rd) + 1 /\ Len(rd) \in Nat /\ \A k \in 1..Len(rd) : d[k] = rd[k]
  BY <1>1
<1>3. ASSUME NEW x, NEW y, Under(x, y, rd)  PROVE Under(x, y, d)
  <2>1. PICK k \in 1..Len(rd) :
            \/ x.chunk = rd[k][1] /\ x.n < rd[k][2] /\ y = [x EXCEPT !.n = @ + 1]
            \/ k > 1 /\ x = LastLine(rd[k]) /\ y = FirstLine(rd[k - 1])
    BY <1>3 DEF Under
  <2>2. k \in 1..Len(d) /\ d[k] = rd[k]
    BY <1>2
  <2>3. k > 1 => d[k - 1] = rd[k - 1]
    BY <1>2
  <2>. QED  BY <2>1, <2>2, <2>3 DEF Under
<1>4. m # 0 => d[m] = rd[m] /\ d[1] = rd[1]
  BY <1>2
<1>5. ReadsDown(text, m, d)
  BY <1>3, <1>4 DEF ReadsDown
<1>. QED  BY <1>1, <1>5

LEMMA TextSentOther ==
    ASSUME NEW ch \in Seq(Status), NEW s \in Status, NEW a, NEW rd \in Seq(Entry),
           s.kind # "Transcript", TextWord(ch, a, rd)
    PROVE  TextWord(Append(ch, s), a, rd)
<1>1. Texts(rd) \in Seq(Seq(Line)) /\ Len(Texts(rd)) = Len(rd)
  BY TextsOf
<1>2. PICK m \in 0..Len(rd) : /\ ReadsDown(a.transcript, m, rd)
                              /\ ToldFrom("Transcript", ch, 0, m, Texts(rd))
  BY DEF TextWord
<1>3. ToldFrom("Transcript", Append(ch, s), 0, m, Texts(rd))
  BY <1>1, <1>2, ToldSentOther
<1>. QED  BY <1>2, <1>3 DEF TextWord

LEMMA TextSentNew ==
    ASSUME NEW ch \in Seq(Status), NEW s \in Status, NEW a, NEW rd \in Seq(Entry),
           NEW e \in Entry, s.kind = "Transcript", s.what = LinesOf(e),
           \A k \in 1..Len(rd) : rd[k][1] # e[1], TextWord(ch, a, rd)
    PROVE  TextWord(Append(ch, s), a, Append(rd, e))
<1>1. PICK t \in Seq(Seq(Line)) : t = Texts(rd)
  BY TextsOf
<1>2. /\ Len(t) = Len(rd) /\ \A k \in 1..Len(rd) : t[k] = LinesOf(rd[k])
      /\ Texts(Append(rd, e)) = Append(t, LinesOf(e))
  BY <1>1, TextsOf, TextsAppend
<1>3. PICK l \in Seq(Line) : l = LinesOf(e)
  BY EntryLines
<1>4. ASSUME NEW k \in 1..Len(t)  PROVE t[k] # l
  <2>1. PICK c \in Entry : c = rd[k]
    BY <1>2
  <2>0. \A b \in Entry : LinesOf(b)[1].chunk = b[1]
    <3>1. ASSUME NEW b \in Entry  PROVE LinesOf(b)[1].chunk = b[1]
      <4>1. b[2] \in Nat \ {0} /\ \A n \in 1..b[2] : LinesOf(b)[n] = [chunk |-> b[1], n |-> n]
        BY EntryLines
      <4>2. 1 \in 1..b[2]
        BY <4>1
      <4>3. LinesOf(b)[1] = [chunk |-> b[1], n |-> 1]
        BY <4>1, <4>2
      <4>. QED  BY ONLY <4>3
    <3>. QED  BY <3>1
  <2>2. t[k][1].chunk = c[1]
    BY <1>2, <2>0, <2>1
  <2>3. l[1].chunk = e[1]
    BY <1>3, <2>0
  <2>. QED  BY <1>2, <2>1, <2>2, <2>3
<1>5. PICK m \in 0..Len(rd) : /\ ReadsDown(a.transcript, m, rd)
                              /\ ToldFrom("Transcript", ch, 0, m, t)
  BY <1>1 DEF TextWord
<1>6. 0 \in 0..Len(ch) /\ m \in 0..Len(t)
  BY <1>2
<1>7. ToldFrom("Transcript", Append(ch, s), 0, m, Append(t, l))
  BY <1>3, <1>4, <1>5, <1>6, ToldSentNew
<1>8. ReadsDown(a.transcript, m, Append(rd, e))
  BY <1>5, ReadsDownAppend
<1>9. m \in 0..Len(Append(rd, e))
  OBVIOUS
<1>. QED  BY <1>2, <1>3, <1>7, <1>8, <1>9 DEF TextWord

LEMMA TextRead ==
    ASSUME NEW ch \in Seq(Status), ch # <<>>, NEW a, IsApp(a), NEW rd \in Seq(Entry),
           TextWord(ch, a, rd)
    PROVE  TextWord(Tail(ch), Applied(a, Head(ch)), rd)
<1>1. PICK h \in Status : h = Head(ch) /\ h = ch[1]
  OBVIOUS
<1>2. PICK t \in Seq(Seq(Line)) : t = Texts(rd)
  BY TextsOf
<1>3. Len(t) = Len(rd) /\ \A k \in 1..Len(rd) : t[k] = LinesOf(rd[k])
  BY <1>2, TextsOf
<1>4. PICK m \in 0..Len(rd) : /\ ReadsDown(a.transcript, m, rd)
                              /\ ToldFrom("Transcript", ch, 0, m, t)
  BY <1>2 DEF TextWord
<1>5. PICK b : b = Applied(a, h)
  OBVIOUS
<1>6. h.kind # "Transcript" => b.transcript = a.transcript
  BY <1>5, StatusKinds DEF IsApp, Applied, ApplyOpened, ApplyClosed, ApplySession, ApplyDone,
                           ApplyFailed, Kinds
<1>7. CASE h.kind # "Transcript"
  <2>1. m \in Nat
    OBVIOUS
  <2>2. ToldFrom("Transcript", ch, 0 + 1, m, t)
    BY <1>1, <1>4, <1>7, <2>1, ToldFromOther
  <2>3. ToldFrom("Transcript", Tail(ch), 0, m, t)
    BY <2>1, <2>2, ToldFromTail
  <2>4. TextWord(Tail(ch), b, rd)
    BY <1>2, <1>4, <1>6, <1>7, <2>3 DEF TextWord
  <2>. QED  BY <1>1, <1>5, <2>4
<1>8. CASE h.kind = "Transcript"
  <2>1. m \in 0..Len(t)
    BY <1>3
  <2>2. /\ m + 1 \in 1..Len(t) /\ ch[1].what = t[m + 1]
        /\ ToldFrom("Transcript", ch, 0 + 1, m + 1, t)
    BY <1>1, <1>4, <1>8, <2>1, ToldFromFirst
  <2>3. m + 1 \in Nat /\ m \in Nat
    OBVIOUS
  <2>4. ToldFrom("Transcript", Tail(ch), 0, m + 1, t)
    BY <2>2, <2>3, ToldFromTail
  <2>5. b.transcript = Newest(h.what \o a.transcript, TranscriptHistory)
    BY <1>5, <1>8 DEF IsApp, Applied, ApplyTranscript
  <2>6. h.what = LinesOf(rd[m + 1]) /\ m + 1 \in 1..Len(rd)
    BY <1>1, <1>3, <2>2
  <2>7. a.transcript \in Seq(Line)
    BY DEF IsApp
  <2>8. ReadsDown(b.transcript, m + 1, rd)
    BY <1>4, <2>3, <2>5, <2>6, <2>7, ReadsOn
  <2>9. m + 1 \in 0..Len(rd)
    BY <2>6
  <2>10. TextWord(Tail(ch), b, rd)
    BY <1>2, <2>4, <2>8, <2>9 DEF TextWord
  <2>. QED  BY <1>1, <1>5, <2>10
<1>. QED  BY <1>7, <1>8

LEMMA TextDrawn ==
    ASSUME NEW ch, NEW a, IsApp(a), NEW rd, TextWord(ch, a, rd)
    PROVE  TextWord(ch, [a EXCEPT !.finished = TRUE], rd)
<1>1. [a EXCEPT !.finished = TRUE].transcript = a.transcript
  BY DEF IsApp
<1>. QED  BY <1>1 DEF TextWord

-----------------------------------------------------------------------------
(* What the transcriber has done, one status more or less.                    *)

LEMMA DoneSentOther ==
    ASSUME NEW ch \in Seq(Status), NEW s \in Status, NEW a, NEW dn \in Seq(Chunk),
           s.kind # "TranscribeDone", DoneWord(ch, a, dn)
    PROVE  DoneWord(Append(ch, s), a, dn)
<1>1. PICK m \in 0..Len(dn) : /\ Listed(a.transcribed, m, dn)
                              /\ ToldFrom("TranscribeDone", ch, 0, m, dn)
  BY DEF DoneWord
<1>2. ToldFrom("TranscribeDone", Append(ch, s), 0, m, dn)
  BY <1>1, ToldSentOther
<1>. QED  BY <1>1, <1>2 DEF DoneWord

LEMMA DoneSentNew ==
    ASSUME NEW ch \in Seq(Status), NEW s \in Status, NEW a, NEW dn \in Seq(Chunk),
           NEW x \in Chunk, s.kind = "TranscribeDone", s.what = x,
           \A k \in 1..Len(dn) : dn[k] # x, DoneWord(ch, a, dn)
    PROVE  DoneWord(Append(ch, s), a, Append(dn, x))
<1>1. PICK m \in 0..Len(dn) : /\ Listed(a.transcribed, m, dn)
                              /\ ToldFrom("TranscribeDone", ch, 0, m, dn)
  BY DEF DoneWord
<1>2. 0 \in 0..Len(ch)
  OBVIOUS
<1>3. ToldFrom("TranscribeDone", Append(ch, s), 0, m, Append(dn, x))
  BY <1>1, <1>2, ToldSentNew
<1>4. Listed(a.transcribed, m, Append(dn, x))
  BY <1>1, ListedAppend
<1>5. m \in 0..Len(Append(dn, x))
  OBVIOUS
<1>. QED  BY <1>3, <1>4, <1>5 DEF DoneWord

LEMMA DoneRead ==
    ASSUME NEW ch \in Seq(Status), ch # <<>>, NEW a, IsApp(a), NEW dn \in Seq(Chunk),
           DoneWord(ch, a, dn)
    PROVE  DoneWord(Tail(ch), Applied(a, Head(ch)), dn)
<1>1. PICK h \in Status : h = Head(ch) /\ h = ch[1]
  OBVIOUS
<1>2. PICK m \in 0..Len(dn) : /\ Listed(a.transcribed, m, dn)
                              /\ ToldFrom("TranscribeDone", ch, 0, m, dn)
  BY DEF DoneWord
<1>3. PICK b : b = Applied(a, h)
  OBVIOUS
<1>4. /\ h.kind # "TranscribeDone" => b.transcribed = a.transcribed
      /\ h.kind = "TranscribeDone" =>
             b.transcribed = Newest(Onto(h.what, a.transcribed), ChunkHistory)
  BY <1>3, StatusKinds DEF IsApp, Applied, ApplyOpened, ApplyClosed, ApplySession, ApplyDone,
                           ApplyFailed, ApplyTranscript, Kinds
<1>5. m \in Nat /\ m + 1 \in Nat
  OBVIOUS
<1>6. CASE h.kind # "TranscribeDone"
  <2>1. ToldFrom("TranscribeDone", ch, 0 + 1, m, dn)
    BY <1>1, <1>2, <1>5, <1>6, ToldFromOther
  <2>2. ToldFrom("TranscribeDone", Tail(ch), 0, m, dn)
    BY <1>5, <2>1, ToldFromTail
  <2>3. DoneWord(Tail(ch), b, dn)
    BY <1>2, <1>4, <1>6, <2>2 DEF DoneWord
  <2>. QED  BY <1>1, <1>3, <2>3
<1>7. CASE h.kind = "TranscribeDone"
  <2>1. /\ m + 1 \in 1..Len(dn) /\ ch[1].what = dn[m + 1]
        /\ ToldFrom("TranscribeDone", ch, 0 + 1, m + 1, dn)
    BY <1>1, <1>2, <1>7, ToldFromFirst
  <2>2. ToldFrom("TranscribeDone", Tail(ch), 0, m + 1, dn)
    BY <1>5, <2>1, ToldFromTail
  <2>3. a.transcribed \in Seq(Chunk)
    BY DEF IsApp
  <2>4. Listed(b.transcribed, m + 1, dn)
    BY <1>1, <1>2, <1>4, <1>7, <2>1, <2>3, ListedOnto
  <2>5. m + 1 \in 0..Len(dn)
    BY <2>1
  <2>6. DoneWord(Tail(ch), b, dn)
    BY <2>2, <2>4, <2>5 DEF DoneWord
  <2>. QED  BY <1>1, <1>3, <2>6
<1>. QED  BY <1>6, <1>7

LEMMA DoneDrawn ==
    ASSUME NEW ch, NEW a, IsApp(a), NEW dn, DoneWord(ch, a, dn)
    PROVE  DoneWord(ch, [a EXCEPT !.finished = TRUE], dn)
<1>1. [a EXCEPT !.finished = TRUE].transcribed = a.transcribed
  BY DEF IsApp
<1>. QED  BY <1>1 DEF DoneWord

(* Everything read: the list is all of it.                                    *)
LEMMA DoneAll ==
    ASSUME NEW a, IsApp(a), NEW dn \in Seq(Chunk), DoneWord(<<>>, a, dn)
    PROVE  a.transcribed = Newest(Reverse(dn), ChunkHistory)
<1>1. PICK m \in 0..Len(dn) : /\ Listed(a.transcribed, m, dn)
                              /\ ToldFrom("TranscribeDone", <<>>, 0, m, dn)
  BY DEF DoneWord
<1>2. m = Len(dn)
  BY <1>1, ToldAll
<1>. QED  BY <1>1, <1>2, ListedAll DEF IsApp

-----------------------------------------------------------------------------
(* The order of the chunks on their way through the transcriber.              *)

LEMMA BeforeFacts ==
    ASSUME NEW c \in Chunk, NEW d \in Chunk
    PROVE  /\ Before(c, d) => c # d
           /\ \A e \in Chunk : Before(c, d) /\ Before(d, e) => Before(c, e)
<1>1. /\ c = <<c[1], c[2]>> /\ c[1] \in Nat /\ c[2] \in Nat
      /\ d = <<d[1], d[2]>> /\ d[1] \in Nat /\ d[2] \in Nat
      /\ \A e \in Chunk : e[1] \in Nat /\ e[2] \in Nat
  BY DEF Chunk
<1>2. Before(c, d) => c # d
  BY <1>1 DEF Before
<1>3. \A e \in Chunk : Before(c, d) /\ Before(d, e) => Before(c, e)
  BY <1>1 DEF Before
<1>. QED  BY <1>2, <1>3

LEMMA SentStays ==
    ASSUME TypeOK, [Next]_vars, NEW c \in Chunk, Sent(c)
    PROVE  Sent(c)'
<1>0. /\ ses \in Nat /\ next \in Nat /\ c[1] \in Nat /\ c[2] \in Nat
      /\ c = <<ses, next>> => c[1] = ses /\ c[2] = next
  BY DEF TypeOK, WriterTypes, Chunk
<1>1. CASE UNCHANGED <<ses, next>> /\ (writer \in {"closing", "rollover", "ending", "done"} =>
                                       writer' \in {"closing", "rollover", "ending", "done"})
  BY <1>1 DEF Sent
<1>2. CASE ses' = ses /\ next' = next + 1
  <2>1. c[1] < ses \/ (c[1] = ses /\ c[2] <= next)
    BY <1>0 DEF Sent, Before
  <2>2. c[1] < ses' \/ (c[1] = ses' /\ c[2] < next')
    BY <1>0, <1>2, <2>1
  <2>. QED  BY <2>2 DEF Sent, Before
<1>3. CASE ses' = ses + 1
  <2>1. c[1] <= ses
    BY <1>0 DEF Sent, Before
  <2>2. c[1] < ses'
    BY <1>0, <1>3, <2>1
  <2>. QED  BY <2>2 DEF Sent, Before
<1>4. CASE Writer
  <2>1. CASE StartSession
    BY <1>3, <2>1 DEF StartSession
  <2>2. ASSUME NEW why \in Reasons, Discard(why)  PROVE Sent(c)'
    BY <1>1, <1>2, <2>2 DEF Discard, After, IndexAfter, Reasons
  <2>3. ASSUME NEW why \in {"cut", "rollover", "ending"}, SayClosed(why)  PROVE Sent(c)'
    BY <1>1, <1>2, <2>3 DEF SayClosed, After, IndexAfter
  <2>4. CASE OpenChunk \/ FailedRollover \/ GoIdle \/ Finish \/ WriterFails
    BY <1>1, <2>4 DEF OpenChunk, FailedRollover, GoIdle, Finish, WriterFails
  <2>5. ASSUME NEW why \in Reasons, SendJob(why)  PROVE Sent(c)'
    BY <1>1, <2>5 DEF SendJob
  <2>. QED  BY <1>4, <2>1, <2>2, <2>3, <2>4, <2>5 DEF Writer
<1>5. CASE Transcriber \/ UI \/ Over \/ UNCHANGED vars
  BY <1>1, <1>5 DEF Transcriber, LoadModel, TakeJob, Recognize, Done, Failed, Report,
         AsrReturns, UI, Drain, Draw, PollTick, QuitKey, Over, vars, writerVars
<1>. QED  BY <1>4, <1>5 DEF Next

LEMMA OrderStep == TypeOK /\ OrderInv /\ [Next]_vars => OrderInv'
<1> SUFFICES ASSUME TypeOK, OrderInv, [Next]_vars  PROVE OrderInv'
  OBVIOUS
<1>0. /\ queue \in Seq(Chunk) /\ jobs \in Seq(Chunk) /\ read \in Seq(Entry)
      /\ Waiting \in Seq(Chunk) /\ \A k \in 1..Len(read) : read[k][1] \in Chunk
      /\ asr = "work" => job \in Chunk
  BY DEF TypeOK, AsrTypes, Waiting, Entry
<1>1. \A c \in Chunk : Sent(c) => Sent(c)'
  BY SentStays
<1>2. CASE UNCHANGED <<queue, jobs, read>> /\ (asr' = "work" => asr = "work" /\ job' = job)
  <2>1. Waiting' = Waiting /\ read' = read
    BY <1>2 DEF Waiting
  <2>2. /\ \A k \in 1..Len(read) : Sent(read[k][1])'
        /\ \A i \in 1..Len(Waiting) : Sent(Waiting[i])'
        /\ asr' = "work" => Sent(job)'
    <3>1. \A k \in 1..Len(read) : Sent(read[k][1])'
      <4>1. ASSUME NEW k \in 1..Len(read)  PROVE Sent(read[k][1])'
        <5>1. PICK c \in Chunk : c = read[k][1]
          BY <1>0
        <5>2. Sent(c)'
          BY <1>1, <5>1 DEF OrderInv
        <5>. QED  BY <2>1, <5>1, <5>2 DEF Sent
      <4>. QED  BY <4>1
    <3>2. \A i \in 1..Len(Waiting) : Sent(Waiting[i])'
      <4>1. ASSUME NEW i \in 1..Len(Waiting)  PROVE Sent(Waiting[i])'
        <5>1. PICK c \in Chunk : c = Waiting[i]
          BY <1>0
        <5>2. Sent(c)'
          BY <1>1, <5>1 DEF OrderInv
        <5>. QED  BY <2>1, <5>1, <5>2 DEF Sent
      <4>. QED  BY <4>1
    <3>3. ASSUME asr' = "work"  PROVE Sent(job)'
      <4>1. PICK c \in Chunk : c = job /\ job' = c
        BY <1>0, <1>2, <3>3
      <4>2. Sent(c)'
        BY <1>1, <1>2, <3>3, <4>1 DEF OrderInv
      <4>. QED  BY <4>1, <4>2 DEF Sent
    <3>. QED  BY <3>1, <3>2, <3>3
  <2>. QED  BY <1>2, <2>1, <2>2 DEF OrderInv
<1>3. ASSUME NEW why \in Reasons, SendJob(why)  PROVE OrderInv'
  <2>1. PICK x \in Chunk : x = <<ses, next>>
    BY DEF TypeOK, WriterTypes, Chunk
  <2>2. /\ writer = "loop" /\ writer' = "closing" /\ UNCHANGED <<ses, next, queue, read, asr, job>>
        /\ jobs' = Append(jobs, x)
    BY <1>3, <2>1 DEF SendJob, asrVars
  <2>3. \A c : (Sent(c) => Before(c, x)) /\ (Before(c, x) \/ c = x => Sent(c)')
    BY <2>1, <2>2 DEF Sent
  <2>4. PICK w \in Seq(Chunk) : w = Waiting
    BY <1>0
  <2>5. Waiting' = Append(w, x)
    BY <1>0, <2>2, <2>4 DEF Waiting
  <2>6. PICK v \in Seq(Chunk) : v = Append(w, x)
    BY AppendOne
  <2>7. Len(v) = Len(w) + 1 /\ v[Len(w) + 1] = x /\ \A i \in 1..Len(w) : v[i] = w[i]
    BY <2>6, AppendOne
  <2>8. \A i \in 1..Len(v) : i = Len(w) + 1 \/ i \in 1..Len(w)
    BY <2>7
  <2>9. \A i \in 1..Len(w) : Sent(w[i]) /\ Before(w[i], x)
    BY <2>3, <2>4 DEF OrderInv
  <2>10. \A k \in 1..Len(read) : Sent(read[k][1]) /\ Before(read[k][1], x)
    BY <2>3 DEF OrderInv
  <2>11. \A i \in 1..Len(v) : Sent(v[i])'
    BY <2>3, <2>7, <2>8, <2>9
  <2>12. \A k \in 1..Len(read) : Sent(read[k][1])'
    <3>1. ASSUME NEW k \in 1..Len(read)  PROVE Sent(read[k][1])'
      <4>1. PICK c : c = read[k][1]
        OBVIOUS
      <4>2. Sent(c)'
        BY <2>3, <2>10, <4>1
      <4>. QED  BY <2>2, <4>1, <4>2 DEF Sent
    <3>. QED  BY <3>1
  <2>13. \A k \in 1..Len(read), i \in 1..Len(v) : Before(read[k][1], v[i])
    BY <2>4, <2>7, <2>8, <2>10 DEF OrderInv
  <2>14. \A i, j \in 1..Len(v) : i < j => Before(v[i], v[j])
    <3>1. ASSUME NEW i \in 1..Len(v), NEW j \in 1..Len(v), i < j  PROVE Before(v[i], v[j])
      <4>1. i \in 1..Len(w) /\ v[i] = w[i]
        BY <2>7, <3>1
      <4>2. CASE j = Len(w) + 1
        BY <2>7, <2>9, <4>1, <4>2
      <4>3. CASE j \in 1..Len(w)
        <5>1. Before(w[i], w[j])
          BY <2>4, <3>1, <4>1, <4>3 DEF OrderInv
        <5>. QED  BY <2>7, <4>1, <4>3, <5>1
      <4>. QED  BY <2>8, <4>2, <4>3
    <3>. QED  BY <3>1
  <2>15. ASSUME asr = "work"
         PROVE  /\ Sent(job)'
                /\ \A k \in 1..Len(read) : Before(read[k][1], job)
                /\ \A i \in 1..Len(v) : Before(job, v[i])
    <3>1. Before(job, x)
      BY <2>3, <2>15 DEF OrderInv
    <3>2. Sent(job)'
      <4>1. PICK c : c = job
        OBVIOUS
      <4>2. Sent(c)'
        BY <2>3, <3>1, <4>1
      <4>. QED  BY <2>2, <4>1, <4>2 DEF Sent
    <3>3. \A i \in 1..Len(v) : Before(job, v[i])
      BY <2>4, <2>7, <2>8, <2>15, <3>1 DEF OrderInv
    <3>. QED  BY <2>15, <3>2, <3>3 DEF OrderInv
  <2>16. Waiting' = v /\ read' = read /\ asr' = asr /\ job' = job
    BY <2>2, <2>5, <2>6
  <2>17. /\ \A k, m \in 1..Len(read) : k < m => Before(read[k][1], read[m][1])
    BY DEF OrderInv
  <2>18. /\ \A i \in 1..Len(Waiting') : Sent(Waiting[i])'
         /\ asr' = "work" => Sent(job)'
    BY <2>11, <2>15, <2>16 DEF Sent
  <2>. QED
    BY <2>12, <2>13, <2>14, <2>15, <2>16, <2>17, <2>18 DEF OrderInv
<1>4. CASE TakeJob
  <2>1. PICK w \in Seq(Chunk) : w = Waiting /\ w # <<>>
    BY <1>0, <1>4 DEF TakeJob, Waiting
  <2>2. /\ job' = Head(w) /\ queue' = Tail(w) /\ jobs' = <<>> /\ asr' = "work"
        /\ UNCHANGED <<writer, ses, next, read>>
    BY <1>4, <2>1 DEF TakeJob, Waiting, writerVars
  <2>3. Waiting' = Tail(w)
    BY <2>2 DEF Waiting
  <2>4. PICK v \in Seq(Chunk) : v = Tail(w)
    <3>1. Tail(w) \in Seq(Chunk)
      BY <2>1
    <3>. QED  BY <3>1
  <2>5. /\ job' = w[1] /\ 1 \in 1..Len(w) /\ Len(v) = Len(w) - 1
        /\ \A i \in 1..Len(v) : v[i] = w[i + 1] /\ i + 1 \in 1..Len(w)
    BY <2>1, <2>2, <2>4
  <2>6. \A c : Sent(c)' <=> Sent(c)
    BY <2>2 DEF Sent
  <2>7. Waiting' = v /\ read' = read
    BY <2>2, <2>3, <2>4
  <2>8. /\ \A k \in 1..Len(read) : Sent(read[k][1]) /\ Before(read[k][1], w[1])
        /\ \A k \in 1..Len(read), i \in 1..Len(v) : Before(read[k][1], v[i])
        /\ \A i \in 1..Len(v) : Sent(v[i]) /\ Before(w[1], v[i])
        /\ Sent(w[1])
    <3>1. /\ \A k \in 1..Len(read) : Sent(read[k][1])
          /\ \A k \in 1..Len(read), i \in 1..Len(w) : Before(read[k][1], w[i])
          /\ \A i \in 1..Len(w) : Sent(w[i])
          /\ \A i, j \in 1..Len(w) : i < j => Before(w[i], w[j])
      BY <2>1 DEF OrderInv
    <3>2. \A i \in 1..Len(v) : v[i] = w[i + 1] /\ i + 1 \in 1..Len(w) /\ 1 < i + 1
      BY <2>5
    <3>. QED  BY <2>5, <3>1, <3>2
  <2>9. \A i, j \in 1..Len(v) : i < j => Before(v[i], v[j])
    <3>1. ASSUME NEW i \in 1..Len(v), NEW j \in 1..Len(v), i < j  PROVE Before(v[i], v[j])
      <4>1. i + 1 < j + 1
        BY <2>5, <3>1
      <4>. QED  BY <2>1, <2>5, <4>1 DEF OrderInv
    <3>. QED  BY <3>1
  <2>10. /\ \A k \in 1..Len(read') : Sent(read[k][1])'
         /\ \A i \in 1..Len(Waiting') : Sent(Waiting[i])'
         /\ Sent(job)'
    <3>1. ASSUME NEW c, Sent(c)  PROVE Before(c, <<ses', next'>>) \/
              (writer' \in {"closing", "rollover", "ending", "done"} /\ c = <<ses', next'>>)
      BY <2>2, <3>1 DEF Sent
    <3>. QED  BY <2>5, <2>7, <2>8, <3>1 DEF Sent
  <2>11. \A k, m \in 1..Len(read) : k < m => Before(read[k][1], read[m][1])
    BY DEF OrderInv
  <2>. QED  BY <2>5, <2>7, <2>8, <2>9, <2>10, <2>11 DEF OrderInv
<1>5. ASSUME NEW n \in 0..MaxLines, Recognize(n)  PROVE OrderInv'
  <2>1. CASE n = 0
    BY <1>2, <1>5, <2>1 DEF Recognize
  <2>2. CASE n # 0
    <3>1. PICK c \in Chunk : c = job
      BY <1>0, <1>5 DEF Recognize
    <3>2. PICK e \in Entry : e = <<c, n>>
      <4>1. n \in Nat \ {0}
        BY <2>2
      <4>. QED  BY <4>1 DEF Entry
    <3>3. PICK r \in Seq(Entry) : r = Append(read, e)
      BY <1>0, AppendOne
    <3>4. /\ read' = r /\ asr = "work" /\ asr' = "lines" /\ Waiting' = Waiting
          /\ UNCHANGED <<writer, ses, next>>
      BY <1>5, <2>2, <3>1, <3>2, <3>3 DEF Recognize, Waiting, writerVars
    <3>5. /\ Len(r) = Len(read) + 1 /\ r[Len(read) + 1][1] = c
          /\ \A k \in 1..Len(read) : r[k] = read[k]
      BY <1>0, <3>2, <3>3, AppendOne
    <3>6. \A k \in 1..Len(r) : k = Len(read) + 1 \/ k \in 1..Len(read)
      BY <3>5
    <3>7. /\ Sent(c) /\ \A k \in 1..Len(read) : Before(read[k][1], c)
          /\ \A i \in 1..Len(Waiting) : Before(c, Waiting[i])
      BY <3>1, <3>4 DEF OrderInv
    <3>8. \A k \in 1..Len(r) : Sent(r[k][1])
      BY <3>5, <3>6, <3>7 DEF OrderInv
    <3>9. \A k \in 1..Len(r), i \in 1..Len(Waiting) : Before(r[k][1], Waiting[i])
      BY <3>5, <3>6, <3>7 DEF OrderInv
    <3>10. \A k, m \in 1..Len(r) : k < m => Before(r[k][1], r[m][1])
      <4>1. ASSUME NEW k \in 1..Len(r), NEW m \in 1..Len(r), k < m
            PROVE  Before(r[k][1], r[m][1])
        <5>1. k \in 1..Len(read) /\ r[k] = read[k]
          BY <3>5, <4>1
        <5>2. CASE m = Len(read) + 1
          BY <3>5, <3>7, <5>1, <5>2
        <5>3. CASE m \in 1..Len(read)
          <6>1. Before(read[k][1], read[m][1])
            BY <4>1, <5>1, <5>3 DEF OrderInv
          <6>. QED  BY <3>5, <5>1, <5>3, <6>1
        <5>. QED  BY <3>6, <5>2, <5>3
      <4>. QED  BY <4>1
    <3>11. /\ \A k \in 1..Len(read') : Sent(read[k][1])'
           /\ \A i \in 1..Len(Waiting') : Sent(Waiting[i])'
      <4>1. ASSUME NEW x, Sent(x)  PROVE Before(x, <<ses', next'>>) \/
                (writer' \in {"closing", "rollover", "ending", "done"} /\ x = <<ses', next'>>)
        BY <3>4, <4>1 DEF Sent
      <4>2. \A i \in 1..Len(Waiting) : Sent(Waiting[i])
        BY DEF OrderInv
      <4>. QED  BY <3>4, <3>8, <4>1, <4>2 DEF Sent
    <3>. QED  BY <3>4, <3>9, <3>10, <3>11 DEF OrderInv
  <2>. QED  BY <2>1, <2>2
<1>6. CASE Writer /\ ~\E why \in Reasons : SendJob(why)
  BY <1>2, <1>6 DEF Writer, OpenChunk, Discard, SayClosed, StartSession, FailedRollover,
         GoIdle, Finish, WriterFails, asrVars
<1>7. CASE LoadModel \/ Done \/ Failed \/ Report \/ AsrReturns
  BY <1>2, <1>7 DEF LoadModel, Done, Failed, Report, AsrReturns
<1>8. CASE UI \/ Over \/ UNCHANGED vars
  BY <1>2, <1>8 DEF UI, Drain, Draw, PollTick, QuitKey, Over, vars, asrVars
<1>. QED  BY <1>3, <1>4, <1>5, <1>6, <1>7, <1>8 DEF Next, Writer, Transcriber

(* The same of what it has done: no chunk twice, and none that still waits.   *)
LEMMA DoneOrderStep == TypeOK /\ OrderInv /\ DoneOrder /\ [Next]_vars => DoneOrder'
<1> SUFFICES ASSUME TypeOK, OrderInv, DoneOrder, [Next]_vars  PROVE DoneOrder'
  OBVIOUS
<1> DEFINE SentNow(c) ==
        \/ Before(c, <<ses', next'>>)
        \/ writer' \in {"closing", "rollover", "ending", "done"} /\ c = <<ses', next'>>
<1>0. /\ queue \in Seq(Chunk) /\ jobs \in Seq(Chunk) /\ done \in Seq(Chunk)
      /\ Waiting \in Seq(Chunk)
      /\ asr \in {"work", "lines"} => job \in Chunk
  BY DEF TypeOK, AsrTypes, Waiting
<1>1. \A c \in Chunk : Sent(c) => SentNow(c)
  <2>1. ASSUME NEW c \in Chunk, Sent(c)  PROVE SentNow(c)
    <3>1. Sent(c)'
      BY <2>1, SentStays
    <3>. QED  BY <3>1 DEF Sent
  <2>. QED  BY <2>1
<1> HIDE DEF SentNow
<1>2. ASSUME NEW d, NEW w, NEW c, done' = d, Waiting' = w, job' = c,
             \A k \in 1..Len(d) : SentNow(d[k]),
             \A k \in 1..Len(d), i \in 1..Len(w) : Before(d[k], w[i]),
             asr' \in {"work", "lines"} =>
                 /\ \A k \in 1..Len(d) : Before(d[k], c)
                 /\ SentNow(c) /\ \A i \in 1..Len(w) : Before(c, w[i])
      PROVE  DoneOrder'
  <2>1. \A x : SentNow(x) => Sent(x)'
    BY DEF Sent, SentNow
  <2>2. \A k \in 1..Len(done') : Sent(done[k])'
    BY <1>2 DEF Sent, SentNow
  <2>3. asr' \in {"work", "lines"} => Sent(job)'
    BY <1>2 DEF Sent, SentNow
  <2>. QED  BY <1>2, <2>2, <2>3 DEF DoneOrder
<1>3. /\ \A k \in 1..Len(done) : Sent(done[k]) /\ done[k] \in Chunk /\ SentNow(done[k])
      /\ \A k \in 1..Len(done), i \in 1..Len(Waiting) : Before(done[k], Waiting[i])
      /\ asr \in {"work", "lines"} =>
             /\ \A k \in 1..Len(done) : Before(done[k], job)
             /\ Sent(job) /\ SentNow(job)
             /\ \A i \in 1..Len(Waiting) : Before(job, Waiting[i])
  BY <1>0, <1>1 DEF DoneOrder
<1>4. CASE /\ UNCHANGED <<queue, jobs, done>>
           /\ asr' \in {"work", "lines"} => asr \in {"work", "lines"} /\ job' = job
  <2>1. done' = done /\ Waiting' = Waiting
    BY <1>4 DEF Waiting
  <2>. QED  BY <1>2, <1>3, <1>4, <2>1
<1>5. ASSUME NEW why \in Reasons, SendJob(why)  PROVE DoneOrder'
  <2>1. PICK x \in Chunk : x = <<ses, next>>
    BY DEF TypeOK, WriterTypes, Chunk
  <2>2. /\ writer = "loop" /\ UNCHANGED <<queue, done, asr, job>>
        /\ jobs' = Append(jobs, x)
    BY <1>5, <2>1 DEF SendJob, asrVars
  <2>3. \A c : Sent(c) => Before(c, x)
    BY <2>1, <2>2 DEF Sent
  <2>4. PICK w \in Seq(Chunk) : w = Waiting
    BY <1>0
  <2>5. PICK v \in Seq(Chunk) : v = Append(w, x)
    BY AppendOne
  <2>6. Waiting' = v
    BY <1>0, <2>2, <2>4, <2>5 DEF Waiting
  <2>7. \A i \in 1..Len(v) : v[i] = x \/ (i \in 1..Len(w) /\ v[i] = w[i])
    BY <2>5
  <2>8. \A k \in 1..Len(done), i \in 1..Len(v) : Before(done[k], v[i])
    BY <1>3, <2>3, <2>4, <2>7
  <2>9. asr \in {"work", "lines"} => \A i \in 1..Len(v) : Before(job, v[i])
    BY <1>3, <2>3, <2>4, <2>7
  <2>. QED  BY <1>2, <1>3, <2>2, <2>6, <2>8, <2>9
<1>6. CASE TakeJob
  <2>1. PICK w \in Seq(Chunk) : w = Waiting /\ w # <<>>
    BY <1>0, <1>6 DEF TakeJob, Waiting
  <2>2. /\ job' = Head(w) /\ queue' = Tail(w) /\ jobs' = <<>>
        /\ UNCHANGED <<writer, ses, next, done>>
    BY <1>6, <2>1 DEF TakeJob, Waiting, writerVars
  <2>3. PICK v \in Seq(Chunk) : v = Tail(w)
    <3>1. Tail(w) \in Seq(Chunk)
      BY <2>1
    <3>. QED  BY <3>1
  <2>4. Waiting' = v
    BY <2>2, <2>3 DEF Waiting
  <2>5. /\ job' = w[1] /\ 1 \in 1..Len(w) /\ w[1] \in Chunk
        /\ \A i \in 1..Len(v) : v[i] = w[i + 1] /\ i + 1 \in 1..Len(w) /\ 1 < i + 1
    BY <2>1, <2>2, <2>3
  <2>6. /\ \A i \in 1..Len(w) : Sent(w[i])
        /\ \A i, j \in 1..Len(w) : i < j => Before(w[i], w[j])
    BY <2>1 DEF OrderInv
  <2>7. SentNow(w[1]) /\ \A i \in 1..Len(v) : Before(w[1], v[i])
    BY <1>1, <2>5, <2>6
  <2>8. /\ \A k \in 1..Len(done) : Before(done[k], w[1])
        /\ \A k \in 1..Len(done), i \in 1..Len(v) : Before(done[k], v[i])
    BY <1>3, <2>1, <2>5
  <2>. QED  BY <1>2, <1>3, <2>2, <2>4, <2>5, <2>7, <2>8
<1>7. CASE Done
  <2>1. PICK c \in Chunk : c = job
    BY <1>0, <1>7 DEF Done
  <2>2. PICK d \in Seq(Chunk) : d = Append(done, c)
    BY <1>0, AppendOne
  <2>3. /\ done' = d /\ asr = "lines" /\ asr' = "report"
        /\ Waiting' = Waiting /\ job' = job
    BY <1>7, <2>1, <2>2 DEF Done, Waiting
  <2>4. \A k \in 1..Len(d) : d[k] = c \/ (k \in 1..Len(done) /\ d[k] = done[k])
    BY <1>0, <2>2
  <2>5. SentNow(c) /\ \A i \in 1..Len(Waiting) : Before(c, Waiting[i])
    BY <1>3, <2>1, <2>3
  <2>6. /\ \A k \in 1..Len(d) : SentNow(d[k])
        /\ \A k \in 1..Len(d), i \in 1..Len(Waiting) : Before(d[k], Waiting[i])
    BY <1>3, <2>4, <2>5
  <2>. QED  BY <1>2, <2>3, <2>6
<1>8. CASE Writer /\ ~\E why \in Reasons : SendJob(why)
  BY <1>4, <1>8 DEF Writer, OpenChunk, Discard, SayClosed, StartSession, FailedRollover,
         GoIdle, Finish, WriterFails, asrVars
<1>9. CASE Transcriber /\ ~TakeJob /\ ~Done
  BY <1>4, <1>9 DEF Transcriber, LoadModel, Recognize, Failed, Report, AsrReturns
<1>10. CASE UI \/ Over \/ UNCHANGED vars
  BY <1>4, <1>10 DEF UI, Drain, Draw, PollTick, QuitKey, Over, vars, asrVars
<1>. QED  BY <1>5, <1>6, <1>7, <1>8, <1>9, <1>10 DEF Next, Writer

LEMMA DoneStep == TypeOK /\ DoneOrder /\ DoneInv /\ [Next]_vars => DoneInv'
<1> SUFFICES ASSUME TypeOK, DoneOrder, DoneInv, [Next]_vars, ui' # "off"
             PROVE  DoneWord(channel', app', done')
  BY DEF DoneInv
<1>0. channel \in Seq(Status) /\ IsApp(app) /\ done \in Seq(Chunk)
  BY DEF TypeOK, UITypes, AsrTypes
<1>1. ui # "off"
  BY DEF Next, Writer, Transcriber, UI, Over, Drain, Draw, PollTick, QuitKey, vars, uiVars,
         OpenChunk, Discard, SendJob, SayClosed, StartSession, FailedRollover, GoIdle, Finish,
         WriterFails, LoadModel, TakeJob, Recognize, Done, Failed, Report, AsrReturns
<1>2. DoneWord(channel, app, done)
  BY <1>1 DEF DoneInv
<1>3. CASE Done
  <2>1. PICK x \in Chunk : x = job /\ asr = "lines"
    BY <1>3 DEF Done, TypeOK, AsrTypes
  <2>2. PICK s : s = [kind |-> "TranscribeDone", what |-> x]
    OBVIOUS
  <2>3. s \in Status
    BY <2>2, ToldOfChunk DEF OfChunk
  <2>4. channel' = Append(channel, s) /\ app' = app /\ done' = Append(done, x)
    BY <1>1, <1>3, <2>1, <2>2 DEF Done, Tells, uiVars
  <2>5. \A k \in 1..Len(done) : done[k] # x
    <3>1. ASSUME NEW k \in 1..Len(done)  PROVE done[k] # x
      <4>1. Before(done[k], x) /\ done[k] \in Chunk
        BY <1>0, <2>1 DEF DoneOrder
      <4>. QED  BY <4>1, BeforeFacts
    <3>. QED  BY <3>1
  <2>6. DoneWord(Append(channel, s), app, Append(done, x))
    BY <1>0, <1>2, <2>2, <2>3, <2>5, DoneSentNew
  <2>. QED  BY <2>4, <2>6
<1>4. CASE (Writer \/ Transcriber) /\ ~Done
  <2>1. UNCHANGED uiVars /\ (UNCHANGED channel \/ \E s : Sends(s))
    BY <1>1, <1>4, WriterSends, AsrSends
  <2>2. app' = app /\ done' = done
    <3>1. done' = done
      BY <1>4 DEF Writer, OpenChunk, Discard, SendJob, SayClosed, StartSession, FailedRollover,
             GoIdle, Finish, WriterFails, Transcriber, LoadModel, TakeJob, Recognize, Failed,
             Report, AsrReturns, asrVars
    <3>. QED  BY <2>1, <3>1 DEF uiVars
  <2>3. ASSUME NEW s, Sends(s)  PROVE DoneWord(channel', app', done')
    <3>1. s \in Status /\ channel' = Append(channel, s) /\ s.kind # "TranscribeDone"
      BY <1>4, <2>3 DEF Sends, TellsOf
    <3>. QED  BY <1>0, <1>2, <2>2, <3>1, DoneSentOther
  <2>. QED  BY <1>2, <2>1, <2>2, <2>3
<1>5. CASE Drain
  <2>1. /\ channel # <<>> /\ channel' = Tail(channel) /\ done' = done
        /\ app' = Applied(app, Head(channel))
    BY <1>5 DEF Drain, asrVars
  <2>2. DoneWord(Tail(channel), Applied(app, Head(channel)), done)
    BY <1>0, <1>2, <2>1, DoneRead
  <2>. QED  BY <2>1, <2>2
<1>6. CASE Draw
  BY <1>0, <1>2, <1>6, DoneDrawn DEF Draw, asrVars
<1>7. CASE PollTick \/ Over \/ UNCHANGED vars
  BY <1>2, <1>7 DEF PollTick, Over, vars, uiVars, asrVars
<1>8. ~QuitKey
  BY DEF QuitKey
<1>. QED  BY <1>3, <1>4, <1>5, <1>6, <1>7, <1>8 DEF Next, UI

-----------------------------------------------------------------------------
(* The chunk pane, of all its parts.                                          *)

PaneInv == WriterInv /\ SessionInv /\ CurrentInv /\ ListInv /\ DoneInv

(* The chunk pane is the durability list of the header's session, newest      *)
(* first, and under it what the transcriber did last, whatever is sent in     *)
(* between; the status line names the chunk being written (App::apply,        *)
(* draw_chunks, finish_chunk).                                                *)
THEOREM ChunkPaneIsTheSession == Spec => []ChunkPane
<1>1. Init => PaneInv /\ OrderInv /\ DoneOrder
  <2> SUFFICES ASSUME Init  PROVE PaneInv /\ OrderInv /\ DoneOrder
    OBVIOUS
  <2>1. WriterInv
    BY DEF Init, WriterInv, Ascends
  <2>2. SessionInv
    <3>1. Shows("session", NewApp) = 0 /\ ses = 0
      BY DEF Shows, NewApp, Init
    <3>. QED  BY <3>1, ToldAtFirst DEF SessionInv, Fields
  <2>3. CurrentInv
    BY DEF Init, CurrentInv
  <2>4. ListInv
    <3>1. ListAfter(<<>>, 0, NewApp, <<>>)
      <4>1. Listed(NewApp.chunks, 0, <<>>) /\ ToldFrom("ChunkClosed", <<>>, 0, 0, <<>>)
        BY DEF Listed, ToldFrom, NewApp
      <4>. QED  BY <4>1 DEF ListAfter
    <3>. QED  BY <3>1 DEF Init, ListInv, ListWord
  <2>5. DoneInv
    <3>1. DoneWord(<<>>, NewApp, <<>>)
      <4>1. Listed(NewApp.transcribed, 0, <<>>) /\ ToldFrom("TranscribeDone", <<>>, 0, 0, <<>>)
        BY DEF Listed, ToldFrom, NewApp
      <4>. QED  BY <4>1 DEF DoneWord
    <3>. QED  BY <3>1 DEF Init, DoneInv
  <2>6. OrderInv /\ DoneOrder
    <3>1. read = <<>> /\ done = <<>> /\ Waiting = <<>> /\ asr = "loading"
      BY DEF Init, Waiting
    <3>. QED  BY <3>1 DEF OrderInv, DoneOrder
  <2>. QED  BY <2>1, <2>2, <2>3, <2>4, <2>5, <2>6 DEF PaneInv
<1>2. /\ TypeOK /\ PaneInv /\ OrderInv /\ DoneOrder /\ [Next]_vars
      => PaneInv' /\ OrderInv' /\ DoneOrder'
  BY WriterInvStep, SessionStep, CurrentStep, ListStep, DoneStep, OrderStep, DoneOrderStep
     DEF PaneInv
<1>3. TypeOK /\ PaneInv => ChunkPane
  <2> SUFFICES ASSUME TypeOK, PaneInv, UpToDate
               PROVE  /\ Header.session = ses
                      /\ ChunkList = Rows("closed", Newest(Reverse(closed), ChunkHistory))
                             \o Rows("transcribed", Newest(Reverse(done), ChunkHistory))
                      /\ open => StatusLine.chunk = next
    BY DEF ChunkPane
  <2>1. Header.session = ses
    <3>1. PICK v : v = ses
      OBVIOUS
    <3>2. Shows("session", app) = v
      BY <3>1, UpToDateShows DEF PaneInv, SessionInv, Fields
    <3>. QED  BY <3>1, <3>2 DEF Header, Shows
  <2>2. app.chunks = Newest(Reverse(closed), ChunkHistory)
    BY ListAll DEF PaneInv, ListInv, UpToDate, TypeOK, UITypes, WriterTypes
  <2>4. app.transcribed = Newest(Reverse(done), ChunkHistory)
    BY DoneAll DEF PaneInv, DoneInv, UpToDate, TypeOK, UITypes, AsrTypes
  <2>5. ChunkList = Rows("closed", Newest(Reverse(closed), ChunkHistory))
                        \o Rows("transcribed", Newest(Reverse(done), ChunkHistory))
    BY <2>2, <2>4 DEF ChunkList
  <2>3. ASSUME open  PROVE StatusLine.chunk = next
    <3>1. PICK n : n = next
      OBVIOUS
    <3>2. Shows("current", app) = n
      BY <2>3, <3>1, UpToDateShows DEF PaneInv, CurrentInv, Fields
    <3>. QED  BY <3>1, <3>2 DEF StatusLine, Shows
  <2>. QED  BY <2>1, <2>3, <2>5
<1>. QED  BY <1>1, <1>2, <1>3, ScreenTypes, PTL DEF Spec

-----------------------------------------------------------------------------
(* The transcript pane.                                                       *)

LEMMA TextStep == TypeOK /\ OrderInv /\ TextInv /\ [Next]_vars => TextInv'
<1> SUFFICES ASSUME TypeOK, OrderInv, TextInv, [Next]_vars, ui' # "off"
             PROVE  TextWord(channel', app', read')
  BY DEF TextInv
<1>0. channel \in Seq(Status) /\ IsApp(app) /\ read \in Seq(Entry)
  BY DEF TypeOK, UITypes, AsrTypes, Entry
<1>1. ui # "off"
  BY DEF Next, Writer, Transcriber, UI, Over, Drain, Draw, PollTick, QuitKey, vars, uiVars,
         OpenChunk, Discard, SendJob, SayClosed, StartSession, FailedRollover, GoIdle, Finish,
         WriterFails, LoadModel, TakeJob, Recognize, Done, Failed, Report, AsrReturns
<1>2. TextWord(channel, app, read)
  BY <1>1 DEF TextInv
<1>3. ASSUME NEW n \in 0..MaxLines, Recognize(n), n # 0
      PROVE  TextWord(channel', app', read')
  <2>1. PICK c \in Chunk : c = job /\ asr = "work"
    BY <1>3 DEF Recognize, TypeOK, AsrTypes
  <2>2. PICK e \in Entry : e = <<c, n>>
    <3>1. n \in Nat \ {0}
      BY <1>3
    <3>. QED  BY <3>1 DEF Entry
  <2>3. PICK lines : lines = [k \in 1..n |-> [chunk |-> c, n |-> k]]
    OBVIOUS
  <2>4. lines = LinesOf(e) /\ e[1] = c
    BY <2>2, <2>3 DEF LinesOf
  <2>5. PICK s : s = [kind |-> "Transcript", what |-> lines]
    OBVIOUS
  <2>6. s \in Status
    BY <2>4, <2>5, EntryLines DEF Status
  <2>7. channel' = Append(channel, s) /\ app' = app /\ read' = Append(read, e)
    BY <1>1, <1>3, <2>1, <2>2, <2>3, <2>5 DEF Recognize, Tells, uiVars
  <2>8. \A k \in 1..Len(read) : read[k][1] # e[1]
    <3>1. ASSUME NEW k \in 1..Len(read)  PROVE read[k][1] # c
      <4>1. Before(read[k][1], c)
        BY <2>1 DEF OrderInv
      <4>2. read[k][1] \in Chunk
        BY <1>0 DEF Entry
      <4>. QED  BY <4>1, <4>2, BeforeFacts
    <3>. QED  BY <2>4, <3>1
  <2>9. TextWord(Append(channel, s), app, Append(read, e))
    BY <1>0, <1>2, <2>4, <2>5, <2>6, <2>8, TextSentNew
  <2>. QED  BY <2>7, <2>9
<1>4. CASE (Writer \/ Transcriber) /\ ~\E n \in 0..MaxLines : Recognize(n) /\ n # 0
  <2>1. UNCHANGED uiVars /\ (UNCHANGED channel \/ \E s : Sends(s) /\ s.kind # "Transcript")
    <3>1. CASE UNCHANGED channel
      BY <1>1, <1>4, <3>1, WriterSends, AsrSends
    <3>2. CASE ~UNCHANGED channel
      <4>1. UNCHANGED uiVars /\ \E s : Sends(s)
        BY <1>1, <1>4, <3>2, WriterSends, AsrSends
      <4>2. \A s : Sends(s) => s.kind # "Transcript"
        BY <1>4, <3>2 DEF Sends, TellsOf
      <4>. QED  BY <4>1, <4>2
    <3>. QED  BY <3>1, <3>2
  <2>2. app' = app /\ read' = read
    <3>1. read' = read
      BY <1>4 DEF Writer, OpenChunk, Discard, SendJob, SayClosed, StartSession, FailedRollover,
             GoIdle, Finish, WriterFails, Transcriber, LoadModel, TakeJob, Recognize, Done,
             Failed, Report, AsrReturns, asrVars
    <3>. QED  BY <2>1, <3>1 DEF uiVars
  <2>3. ASSUME NEW s, Sends(s), s.kind # "Transcript"
        PROVE  TextWord(channel', app', read')
    <3>1. s \in Status /\ channel' = Append(channel, s)
      BY <2>3 DEF Sends
    <3>. QED  BY <1>0, <1>2, <2>2, <2>3, <3>1, TextSentOther
  <2>. QED  BY <1>2, <2>1, <2>2, <2>3
<1>5. CASE Drain
  <2>1. /\ channel # <<>> /\ channel' = Tail(channel) /\ read' = read
        /\ app' = Applied(app, Head(channel))
    BY <1>5 DEF Drain, asrVars
  <2>2. TextWord(Tail(channel), Applied(app, Head(channel)), read)
    BY <1>0, <1>2, <2>1, TextRead
  <2>. QED  BY <2>1, <2>2
<1>6. CASE Draw
  BY <1>0, <1>2, <1>6, TextDrawn DEF Draw, asrVars
<1>7. CASE PollTick \/ Over \/ UNCHANGED vars
  BY <1>2, <1>7 DEF PollTick, Over, vars, uiVars, asrVars
<1>8. ~QuitKey
  BY DEF QuitKey
<1>. QED  BY <1>3, <1>4, <1>5, <1>6, <1>7, <1>8 DEF Next, UI

(* The transcript pane reads newest chunk first and downwards within a chunk, *)
(* with no line missing above another, whatever failed, was cut off by the    *)
(* bound or came from an earlier session (Status::Transcript, run).           *)
THEOREM TranscriptReadsDown == Spec => []TranscriptPane
<1>1. Init => OrderInv /\ TextInv
  <2> SUFFICES ASSUME Init  PROVE OrderInv /\ TextInv
    OBVIOUS
  <2>1. read = <<>> /\ Waiting = <<>> /\ asr = "loading"
    BY DEF Init, Waiting
  <2>2. OrderInv
    BY <2>1 DEF OrderInv
  <2>3. TextWord(<<>>, NewApp, <<>>)
    <3>1. ReadsDown(NewApp.transcript, 0, <<>>)
      BY DEF ReadsDown, NewApp
    <3>2. Texts(<<>>) \in Seq(Seq(Line)) /\ Len(Texts(<<>>)) = 0
      <4>1. <<>> \in Seq(Entry)
        OBVIOUS
      <4>. QED  BY <4>1, TextsOf
    <3>3. ToldFrom("Transcript", <<>>, 0, 0, Texts(<<>>))
      BY <3>2 DEF ToldFrom
    <3>. QED  BY <3>1, <3>3 DEF TextWord
  <2>4. TextInv
    BY <2>1, <2>3 DEF Init, TextInv
  <2>. QED  BY <2>2, <2>4
<1>2. TypeOK /\ OrderInv /\ TextInv /\ [Next]_vars => OrderInv' /\ TextInv'
  BY OrderStep, TextStep
<1>3. TypeOK /\ OrderInv /\ TextInv => TranscriptPane
  <2> SUFFICES ASSUME TypeOK, OrderInv, TextInv  PROVE TranscriptPane
    OBVIOUS
  <2>1. \A k, m \in 1..Len(read) : k < m => Before(read[k][1], read[m][1])
    BY DEF OrderInv
  <2>2. ASSUME UpToDate  PROVE ReadsDown(TranscriptText, Len(read), read)
    <3>1. TextWord(<<>>, app, read)
      BY <2>2 DEF TextInv, UpToDate
    <3>2. read \in Seq(Entry)
      BY DEF TypeOK, AsrTypes, Entry
    <3>3. Texts(read) \in Seq(Seq(Line)) /\ Len(Texts(read)) = Len(read)
      BY <3>2, TextsOf
    <3>4. PICK m \in 0..Len(read) : /\ ReadsDown(app.transcript, m, read)
                                    /\ ToldFrom("Transcript", <<>>, 0, m, Texts(read))
      BY <3>1 DEF TextWord
    <3>5. m = Len(read)
      BY <3>3, <3>4, ToldAll
    <3>. QED  BY <3>4, <3>5 DEF TranscriptText
  <2>. QED  BY <2>1, <2>2 DEF TranscriptPane
<1>. QED  BY <1>1, <1>2, <1>3, ScreenTypes, PTL DEF Spec
=============================================================================
