---------------------------- MODULE UploadProofs ----------------------------
(* What counts as sent is stored, the final pass completes the bucket and no  *)
(* pass sends the chunk being written, for any number of sessions, chunks and *)
(* passes, and whatever fails.  TLC checks them on two sessions.              *)
EXTENDS Upload, TLAPS

(* What the arguments need of the types: active, skip, openThen and dirNow    *)
(* are compared with files and directories, whatever they are.                *)
TypeOK ==
    /\ dirs \subseteq Dirs /\ dir \in Dirs /\ target \in Dirs \cup {None}
    /\ sessions \subseteq Dirs
    /\ DOMAIN disk \subseteq Files /\ \A f \in DOMAIN disk : disk[f] \in Nat
    /\ DOMAIN sent \subseteq Files /\ \A f \in DOMAIN sent : sent[f] \in Nat
    /\ DOMAIN remote \subseteq Files /\ \A f \in DOMAIN remote : remote[f] \in Nat
    /\ open \in Files \cup {None} /\ listing \in Files \cup {None}
    /\ untold \subseteq Files
    /\ nextIndex \in Nat /\ kept \in Nat
    /\ todo \subseteq Files \X Nat
    /\ up = "send" => put \in [file : Files, stamp : Nat, hashed : Nat]

Over == {"final", "done"}

(* The names that have been in use: a file of a name that has not is new to   *)
(* the pass and to the bucket.  A session's WAVs, a session and the FLACs are *)
(* each made once.                                                            *)
Used(f) ==
    /\ f[1] <= dir \/ (f[2] = "meta" /\ f[1] = target)
    /\ f[2] = "wav" /\ f[1] = dir => f[3] < nextIndex
    /\ f[2] = "flac" => phase \in Over

(* The writer: what it is about to touch is there, and what it deletes for    *)
(* good is never made again.                                                  *)
WriterInv ==
    /\ dir \in dirs /\ Meta(dir) \in DOMAIN disk
    /\ target # None => target \in dirs /\ target > dir /\ Meta(target) \in DOMAIN disk
    /\ open # None => /\ open \in DOMAIN disk /\ listing = None
                      /\ open[2] = "wav" /\ open[1] = dir
    /\ listing # None => listing[2] = "wav" /\ listing[1] = dir
    /\ \A c \in untold : c[1] <= dir /\ (c[1] = dir => kept > 0)
    /\ \A f \in DOMAIN disk : Used(f) /\ (f[2] = "text" /\ f[1] = dir => kept > 0)
    /\ writer = "off" => open = None /\ listing = None /\ target = None

(* Everything the pass or the bucket has seen of a file, as <<file, revision>>*)
Seen ==
    todo \cup {<<f, remote[f]>> : f \in DOMAIN remote}
         \cup (IF up = "send" THEN {<<put.file, put.hashed>>} ELSE {})

(* It is no newer than what is on disk.  A text is not deleted, and of what   *)
(* was deleted the name is not used again, so this goes on to hold.           *)
SeenInv ==
    \A e \in Seen : /\ Used(e[1])
                    /\ e[1] \in DOMAIN disk => e[2] <= disk[e[1]]
                    /\ e[1][2] = "text" => e[1] \in DOMAIN disk

(* A stamp is taken before the bytes are read.                                *)
StampInv ==
    /\ SentIsStored
    /\ up = "send" => put.stamp <= put.hashed
    /\ \A e \in todo : e[1] \in DOMAIN disk => e[2] <= disk[e[1]]

(* main: nothing is written once the final pass has begun.                    *)
MainInv ==
    /\ phase # "recording" => writer = "off" /\ halt
    /\ phase = "joining" => up = "exited"
    /\ phase \in Over => untold = {}
    /\ phase = "final" => up \in {"dir", "list", "file", "send", "finished"}
    /\ phase = "done" => up = "finished"

(* How far the final pass has come: each file is still to be listed, to be    *)
(* opened or to be sent as it is now, or the bucket has it.                   *)
Handled(f) ==
    \/ f[1] \in left
    \/ up = "list" /\ f[1] = dirNow
    \/ up \in {"file", "send"} /\ <<f, disk[f]>> \in todo
    \/ up = "send" /\ put.file = f
    \/ f \in DOMAIN remote /\ remote[f] = disk[f]
FinalInv ==
    /\ phase = "final" => /\ left \subseteq Dirs
                          /\ up # "finished" => active = None
                          /\ up = "list" => skip = None
                          /\ up = "send" => put.file \in DOMAIN disk
                                            /\ put.hashed = disk[put.file]
                          /\ up = "finished" => left = {}
    /\ phase = "final" /\ clean => \A f \in DOMAIN disk : f[1] \in sessions => Handled(f)
    /\ FinalPassComplete

IInv == TypeOK /\ WriterInv /\ SeenInv /\ StampInv /\ MainInv /\ FinalInv

-----------------------------------------------------------------------------
(* None is neither a file nor a directory, and the parts of a file's name are *)
(* what they are called.                                                      *)
LEMMA NameFacts ==
    /\ None \notin Files /\ None \notin Dirs
    /\ \A f \in Files : f[1] \in Dirs /\ f[1] \in Nat /\ f[3] \in Nat
    /\ \A f \in Files : f = <<f[1], f[2], f[3]>>
    /\ \A d \in Dirs : Meta(d) \in Files /\ Text(d) \in Files
    /\ \A d \in Dirs, i \in 0..MaxIndex : Wav(d, i) \in Files
    /\ \A f \in Files : Flac(f[1], f[3]) \in Files
  <1> USE UploadAssumption DEF Files
  <1>1. 0 \in 0..MaxIndex /\ 0..MaxIndex \subseteq Nat
    OBVIOUS
  <1>2. Files \subseteq Dirs \X {"wav", "flac", "meta", "text"} \X Nat
    BY <1>1
  <1>3. None \notin Files /\ None \notin Dirs
    BY <1>2
  <1>4. \A f \in Files : f[1] \in Dirs /\ f[1] \in Nat /\ f[3] \in Nat
    BY <1>1
  <1>5. \A f \in Files : f = <<f[1], f[2], f[3]>>
    OBVIOUS
  <1>6. \A d \in Dirs : Meta(d) \in Files /\ Text(d) \in Files
    BY <1>1 DEF Meta, Text
  <1>7. \A d \in Dirs, i \in 0..MaxIndex : Wav(d, i) \in Files
    BY DEF Wav
  <1>8. \A f \in Files : Flac(f[1], f[3]) \in Files
    BY DEF Flac
  <1> QED
    BY <1>3, <1>4, <1>5, <1>6, <1>7, <1>8

(* A change to a file makes its revision greater, or makes the file.          *)
LEMMA TouchedIs ==
  ASSUME TypeOK, NEW f \in Files
  PROVE  /\ DOMAIN Touched(f) = DOMAIN disk \cup {f}
         /\ \A g \in DOMAIN Touched(f) : Touched(f)[g] \in Nat
         /\ \A g \in DOMAIN disk : disk[g] <= Touched(f)[g]
  <1>1. Rev(f) \in Nat /\ (f \in DOMAIN disk => Rev(f) = disk[f])
    BY DEF Rev, TypeOK
  <1>2. /\ DOMAIN Touched(f) = DOMAIN disk \cup {f}
        /\ Touched(f)[f] = Rev(f) + 1
        /\ \A g \in DOMAIN disk \ {f} : Touched(f)[g] = disk[g]
    BY DEF Touched, With
  <1>3. \A g \in DOMAIN disk : disk[g] \in Nat
    BY DEF TypeOK
  <1>4. \A g \in DOMAIN Touched(f) : Touched(f)[g] \in Nat
    <2> TAKE g \in DOMAIN Touched(f)
    <2>1. CASE g = f
      BY <2>1, <1>1, <1>2
    <2>2. CASE g # f
      BY <2>2, <1>2, <1>3
    <2> QED
      BY <2>1, <2>2
  <1>5. \A g \in DOMAIN disk : disk[g] <= Touched(f)[g]
    <2> TAKE g \in DOMAIN disk
    <2>1. CASE g = f
      BY <2>1, <1>1, <1>2, <1>3
    <2>2. CASE g # f
      BY <2>2, <1>2, <1>3
    <2> QED
      BY <2>1, <2>2
  <1> QED
    BY <1>2, <1>4, <1>5

(* The first state.                                                           *)
LEMMA InitIInv == Init => IInv
  <1> SUFFICES ASSUME Init PROVE IInv
    OBVIOUS
  <1> USE UploadAssumption, NameFacts DEF Init
  <1>1. DOMAIN disk = {Meta(1)} /\ disk[Meta(1)] = 1 /\ 1 \in Dirs
    OBVIOUS
  <1>2. TypeOK
    BY <1>1 DEF TypeOK
  <1>3. Used(Meta(1)) /\ Meta(1)[2] = "meta"
    BY DEF Used, Meta
  <1>4. WriterInv
    BY <1>1, <1>3 DEF WriterInv
  <1>5. Seen = {}
    BY DEF Seen
  <1>6. SeenInv /\ StampInv /\ MainInv
    BY <1>5 DEF SeenInv, StampInv, SentIsStored, MainInv, Over
  <1>7. FinalInv
    BY DEF FinalInv, FinalPassComplete
  <1> QED
    BY <1>2, <1>4, <1>6, <1>7 DEF IInv

-----------------------------------------------------------------------------
(* The recorder and the transcriber.                                          *)

(* What a step on the files must respect, so that nothing the pass has seen   *)
(* is ever newer than the disk: revisions grow, what is made has a name that  *)
(* was not used, names stay used and texts stay.                              *)
Respects ==
    /\ \A f \in DOMAIN disk' : \/ f \in DOMAIN disk /\ disk[f] <= disk'[f]
                               \/ ~Used(f)
                               \/ f[2] = "text" /\ f \notin DOMAIN disk
    /\ \A f \in Files : Used(f) => Used(f)'
    /\ \A f \in DOMAIN disk : f[2] = "text" => f \in DOMAIN disk'

(* Such a step keeps everything as far as the pass and main are concerned.    *)
LEMMA FileStep ==
  ASSUME IInv, TypeOK', WriterInv', Respects,
         UNCHANGED <<mainVars, passVars>>,
         writer = "off" => writer' = "off",
         phase \in Over => UNCHANGED <<disk, untold, sessions>>
  PROVE  IInv'
  <1> USE DEF mainVars, passVars
  <1>1. Seen' = Seen
    BY DEF Seen
  <1>2. \A e \in Seen : e[1] \in Files
    BY DEF IInv, TypeOK, Seen
  <1>3. SeenInv'
    <2> SUFFICES ASSUME NEW e \in Seen
                 PROVE  /\ Used(e[1])'
                        /\ e[1] \in DOMAIN disk' => e[2] <= disk'[e[1]]
                        /\ e[1][2] = "text" => e[1] \in DOMAIN disk'
      BY <1>1 DEF SeenInv
    <2>1. /\ Used(e[1])
          /\ e[1] \in DOMAIN disk => e[2] <= disk[e[1]]
          /\ e[1][2] = "text" => e[1] \in DOMAIN disk
      BY DEF IInv, SeenInv
    <2>2. e[1] \in DOMAIN disk' => e[1] \in DOMAIN disk /\ disk[e[1]] <= disk'[e[1]]
      BY <2>1 DEF Respects
    <2>3. e[2] \in Nat
      BY DEF IInv, TypeOK, Seen
    <2>4. e[1] \in DOMAIN disk' => e[2] <= disk'[e[1]]
      BY <2>1, <2>2, <2>3 DEF IInv, TypeOK
    <2> QED
      BY <2>1, <2>4, <1>2 DEF Respects
  <1>4. StampInv'
    <2>1. todo \subseteq Seen
      BY DEF Seen
    <2>2. \A e \in todo : e[1] \in DOMAIN disk' => e[2] <= disk'[e[1]]
      BY <2>1, <1>1, <1>3 DEF SeenInv
    <2> QED
      BY <2>2 DEF IInv, StampInv, SentIsStored
  <1>5. MainInv'
    BY DEF IInv, MainInv, Over
  <1>6. FinalInv'
    <2>1. CASE phase \in Over
      BY <2>1 DEF IInv, FinalInv, FinalPassComplete, Handled
    <2>2. CASE phase \notin Over
      BY <2>2 DEF FinalInv, FinalPassComplete, Over
    <2> QED
      BY <2>1, <2>2
  <1> QED
    BY <1>3, <1>4, <1>5, <1>6 DEF IInv

(* The writer is off once the final pass begins.                              *)
LEMMA OverIsOff ==
  ASSUME IInv, phase \in Over
  PROVE  writer = "off" /\ open = None /\ listing = None /\ target = None /\ untold = {}
  BY DEF IInv, MainInv, WriterInv, Over

(* A chunk's index was not used in its session.                               *)
LEMMA OpenChunkStep == IInv /\ OpenChunk => IInv'
  <1> SUFFICES ASSUME IInv, OpenChunk PROVE IInv'
    OBVIOUS
  <1>0. PICK w : w = Wav(dir, nextIndex)
    OBVIOUS
  <1>1. TypeOK /\ WriterInv
    BY DEF IInv
  <1>2. w \in Files /\ w[1] = dir /\ w[2] = "wav" /\ w[3] = nextIndex
    <2>1. nextIndex \in 0..MaxIndex
      BY <1>1, UploadAssumption DEF OpenChunk, TypeOK
    <2> QED
      BY <2>1, <1>0, <1>1, NameFacts DEF TypeOK, Wav
  <1>3. dir \in Nat /\ nextIndex \in Nat
    BY <1>1, UploadAssumption DEF TypeOK
  <1>4. ~Used(w)
    BY <1>2, <1>3 DEF Used
  <1>5. w \notin DOMAIN disk
    BY <1>4, <1>1 DEF WriterInv
  <1>6. disk' = With(disk, w, 1) /\ open' = w
    BY <1>0 DEF OpenChunk
  <1>7. /\ DOMAIN disk' = DOMAIN disk \cup {w}
        /\ disk'[w] = 1
        /\ \A f \in DOMAIN disk : disk'[f] = disk[f]
    BY <1>5, <1>6 DEF With
  <1>8. \A f \in Files : Used(f) => Used(f)'
    <2> SUFFICES ASSUME NEW f \in Files, Used(f) PROVE Used(f)'
      OBVIOUS
    <2>1. dir' = dir /\ target' = target /\ phase' = phase /\ nextIndex' = nextIndex + 1
      BY DEF OpenChunk, mainVars
    <2> QED
      BY <2>1, <1>3, NameFacts DEF Used
  <1>9. Used(w)'
    <2>1. dir' = dir /\ nextIndex' = nextIndex + 1
      BY DEF OpenChunk
    <2> QED
      BY <2>1, <1>2, <1>3 DEF Used
  <1>10. TypeOK'
    BY <1>1, <1>2, <1>3, <1>6, <1>7 DEF TypeOK, OpenChunk, passVars
  <1>11. WriterInv'
    <2>1. \A f \in DOMAIN disk' : Used(f)' /\ (f[2] = "text" /\ f[1] = dir => kept > 0)
      BY <1>1, <1>2, <1>7, <1>8, <1>9 DEF WriterInv, TypeOK
    <2>2. open' \in DOMAIN disk' /\ open'[2] = "wav" /\ open'[1] = dir'
      BY <1>2, <1>6, <1>7 DEF OpenChunk
    <2>3. listing' = None /\ target' = None /\ writer' = "on" /\ dir' = dir
          /\ dirs' = dirs /\ untold' = untold /\ kept' = kept
      BY DEF OpenChunk
    <2> QED
      BY <2>1, <2>2, <2>3, <1>1, <1>7 DEF WriterInv, Meta
  <1>12. Respects
    <2>1. \A f \in DOMAIN disk : disk[f] \in Nat
      BY <1>1 DEF TypeOK
    <2>2. ASSUME NEW f \in DOMAIN disk'
          PROVE  (f \in DOMAIN disk /\ disk[f] <= disk'[f]) \/ ~Used(f)
      <3>1. CASE f = w
        BY <3>1, <1>4
      <3>2. CASE f # w
        BY <3>2, <2>1, <1>7
      <3> QED
        BY <3>1, <3>2
    <2>3. \A f \in DOMAIN disk : f \in DOMAIN disk'
      BY <1>7
    <2> QED
      BY <2>2, <2>3, <1>8 DEF Respects
  <1> QED
    BY <1>10, <1>11, <1>12, FileStep, OverIsOff DEF OpenChunk

(* The open WAV changes in place.                                             *)
LEMMA ChangeOpenStep ==
  ASSUME IInv, AppendChunk \/ FinalizeChunk
  PROVE  IInv'
  <1> USE NameFacts
  <1>1. TypeOK /\ WriterInv
    BY DEF IInv
  <1>2. open \in Files /\ open \in DOMAIN disk /\ listing = None
    BY <1>1 DEF AppendChunk, FinalizeChunk, TypeOK, WriterInv
  <1>3. /\ DOMAIN disk' = DOMAIN disk
        /\ \A f \in DOMAIN disk : disk[f] <= disk'[f] /\ disk'[f] \in Nat
    BY <1>1, <1>2, TouchedIs DEF AppendChunk, FinalizeChunk
  <1>4. \A f \in Files : Used(f) => Used(f)'
    BY DEF Used, AppendChunk, FinalizeChunk, recVars, mainVars
  <1>5. TypeOK'
    BY <1>1, <1>2, <1>3 DEF TypeOK, AppendChunk, FinalizeChunk, recVars, passVars
  <1>6. /\ dir' = dir /\ dirs' = dirs /\ target' = target /\ kept' = kept
        /\ untold' = untold /\ writer' = writer /\ sessions' = sessions
        /\ \/ open' = open /\ listing' = listing
           \/ open' = None /\ listing' = open
    BY DEF AppendChunk, FinalizeChunk, recVars
  <1>7. WriterInv'
    <2>1. \A f \in DOMAIN disk' : Used(f)' /\ (f[2] = "text" /\ f[1] = dir => kept > 0)
      BY <1>1, <1>3, <1>4 DEF WriterInv, TypeOK
    <2>2. writer # "off"
      BY <1>1, <1>2, NameFacts DEF WriterInv
    <2> QED
      BY <2>1, <2>2, <1>1, <1>2, <1>3, <1>6 DEF WriterInv, Meta
  <1>8. Respects
    BY <1>3, <1>4 DEF Respects
  <1>9. UNCHANGED <<mainVars, passVars>>
    BY DEF AppendChunk, FinalizeChunk
  <1>10. phase \notin Over
    BY <1>2, NameFacts, OverIsOff
  <1> QED
    BY <1>5, <1>6, <1>7, <1>8, <1>9, <1>10, FileStep

(* A runt is removed, any other chunk listed.                                 *)
LEMMA ListChunkStep == IInv /\ ListChunk => IInv'
  <1> SUFFICES ASSUME IInv, ListChunk PROVE IInv'
    OBVIOUS
  <1>1. TypeOK /\ WriterInv
    BY DEF IInv
  <1>2. listing \in Files /\ listing[2] = "wav" /\ listing[1] = dir /\ listing # None /\ open = None
    BY <1>1 DEF ListChunk, TypeOK, WriterInv
  <1>3. /\ dir' = dir /\ dirs' = dirs /\ target' = target /\ writer' = writer
        /\ sessions' = sessions /\ open' = open /\ listing' = None
        /\ nextIndex' = nextIndex
    BY DEF ListChunk
  <1>4. UNCHANGED <<mainVars, passVars>>
    BY DEF ListChunk
  <1>5. Meta(dir) \in Files /\ Meta(dir) \in DOMAIN disk /\ Meta(dir)[2] = "meta"
    BY <1>1, NameFacts DEF TypeOK, WriterInv, Meta
  <1>6. \A f \in Files : Used(f)' <=> Used(f)
    BY <1>3, <1>4 DEF Used, mainVars
  <1>7. \A f \in DOMAIN disk : disk[f] \in Nat
    BY <1>1 DEF TypeOK
  <1>8. /\ DOMAIN disk' \subseteq DOMAIN disk
        /\ \A f \in DOMAIN disk' : disk'[f] \in Nat /\ disk[f] <= disk'[f]
        /\ \A f \in DOMAIN disk : f[2] # "wav" => f \in DOMAIN disk'
    <2>1. CASE disk' = Without(disk, {listing})
      BY <2>1, <1>2, <1>7 DEF Without
    <2>2. CASE disk' = Touched(Meta(dir))
      <3>1. /\ DOMAIN disk' = DOMAIN disk \cup {Meta(dir)}
            /\ \A g \in DOMAIN disk' : disk'[g] \in Nat
            /\ \A g \in DOMAIN disk : disk[g] <= disk'[g]
        BY <2>2, <1>1, <1>5, TouchedIs
      <3> QED
        BY <3>1, <1>5
    <2> QED
      BY <2>1, <2>2 DEF ListChunk
  <1>9. \/ kept' = kept /\ untold' = untold
        \/ kept' = kept + 1 /\ untold' = untold \cup {listing}
    BY DEF ListChunk
  <1>10. kept \in Nat /\ kept' \in Nat /\ (kept > 0 => kept' > 0) /\ (untold' # untold => kept' > 0)
    BY <1>1, <1>9 DEF TypeOK
  <1>11. TypeOK'
    BY <1>1, <1>2, <1>3, <1>4, <1>8, <1>9, <1>10 DEF TypeOK, passVars
  <1>12. WriterInv'
    <2>1. \A f \in DOMAIN disk' : Used(f)' /\ (f[2] = "text" /\ f[1] = dir' => kept' > 0)
      BY <1>1, <1>3, <1>6, <1>8, <1>10 DEF WriterInv, TypeOK
    <2>2. \A c \in untold' : c[1] <= dir' /\ (c[1] = dir' => kept' > 0)
      <3>1. dir \in Nat
        BY <1>1, UploadAssumption DEF TypeOK
      <3> QED
        BY <3>1, <1>1, <1>2, <1>3, <1>9, <1>10 DEF WriterInv
    <2>3. Meta(dir') \in DOMAIN disk'
      BY <1>3, <1>5, <1>8
    <2>4. target' # None => target' \in dirs' /\ target' > dir' /\ Meta(target') \in DOMAIN disk'
      BY <1>1, <1>3, <1>8 DEF WriterInv, Meta
    <2> QED
      BY <2>1, <2>2, <2>3, <2>4, <1>1, <1>2, <1>3 DEF WriterInv
  <1>13. Respects
    BY <1>1, <1>6, <1>8 DEF Respects, TypeOK
  <1> QED
    BY <1>2, <1>3, <1>4, <1>11, <1>12, <1>13, FileStep, OverIsOff

(* A new session's directory is later than every other.                       *)
LEMMA BeginSessionStep ==
  ASSUME IInv, NEW d \in NewDirs, ~stop, BeginSession(d)
  PROVE  IInv'
  <1>1. TypeOK /\ WriterInv
    BY DEF IInv
  <1>2. /\ d \in Dirs /\ d \in Nat /\ dir \in Nat /\ dir < d
        /\ target = None /\ writer = "on" /\ listing = None
    BY <1>1, UploadAssumption DEF BeginSession, NewDirs, TypeOK, WriterInv
  <1>3. /\ dir' = dir /\ dirs' = dirs \cup {d} /\ writer' = writer /\ sessions' = sessions
        /\ open' = open /\ listing' = listing /\ nextIndex' = nextIndex
        /\ untold' = untold /\ kept' = kept
    BY DEF BeginSession
  <1>4. UNCHANGED <<mainVars, passVars>>
    BY DEF BeginSession
  <1>5. Meta(d) \in Files /\ Meta(d)[1] = d /\ Meta(d)[2] = "meta" /\ d # None
    BY <1>2, NameFacts DEF Meta
  <1>6. ~Used(Meta(d))
    BY <1>2, <1>5, NameFacts DEF Used
  <1>7. Meta(d) \notin DOMAIN disk
    BY <1>1, <1>6 DEF WriterInv
  <1>8. \/ disk' = With(disk, Meta(d), 1) /\ target' = d
        \/ disk' = disk /\ target' = None
    BY <1>2 DEF BeginSession
  <1>9. \A f \in DOMAIN disk : f \in DOMAIN disk' /\ disk'[f] = disk[f]
    BY <1>7, <1>8 DEF With
  <1>10. /\ DOMAIN disk' \subseteq DOMAIN disk \cup {Meta(d)}
         /\ Meta(d) \in DOMAIN disk' => disk'[Meta(d)] = 1 /\ target' = d
         /\ target' = d => Meta(d) \in DOMAIN disk'
    BY <1>2, <1>5, <1>7, <1>8, NameFacts DEF With
  <1>11. \A f \in Files : Used(f) => Used(f)'
    BY <1>2, <1>3, <1>4, NameFacts DEF Used, mainVars
  <1>12. TypeOK'
    <2>1. DOMAIN disk' \subseteq Files /\ \A f \in DOMAIN disk' : disk'[f] \in Nat
      BY <1>1, <1>5, <1>9, <1>10 DEF TypeOK
    <2> QED
      BY <2>1, <1>1, <1>2, <1>3, <1>4, <1>8 DEF TypeOK, passVars
  <1>13. WriterInv'
    <2>1. \A f \in DOMAIN disk : Used(f)' /\ (f[2] = "text" /\ f[1] = dir => kept > 0)
      BY <1>1, <1>11 DEF WriterInv, TypeOK
    <2>2. ASSUME target' = d PROVE Used(Meta(d))'
      <3> PICK m : m = Meta(d)
        OBVIOUS
      <3>1. Used(m)'
        BY <2>2, <1>5 DEF Used
      <3> QED
        BY <3>1 DEF Meta
    <2>3. \A f \in DOMAIN disk' : Used(f)' /\ (f[2] = "text" /\ f[1] = dir' => kept' > 0)
      <3> SUFFICES ASSUME NEW f \in DOMAIN disk'
                   PROVE  Used(f)' /\ (f[2] = "text" /\ f[1] = dir' => kept' > 0)
        OBVIOUS
      <3>1. CASE f \in DOMAIN disk
        BY <3>1, <2>1, <1>3
      <3>2. CASE f = Meta(d)
        <4>1. Used(f)'
          BY <3>2, <1>5, <1>10 DEF Used
        <4> QED
          BY <4>1, <3>2, <1>5
      <3> QED
        BY <3>1, <3>2, <1>10
    <2>4. target' # None => target' \in dirs' /\ target' > dir' /\ Meta(target') \in DOMAIN disk'
      BY <1>2, <1>3, <1>8, <1>10
    <2>5. Meta(dir') \in DOMAIN disk'
      BY <1>1, <1>3, <1>9 DEF WriterInv
    <2>6. open' # None => open' \in DOMAIN disk'
      BY <1>1, <1>3, <1>9 DEF WriterInv
    <2> QED
      BY <2>3, <2>4, <2>5, <2>6, <1>1, <1>2, <1>3 DEF WriterInv
  <1>14. Respects
    <2>1. \A f \in DOMAIN disk' : (f \in DOMAIN disk /\ disk[f] <= disk'[f]) \/ ~Used(f)
      BY <1>1, <1>6, <1>9, <1>10 DEF TypeOK
    <2> QED
      BY <2>1, <1>9, <1>11 DEF Respects
  <1> QED
    BY <1>2, <1>3, <1>4, <1>12, <1>13, <1>14, FileStep, OverIsOff

(* The next session takes the place of the old one, which is discarded if it  *)
(* kept nothing: then it never had a transcript.                              *)
LEMMA SwitchSessionStep == IInv /\ SwitchSession => IInv'
  <1> SUFFICES ASSUME IInv, SwitchSession PROVE IInv'
    OBVIOUS
  <1>1. TypeOK /\ WriterInv
    BY DEF IInv
  <1>2. /\ dir' = target /\ target' = None /\ nextIndex' = 0 /\ kept' = 0
        /\ open' = None /\ listing' = None /\ untold' = untold /\ writer' = writer
        /\ target # None /\ open = None /\ listing = None
    BY DEF SwitchSession
  <1>3. /\ target \in Dirs /\ target \in dirs /\ target \in Nat /\ dir \in Nat
        /\ target > dir /\ Meta(target) \in DOMAIN disk
    BY <1>1, <1>2, UploadAssumption DEF TypeOK, WriterInv
  <1>4. UNCHANGED <<mainVars, passVars>>
    BY DEF SwitchSession
  <1>5. /\ DOMAIN disk' \subseteq DOMAIN disk
        /\ \A f \in DOMAIN disk' : disk'[f] = disk[f]
        /\ \A f \in DOMAIN disk : f \notin DOMAIN disk' => f[1] = dir /\ kept = 0
        /\ dirs' \subseteq dirs /\ target \in dirs'
        /\ sessions' \subseteq sessions \cup {target}
    BY <1>2, <1>3 DEF SwitchSession, Without, FilesIn, SummaryWithoutDir
  <1>6. \A f \in Files : Used(f) => Used(f)' /\ (f[2] = "wav" => f[1] # target)
    <2> SUFFICES ASSUME NEW f \in Files, Used(f) PROVE Used(f)' /\ (f[2] = "wav" => f[1] # target)
      OBVIOUS
    <2>1. f[1] \in Nat
      BY NameFacts
    <2>2. f[1] <= dir \/ (f[2] = "meta" /\ f[1] = target)
      BY DEF Used
    <2>3. f[2] = "flac" => phase' \in Over
      BY <1>4 DEF Used, mainVars
    <2> QED
      BY <1>2, <1>3, <2>1, <2>2, <2>3 DEF Used
  <1>7. \A f \in DOMAIN disk : f \in Files /\ Used(f) /\ (f[2] = "text" /\ f[1] = dir => kept > 0)
    BY <1>1 DEF TypeOK, WriterInv
  <1>8. \A f \in DOMAIN disk : f[2] = "text" => f \in DOMAIN disk' /\ f[1] # target
    <2> SUFFICES ASSUME NEW f \in DOMAIN disk, f[2] = "text"
                 PROVE  f \in DOMAIN disk' /\ f[1] # target
      OBVIOUS
    <2>1. f[1] \in Nat /\ f[1] <= dir /\ (f[1] = dir => kept > 0)
      BY <1>7, NameFacts DEF Used
    <2>2. f[1] # target
      BY <2>1, <1>3
    <2>3. CASE f[1] = dir
      BY <2>1, <2>2, <2>3, <1>1, <1>5 DEF TypeOK
    <2>4. CASE f[1] # dir
      BY <2>2, <2>4, <1>5
    <2> QED
      BY <2>2, <2>3, <2>4
  <1>9. TypeOK'
    BY <1>1, <1>2, <1>3, <1>4, <1>5 DEF TypeOK, passVars
  <1>10. WriterInv'
    <2>1. \A f \in DOMAIN disk' : Used(f)' /\ (f[2] = "text" /\ f[1] = dir' => kept' > 0)
      BY <1>2, <1>5, <1>6, <1>7, <1>8
    <2>2. Meta(dir') \in DOMAIN disk'
      <3>1. Meta(target)[1] = target
        BY DEF Meta
      <3> QED
        BY <3>1, <1>2, <1>3, <1>5
    <2>3. \A c \in untold' : c[1] <= dir' /\ (c[1] = dir' => kept' > 0)
      <3> SUFFICES ASSUME NEW c \in untold PROVE c[1] <= target /\ c[1] # target
        BY <1>2
      <3>1. c[1] \in Nat /\ c[1] <= dir
        BY <1>1, NameFacts DEF TypeOK, WriterInv
      <3> QED
        BY <3>1, <1>3
    <2> QED
      BY <2>1, <2>2, <2>3, <1>2, <1>5 DEF WriterInv
  <1>11. Respects
    BY <1>1, <1>5, <1>6, <1>8 DEF Respects, TypeOK
  <1>12. phase \notin Over
    BY <1>2, OverIsOff
  <1> QED
    BY <1>2, <1>4, <1>9, <1>10, <1>11, <1>12, FileStep

(* The quit key, and the end of the writer.                                   *)
LEMMA StoppingStep ==
  ASSUME IInv, StopRecording \/ WriterReturns
  PROVE  IInv'
  <1>1. TypeOK /\ WriterInv
    BY DEF IInv
  <1>2. /\ open' = open /\ dir' = dir /\ target' = target /\ listing' = listing
        /\ nextIndex' = nextIndex /\ kept' = kept /\ sessions' = sessions
        /\ dirs' = dirs /\ disk' = disk /\ untold' = untold
        /\ UNCHANGED <<mainVars, passVars>>
    BY DEF StopRecording, WriterReturns, diskVars
  <1>3. \/ writer' = writer
        \/ writer' = "off" /\ open = None /\ listing = None /\ target = None
    BY DEF StopRecording, WriterReturns
  <1>4. TypeOK'
    BY <1>1, <1>2 DEF TypeOK, passVars
  <1>5. \A f \in Files : Used(f)' <=> Used(f)
    BY <1>2 DEF Used, mainVars
  <1>6. WriterInv'
    <2>1. \A f \in DOMAIN disk : Used(f)' /\ (f[2] = "text" /\ f[1] = dir => kept > 0)
      BY <1>1, <1>5 DEF WriterInv, TypeOK
    <2> QED
      BY <2>1, <1>1, <1>2, <1>3 DEF WriterInv, Meta
  <1>7. Respects
    BY <1>1, <1>2, <1>5 DEF Respects, TypeOK
  <1> QED
    BY <1>2, <1>3, <1>4, <1>6, <1>7, FileStep

(* A transcript is written for a chunk that was kept, so its directory stays. *)
LEMMA TranscribeStep == IInv /\ Transcribe => IInv'
  <1> SUFFICES ASSUME IInv, Transcribe PROVE IInv'
    OBVIOUS
  <1>1. TypeOK /\ WriterInv
    BY DEF IInv
  <1>2. PICK c \in untold : untold' = untold \ {c} /\ disk' = Touched(Text(c[1]))
                            /\ UNCHANGED <<recVars, dirs, mainVars, passVars>>
    BY DEF Transcribe
  <1>3. PICK t \in Files : t = Text(c[1])
    BY <1>1, NameFacts DEF TypeOK
  <1>4. t[1] = c[1] /\ t[2] = "text"
    BY <1>3 DEF Text
  <1>5. c[1] <= dir /\ (c[1] = dir => kept > 0)
    BY <1>1 DEF WriterInv
  <1>6. /\ DOMAIN disk' = DOMAIN disk \cup {t}
        /\ \A f \in DOMAIN disk' : disk'[f] \in Nat
        /\ \A f \in DOMAIN disk : disk[f] <= disk'[f]
    BY <1>1, <1>2, <1>3, TouchedIs
  <1>7. /\ open' = open /\ dir' = dir /\ target' = target /\ listing' = listing
        /\ nextIndex' = nextIndex /\ kept' = kept /\ sessions' = sessions
        /\ writer' = writer /\ dirs' = dirs
    BY <1>2 DEF recVars
  <1>8. \A f \in Files : Used(f)' <=> Used(f)
    BY <1>2, <1>7 DEF Used, mainVars
  <1>9. Used(t)
    BY <1>4, <1>5 DEF Used
  <1>10. TypeOK'
    BY <1>1, <1>2, <1>6, <1>7 DEF TypeOK, passVars
  <1>11. WriterInv'
    <2>1. \A f \in DOMAIN disk' : Used(f)' /\ (f[2] = "text" /\ f[1] = dir => kept > 0)
      <3> SUFFICES ASSUME NEW f \in DOMAIN disk'
                   PROVE  Used(f) /\ (f[2] = "text" /\ f[1] = dir => kept > 0)
        BY <1>1, <1>6, <1>8 DEF TypeOK
      <3>1. CASE f = t
        BY <3>1, <1>4, <1>5, <1>9
      <3>2. CASE f \in DOMAIN disk
        BY <3>2, <1>1 DEF WriterInv
      <3> QED
        BY <3>1, <3>2, <1>6
    <2> QED
      BY <2>1, <1>1, <1>2, <1>6, <1>7 DEF WriterInv, Meta
  <1>12. Respects
    BY <1>4, <1>6, <1>8 DEF Respects
  <1>13. phase \notin Over
    BY OverIsOff
  <1> QED
    BY <1>2, <1>7, <1>10, <1>11, <1>12, <1>13, FileStep

-----------------------------------------------------------------------------
(* The pass, which writes no file.                                            *)

(* What it looks at it sees as it is.                                         *)
LEMMA LookStep ==
  ASSUME IInv, UNCHANGED <<recVars, diskVars, phase>>,
         Seen' \subseteq Seen \cup {<<f, disk[f]>> : f \in DOMAIN disk}
  PROVE  WriterInv' /\ SeenInv'
  <1>1. /\ open' = open /\ dir' = dir /\ target' = target /\ listing' = listing
        /\ nextIndex' = nextIndex /\ kept' = kept /\ sessions' = sessions
        /\ writer' = writer /\ dirs' = dirs /\ disk' = disk /\ untold' = untold
    BY DEF recVars, diskVars
  <1>2. \A f \in Files : Used(f)' <=> Used(f)
    BY <1>1 DEF Used
  <1>3. TypeOK /\ WriterInv /\ SeenInv
    BY DEF IInv
  <1>4. \A f \in DOMAIN disk : f \in Files /\ Used(f)' /\ disk[f] \in Nat
    BY <1>2, <1>3 DEF TypeOK, WriterInv
  <1>5. WriterInv'
    <2>1. \A f \in DOMAIN disk : f[2] = "text" /\ f[1] = dir => kept > 0
      BY <1>3 DEF WriterInv
    <2> QED
      BY <1>1, <1>3, <1>4, <2>1 DEF WriterInv, Meta
  <1>6. SeenInv'
    <2> SUFFICES ASSUME NEW e \in Seen'
                 PROVE  /\ Used(e[1])'
                        /\ e[1] \in DOMAIN disk => e[2] <= disk[e[1]]
                        /\ e[1][2] = "text" => e[1] \in DOMAIN disk
      BY <1>1 DEF SeenInv
    <2>1. CASE e \in Seen
      <3>1. e[1] \in Files
        BY <2>1, <1>3 DEF Seen, TypeOK
      <3> QED
        BY <2>1, <3>1, <1>2, <1>3 DEF SeenInv
    <2>2. CASE e \in {<<f, disk[f]>> : f \in DOMAIN disk}
      <3>1. PICK f \in DOMAIN disk : e = <<f, disk[f]>>
        BY <2>2
      <3> QED
        BY <3>1, <1>4
    <2> QED
      BY <2>1, <2>2
  <1> QED
    BY <1>5, <1>6

(* Before the final pass nothing is promised of it.                           *)
LEMMA NotFinal ==
  ASSUME phase' \notin Over
  PROVE  FinalInv'
  BY DEF FinalInv, FinalPassComplete, Over

(* The thread begins a pass or gives up.                                      *)
LEMMA ThreadStep ==
  ASSUME IInv, Tick \/ ThreadExits
  PROVE  IInv'
  <1>1. /\ UNCHANGED <<recVars, diskVars, phase, halt, todo, put, sent, remote>>
        /\ up = "wait" /\ up' \in {"dir", "exited"}
    BY DEF Tick, ThreadExits, mainVars
  <1>2. phase \notin Over /\ phase # "joining"
    BY <1>1 DEF IInv, MainInv, Over
  <1>3. Seen' = Seen
    BY <1>1 DEF Seen
  <1>4. WriterInv' /\ SeenInv'
    BY <1>1, <1>3, LookStep
  <1>5. TypeOK'
    BY <1>1 DEF IInv, TypeOK, recVars, diskVars
  <1>6. StampInv'
    BY <1>1 DEF IInv, StampInv, SentIsStored, diskVars
  <1>7. MainInv'
    BY <1>1, <1>2 DEF IInv, MainInv, Over, recVars, diskVars
  <1>8. FinalInv'
    BY <1>1, <1>2, NotFinal
  <1> QED
    BY <1>4, <1>5, <1>6, <1>7, <1>8 DEF IInv

(* A pass ends when there is nothing left, or half-way when it is told to.    *)
LEMMA EndPassStep == IInv /\ EndPass => IInv'
  <1> SUFFICES ASSUME IInv, EndPass PROVE IInv'
    OBVIOUS
  <1>1. /\ UNCHANGED <<recVars, diskVars, phase, halt, put, sent, remote>>
        /\ up \in {"dir", "file"} /\ up' = IF phase = "final" THEN "finished" ELSE "wait"
        /\ left' = {} /\ todo' = {}
    BY DEF EndPass, PassOver, mainVars
  <1>2. phase # "done" /\ phase # "joining"
    BY <1>1 DEF IInv, MainInv
  <1>3. Seen' \subseteq Seen
    BY <1>1 DEF Seen
  <1>4. WriterInv' /\ SeenInv'
    BY <1>1, <1>3, LookStep
  <1>5. TypeOK'
    BY <1>1 DEF IInv, TypeOK, recVars, diskVars
  <1>6. StampInv'
    BY <1>1 DEF IInv, StampInv, SentIsStored, diskVars
  <1>7. MainInv'
    BY <1>1, <1>2 DEF IInv, MainInv, Over, recVars, diskVars
  <1>8. FinalInv'
    <2>1. CASE phase # "final"
      BY <2>1, <1>1, <1>2, NotFinal DEF Over
    <2>2. CASE phase = "final"
      <3>0. up = "dir" /\ left = {}
        BY <2>2 DEF EndPass, PassOver, Halted
      <3>1. clean' => clean
        BY <2>2, Zenon DEF EndPass
      <3>2. ASSUME NEW f \in DOMAIN disk, f[1] \in sessions, clean'
            PROVE  f \in DOMAIN remote /\ remote[f] = disk[f]
        BY <2>2, <3>0, <3>1, <3>2 DEF IInv, FinalInv, Handled
      <3> QED
        BY <2>2, <3>2, <1>1 DEF FinalInv, FinalPassComplete, Handled, recVars, diskVars
    <2> QED
      BY <2>1, <2>2
  <1> QED
    BY <1>4, <1>5, <1>6, <1>7, <1>8 DEF IInv

(* The next directory, oldest first.                                          *)
LEMMA NextDirStep == IInv /\ NextDir => IInv'
  <1> SUFFICES ASSUME IInv, NextDir PROVE IInv'
    OBVIOUS
  <1>1. /\ UNCHANGED <<recVars, diskVars, phase, halt, put, todo, sent, remote, active>>
        /\ clean' = clean /\ up = "dir" /\ up' = "list"
    BY DEF NextDir, mainVars
  <1>2. phase # "done" /\ phase # "joining"
    BY <1>1 DEF IInv, MainInv
  <1>3. Seen' \subseteq Seen
    BY <1>1 DEF Seen
  <1>4. WriterInv' /\ SeenInv'
    BY <1>1, <1>3, LookStep
  <1>5. TypeOK'
    BY <1>1 DEF IInv, TypeOK, recVars, diskVars
  <1>6. StampInv'
    BY <1>1 DEF IInv, StampInv, SentIsStored, diskVars
  <1>7. MainInv'
    BY <1>1, <1>2 DEF IInv, MainInv, Over, recVars, diskVars
  <1>8. FinalInv'
    <2>1. CASE phase # "final"
      BY <2>1, <1>1, <1>2, NotFinal DEF Over
    <2>2. CASE phase = "final"
      <3>1. PICK d \in left : left' = left \ {d} /\ dirNow' = d
                              /\ skip' = IF d = active THEN NewestWav(d) ELSE None
        BY DEF NextDir
      <3>2. active = None
        BY <2>2, <1>1 DEF IInv, FinalInv
      <3>3. ASSUME NEW f \in DOMAIN disk, f[1] \in sessions, clean PROVE Handled(f)'
        <4>1. Handled(f)
          BY <2>2, <3>3 DEF IInv, FinalInv
        <4> QED
          BY <4>1, <3>1, <1>1 DEF Handled, diskVars
      <3>4. skip' = None /\ left' \subseteq Dirs
        BY <2>2, <3>1, <3>2, NameFacts DEF IInv, FinalInv
      <3> QED
        BY <2>2, <3>2, <3>3, <3>4, <1>1 DEF FinalInv, FinalPassComplete, recVars, diskVars
    <2> QED
      BY <2>1, <2>2
  <1> QED
    BY <1>4, <1>5, <1>6, <1>7, <1>8 DEF IInv

(* The files of a directory that are not in the bucket as they are.           *)
LEMMA ListDirStep == IInv /\ ListDir => IInv'
  <1> SUFFICES ASSUME IInv, ListDir PROVE IInv'
    OBVIOUS
  <1>1. /\ UNCHANGED <<recVars, diskVars, phase, halt, put, left, sent, remote,
                         active, skip, dirNow>>
        /\ up = "list" /\ up' \in {"file", "dir"}
        /\ \/ todo' = todo /\ clean' = FALSE
           \/ todo' = {<<f, disk[f]>> : f \in Changed} /\ clean' = clean /\ up' = "file"
    BY DEF ListDir, mainVars
  <1>2. phase # "done" /\ phase # "joining"
    BY <1>1 DEF IInv, MainInv
  <1>3. TypeOK /\ Changed \subseteq DOMAIN disk
    BY DEF IInv, Changed, FilesIn
  <1>4. Seen' \subseteq Seen \cup {<<f, disk[f]>> : f \in DOMAIN disk}
    BY <1>1, <1>3 DEF Seen
  <1>5. WriterInv' /\ SeenInv'
    BY <1>1, <1>4, LookStep
  <1>6. TypeOK'
    <2>1. todo' \subseteq Files \X Nat
      BY <1>1, <1>3 DEF TypeOK
    <2> QED
      BY <2>1, <1>1, <1>3 DEF TypeOK, recVars, diskVars
  <1>7. StampInv'
    <2>1. \A e \in todo' : e[1] \in DOMAIN disk => e[2] <= disk[e[1]]
      <3>1. CASE todo' = todo
        BY <3>1 DEF IInv, StampInv
      <3>2. CASE todo' = {<<f, disk[f]>> : f \in Changed}
        BY <3>2, <1>3 DEF TypeOK
      <3> QED
        BY <1>1, <3>1, <3>2
    <2> QED
      BY <2>1, <1>1 DEF IInv, StampInv, SentIsStored, diskVars
  <1>8. MainInv'
    BY <1>1, <1>2 DEF IInv, MainInv, Over, recVars, diskVars
  <1>9. FinalInv'
    <2>1. CASE phase # "final"
      BY <2>1, <1>1, <1>2, NotFinal DEF Over
    <2>2. CASE phase = "final"
      <3>1. ASSUME NEW f \in DOMAIN disk, f[1] \in sessions, clean' PROVE Handled(f)'
        <4>1. todo' = {<<g, disk[g]>> : g \in Changed} /\ clean /\ up' = "file"
          BY <1>1, <3>1
        <4>2. Handled(f)
          BY <2>2, <3>1, <4>1 DEF IInv, FinalInv
        <4>3. CASE f[1] = dirNow
          <5>1. skip = None
            BY <2>2, <1>1 DEF IInv, FinalInv
          <5>2. f \in Files /\ f # None
            BY <1>3, NameFacts DEF TypeOK
          <5>3. CASE Unsent(f)
            <6>1. f \in Changed
              BY <5>1, <5>2, <5>3, <4>3 DEF Changed, FilesIn
            <6> QED
              BY <6>1, <4>1, <1>1 DEF Handled, diskVars
          <5>4. CASE ~Unsent(f)
            <6>1. f \in DOMAIN sent /\ sent[f] = disk[f]
              BY <5>4 DEF Unsent
            <6>2. f \in DOMAIN remote /\ remote[f] >= disk[f]
              BY <6>1 DEF IInv, StampInv, SentIsStored
            <6>3. <<f, remote[f]>> \in Seen
              BY <6>2 DEF Seen
            <6>4. remote[f] <= disk[f]
              BY <6>3 DEF IInv, SeenInv
            <6>5. remote[f] = disk[f]
              BY <6>2, <6>4, <1>3 DEF TypeOK
            <6> QED
              BY <6>2, <6>5, <1>1 DEF Handled, diskVars
          <5> QED
            BY <5>3, <5>4
        <4>4. CASE f[1] # dirNow
          BY <4>2, <4>4, <1>1 DEF Handled, diskVars
        <4> QED
          BY <4>3, <4>4
      <3> QED
        BY <2>2, <3>1, <1>1 DEF IInv, FinalInv, FinalPassComplete, recVars, diskVars
    <2> QED
      BY <2>1, <2>2
  <1> QED
    BY <1>5, <1>6, <1>7, <1>8, <1>9 DEF IInv

(* A directory is done when none of its files is left to open.                *)
LEMMA DirDoneStep == IInv /\ DirDone => IInv'
  <1> SUFFICES ASSUME IInv, DirDone PROVE IInv'
    OBVIOUS
  <1>1. /\ UNCHANGED <<recVars, diskVars, phase, halt, put, todo, left, sent, remote, active>>
        /\ clean' = clean /\ up = "file" /\ up' = "dir" /\ todo = {}
    BY DEF DirDone, mainVars
  <1>2. phase # "done" /\ phase # "joining"
    BY <1>1 DEF IInv, MainInv
  <1>3. Seen' \subseteq Seen
    BY <1>1 DEF Seen
  <1>4. WriterInv' /\ SeenInv'
    BY <1>1, <1>3, LookStep
  <1>5. TypeOK'
    BY <1>1 DEF IInv, TypeOK, recVars, diskVars
  <1>6. StampInv'
    BY <1>1 DEF IInv, StampInv, SentIsStored, diskVars
  <1>7. MainInv'
    BY <1>1, <1>2 DEF IInv, MainInv, Over, recVars, diskVars
  <1>8. FinalInv'
    <2>1. CASE phase # "final"
      BY <2>1, <1>1, <1>2, NotFinal DEF Over
    <2>2. CASE phase = "final"
      BY <2>2, <1>1 DEF IInv, FinalInv, FinalPassComplete, Handled, recVars, diskVars
    <2> QED
      BY <2>1, <2>2
  <1> QED
    BY <1>4, <1>5, <1>6, <1>7, <1>8 DEF IInv

(* A file is opened and hashed, or has vanished.                              *)
LEMMA OpenFileStep == IInv /\ OpenFile => IInv'
  <1> SUFFICES ASSUME IInv, OpenFile PROVE IInv'
    OBVIOUS
  <1>1. PICK e \in todo :
           /\ todo' = todo \ {e}
           /\ \/ /\ e[1] \in DOMAIN disk /\ up' = "send" /\ clean' = clean
                 /\ put' = [file |-> e[1], stamp |-> e[2], hashed |-> disk[e[1]]]
              \/ /\ e[1] \notin DOMAIN disk /\ up' = up /\ clean' = FALSE /\ put' = put
    BY DEF OpenFile
  <1>2. /\ UNCHANGED <<recVars, diskVars, phase, halt, left, sent, remote, active>>
        /\ up = "file"
    BY DEF OpenFile, mainVars
  <1>3. phase # "done" /\ phase # "joining"
    BY <1>2 DEF IInv, MainInv
  <1>4. TypeOK /\ e[1] \in Files /\ e[2] \in Nat
    BY DEF IInv, TypeOK
  <1>5. up' = "send" => /\ put' \in [file : Files, stamp : Nat, hashed : Nat]
                        /\ put'.file = e[1] /\ put'.stamp = e[2] /\ put'.hashed = disk[e[1]]
                        /\ e[1] \in DOMAIN disk
    BY <1>1, <1>2, <1>4 DEF TypeOK
  <1>6. Seen' \subseteq Seen \cup {<<f, disk[f]>> : f \in DOMAIN disk}
    BY <1>1, <1>2, <1>5 DEF Seen
  <1>7. WriterInv' /\ SeenInv'
    BY <1>2, <1>6, LookStep
  <1>8. TypeOK'
    BY <1>1, <1>2, <1>4, <1>5 DEF TypeOK, recVars, diskVars
  <1>9. StampInv'
    <2>1. up' = "send" => put'.stamp <= put'.hashed
      BY <1>5 DEF IInv, StampInv
    <2> QED
      BY <2>1, <1>1, <1>2 DEF IInv, StampInv, SentIsStored, diskVars
  <1>10. MainInv'
    BY <1>1, <1>2, <1>3 DEF IInv, MainInv, Over, recVars, diskVars
  <1>11. FinalInv'
    <2>1. CASE phase # "final"
      BY <2>1, <1>2, <1>3, NotFinal DEF Over
    <2>2. CASE phase = "final"
      <3>1. ASSUME NEW f \in DOMAIN disk, f[1] \in sessions, clean' PROVE Handled(f)'
        <4>1. up' = "send" /\ clean
          BY <3>1, <1>1
        <4>2. Handled(f)
          BY <2>2, <3>1, <4>1 DEF IInv, FinalInv
        <4>3. CASE f = e[1]
          BY <4>1, <4>3, <1>5 DEF Handled
        <4>4. CASE f # e[1]
          <5>1. <<f, disk[f]>> \in todo => <<f, disk[f]>> \in todo'
            BY <4>4, <1>1
          <5> QED
            BY <4>1, <4>2, <5>1, <1>2 DEF Handled, diskVars
        <4> QED
          BY <4>3, <4>4
      <3>2. up' # "list" /\ up' # "finished"
        BY <1>1, <1>2
      <3> QED
        BY <2>2, <3>1, <3>2, <1>2, <1>5 DEF IInv, FinalInv, FinalPassComplete, recVars, diskVars
    <2> QED
      BY <2>1, <2>2
  <1> QED
    BY <1>7, <1>8, <1>9, <1>10, <1>11 DEF IInv

(* The body arrives, or the request fails and the stamp is not kept.          *)
LEMMA SendFileStep == IInv /\ SendFile => IInv'
  <1> SUFFICES ASSUME IInv, SendFile PROVE IInv'
    OBVIOUS
  <1>1. /\ UNCHANGED <<recVars, diskVars, phase, halt, left, todo, active>>
        /\ up = "send" /\ up' = "file"
    BY DEF SendFile, mainVars
  <1>2. TypeOK /\ SentIsStored
    BY DEF IInv, StampInv
  <1>3. PICK g, h, k : g = put.file /\ h = put.hashed /\ k = put.stamp
    OBVIOUS
  <1>4. g \in Files /\ h \in Nat /\ k \in Nat /\ k <= h
    BY <1>1, <1>2, <1>3 DEF IInv, StampInv, TypeOK
  <1>5. \/ /\ remote' = With(remote, g, h) /\ sent' = With(sent, g, k) /\ clean' = clean
        \/ remote' = remote /\ sent' = sent /\ clean' = FALSE
    BY <1>3 DEF SendFile, Stamp
  <1>6. /\ DOMAIN remote \subseteq DOMAIN remote' /\ DOMAIN remote' \subseteq DOMAIN remote \cup {g}
        /\ \A f \in DOMAIN remote' : remote'[f] = IF remote' # remote /\ f = g THEN h ELSE remote[f]
        /\ DOMAIN sent' \subseteq DOMAIN sent \cup {g}
    BY <1>5 DEF With
  <1>7. \A f \in DOMAIN sent' : f \in DOMAIN remote' /\ remote'[f] >= sent'[f]
    <2>1. CASE sent' = sent /\ remote' = remote
      BY <2>1, <1>2 DEF SentIsStored
    <2>2. CASE remote' = With(remote, g, h) /\ sent' = With(sent, g, k)
      <3>1. /\ DOMAIN sent' = DOMAIN sent \cup {g} /\ DOMAIN remote' = DOMAIN remote \cup {g}
            /\ sent'[g] = k /\ remote'[g] = h
            /\ \A f \in DOMAIN sent : f # g => sent'[f] = sent[f]
            /\ \A f \in DOMAIN remote : f # g => remote'[f] = remote[f]
        BY <2>2 DEF With
      <3> TAKE f \in DOMAIN sent'
      <3>2. CASE f = g
        BY <3>1, <3>2, <1>4
      <3>3. CASE f # g
        BY <3>1, <3>3, <1>2 DEF SentIsStored
      <3> QED
        BY <3>2, <3>3
    <2> QED
      BY <1>5, <2>1, <2>2
  <1>8. TypeOK'
    <2>1. /\ DOMAIN remote' \subseteq Files /\ DOMAIN sent' \subseteq Files
          /\ \A f \in DOMAIN remote' : remote'[f] \in Nat
      BY <1>2, <1>4, <1>6 DEF TypeOK
    <2>2. \A f \in DOMAIN sent' : sent'[f] \in Nat
      BY <1>2, <1>4, <1>5 DEF TypeOK, With
    <2> QED
      BY <2>1, <2>2, <1>1, <1>2 DEF TypeOK, recVars, diskVars
  <1>9. Seen' \subseteq Seen
    <2>1. <<g, h>> \in Seen
      BY <1>1, <1>3 DEF Seen
    <2>2. \A f \in DOMAIN remote' : <<f, remote'[f]>> \in Seen
      <3> TAKE f \in DOMAIN remote'
      <3>1. CASE remote' # remote /\ f = g
        BY <3>1, <2>1, <1>6
      <3>2. CASE ~(remote' # remote /\ f = g)
        <4>1. f \in DOMAIN remote
          BY <3>2, <1>6
        <4> QED
          BY <4>1, <3>2, <1>6 DEF Seen
      <3> QED
        BY <3>1, <3>2
    <2> QED
      BY <2>2, <1>1 DEF Seen
  <1>10. WriterInv' /\ SeenInv'
    BY <1>1, <1>9, LookStep
  <1>11. StampInv'
    <2>1. \A e \in todo : e[1] \in DOMAIN disk => e[2] <= disk[e[1]]
      BY DEF IInv, StampInv
    <2> QED
      BY <2>1, <1>1, <1>7 DEF StampInv, SentIsStored, diskVars
  <1>12. phase # "done" /\ phase # "joining"
    BY <1>1 DEF IInv, MainInv
  <1>13. MainInv'
    BY <1>1, <1>12 DEF IInv, MainInv, Over, recVars, diskVars
  <1>14. FinalInv'
    <2>1. CASE phase # "final"
      BY <2>1, <1>1, <1>12, NotFinal DEF Over
    <2>2. CASE phase = "final"
      <3>1. g \in DOMAIN disk /\ h = disk[g]
        BY <2>2, <1>1, <1>3 DEF IInv, FinalInv
      <3>2. ASSUME NEW f \in DOMAIN disk, f[1] \in sessions, clean' PROVE Handled(f)'
        <4>1. remote' = With(remote, g, h) /\ clean
          BY <3>2, <1>5
        <4>2. Handled(f)
          BY <2>2, <3>2, <4>1 DEF IInv, FinalInv
        <4>3. CASE f = g
          <5>1. f \in DOMAIN remote' /\ remote'[f] = disk[f]
            BY <4>1, <4>3, <3>1 DEF With
          <5> QED
            BY <5>1, <1>1 DEF Handled, diskVars
        <4>4. CASE f # g
          <5>1. f \in DOMAIN remote => f \in DOMAIN remote' /\ remote'[f] = remote[f]
            BY <4>1, <4>4 DEF With
          <5> QED
            BY <4>2, <4>4, <5>1, <1>1, <1>3 DEF Handled, diskVars
        <4> QED
          BY <4>3, <4>4
      <3> QED
        BY <2>2, <3>2, <1>1 DEF IInv, FinalInv, FinalPassComplete, recVars, diskVars
    <2> QED
      BY <2>1, <2>2
  <1> QED
    BY <1>8, <1>10, <1>11, <1>13, <1>14 DEF IInv

-----------------------------------------------------------------------------
(* main.                                                                      *)

(* It stops the thread and waits for it.                                      *)
LEMMA HaltStep ==
  ASSUME IInv, FinishPeriodic \/ JoinPeriodic
  PROVE  IInv'
  <1>1. /\ UNCHANGED <<recVars, diskVars, passVars>>
        /\ writer = "off" /\ halt' /\ phase \notin Over /\ phase' \notin Over
        /\ phase' = "joining" => up = "exited"
    BY Zenon DEF FinishPeriodic, JoinPeriodic, IInv, MainInv, Over
  <1>2. TypeOK'
    BY <1>1 DEF IInv, TypeOK, recVars, diskVars, passVars
  <1>3. \A f : Used(f)' <=> Used(f)
    BY <1>1 DEF Used, recVars
  <1>4. Seen' = Seen
    BY <1>1 DEF Seen, passVars
  <1>5. WriterInv'
    BY <1>1, <1>3 DEF IInv, WriterInv, recVars, diskVars, Meta
  <1>6. SeenInv' /\ StampInv'
    BY <1>1, <1>3, <1>4 DEF IInv, SeenInv, StampInv, SentIsStored, diskVars, passVars
  <1>7. MainInv'
    BY <1>1 DEF MainInv, Over, recVars, passVars
  <1>8. FinalInv'
    BY <1>1, NotFinal
  <1> QED
    BY <1>2, <1>5, <1>6, <1>7, <1>8 DEF IInv

(* Compression is the last to write: its FLACs are new, and of its WAVs only  *)
(* the names remain.                                                          *)
LEMMA FinalBeginsStep == IInv /\ CompressThenUpload => IInv'
  <1> SUFFICES ASSUME IInv, CompressThenUpload PROVE IInv'
    OBVIOUS
  <1>1. TypeOK /\ WriterInv
    BY DEF IInv
  <1>2. /\ UNCHANGED <<recVars, dirs, untold, halt, todo, put, sent, remote>>
        /\ phase = "joining" /\ phase' = "final" /\ untold = {} /\ up' = "dir"
        /\ left' = sessions /\ active' = None
    BY DEF CompressThenUpload, ActiveInFinal
  <1>3. up = "exited" /\ writer = "off" /\ halt
    BY <1>2, Zenon DEF IInv, MainInv
  <1>4. PICK gone \in {Wavs, {}} : disk' = Compressed(gone)
    BY DEF CompressThenUpload
  <1>5. gone \subseteq DOMAIN disk /\ \A g \in gone : g[2] = "wav"
    BY DEF Wavs
  <1>6. \A g \in gone : Flac(g[1], g[3]) \in Files /\ Flac(g[1], g[3])[2] = "flac"
                        /\ Flac(g[1], g[3])[1] = g[1]
    BY <1>1, <1>5, NameFacts DEF TypeOK, Flac
  <1>7. DOMAIN disk' = (DOMAIN disk \ gone) \cup {Flac(g[1], g[3]) : g \in gone}
    BY <1>4 DEF Compressed
  <1>8. \A f \in DOMAIN disk' : disk'[f] = IF f \notin DOMAIN disk THEN 1
                                ELSE IF f[2] = "meta" /\ (\E g \in gone : g[1] = f[1])
                                     THEN disk[f] + 1 ELSE disk[f]
    BY <1>4, <1>7 DEF Compressed
  <1>9. \A f \in DOMAIN disk : disk[f] \in Nat
    BY <1>1 DEF TypeOK
  <1>10. \A f \in DOMAIN disk' : disk'[f] \in Nat /\ (f \in DOMAIN disk => disk[f] <= disk'[f])
    BY <1>8, <1>9
  <1>11. TypeOK'
    <2>1. DOMAIN disk' \subseteq Files
      BY <1>1, <1>6, <1>7 DEF TypeOK
    <2> QED
      BY <2>1, <1>1, <1>2, <1>10 DEF TypeOK, recVars
  <1>12. \A f \in Files : Used(f) => Used(f)'
    BY <1>2 DEF Used, recVars, Over
  <1>13. \A f \in DOMAIN disk' : Used(f)' /\ (f \in DOMAIN disk \/ f[2] = "flac")
    <2> TAKE f \in DOMAIN disk'
    <2>1. CASE f \in DOMAIN disk
      BY <2>1, <1>1, <1>12 DEF TypeOK, WriterInv
    <2>2. CASE f \notin DOMAIN disk
      <3>1. PICK g \in gone : f = Flac(g[1], g[3])
        BY <2>2, <1>7
      <3>2. f[2] = "flac" /\ f[1] = g[1] /\ g \in DOMAIN disk /\ g[2] = "wav"
        BY <3>1, <1>5, <1>6
      <3>3. g[1] <= dir
        BY <3>2, <1>1 DEF WriterInv, Used
      <3> QED
        BY <3>2, <3>3, <1>2 DEF Used, recVars, Over
    <2> QED
      BY <2>1, <2>2
  <1>14. \A f \in DOMAIN disk : f[2] # "wav" => f \in DOMAIN disk'
    BY <1>5, <1>7
  <1>15. WriterInv'
    <2>1. open = None /\ listing = None /\ target = None
      BY <1>1, <1>3 DEF WriterInv
    <2>2. Meta(dir) \in DOMAIN disk'
      BY <1>1, <1>14 DEF WriterInv, Meta
    <2>3. \A f \in DOMAIN disk' : f[2] = "text" /\ f[1] = dir => kept > 0
      BY <1>1, <1>13 DEF WriterInv
    <2> QED
      BY <2>1, <2>2, <2>3, <1>1, <1>2, <1>13 DEF WriterInv, recVars, Meta
  <1>16. Seen' = Seen
    BY <1>2, <1>3 DEF Seen
  <1>17. SeenInv'
    <2> SUFFICES ASSUME NEW e \in Seen
                 PROVE  /\ Used(e[1])'
                        /\ e[1] \in DOMAIN disk' => e[2] <= disk'[e[1]]
                        /\ e[1][2] = "text" => e[1] \in DOMAIN disk'
      BY <1>16 DEF SeenInv
    <2>1. /\ Used(e[1])
          /\ e[1] \in DOMAIN disk => e[2] <= disk[e[1]]
          /\ e[1][2] = "text" => e[1] \in DOMAIN disk
      BY DEF IInv, SeenInv
    <2>2. e[1] \in Files /\ e[2] \in Nat
      BY <1>1, <1>3 DEF Seen, TypeOK
    <2>3. e[1][2] # "flac"
      BY <2>1, <1>2 DEF Used, Over
    <2>4. e[1] \in DOMAIN disk' => e[2] <= disk'[e[1]]
      BY <2>1, <2>2, <2>3, <1>9, <1>10, <1>13
    <2> QED
      BY <2>1, <2>2, <2>4, <1>12, <1>14
  <1>18. StampInv'
    <2>1. \A e \in todo' : e[1] \in DOMAIN disk' => e[2] <= disk'[e[1]]
      BY <1>16, <1>17 DEF SeenInv, Seen
    <2> QED
      BY <2>1, <1>2 DEF IInv, StampInv, SentIsStored
  <1>19. MainInv'
    BY <1>2, <1>3 DEF MainInv, Over, recVars
  <1>20. FinalInv'
    BY <1>1, <1>2 DEF FinalInv, FinalPassComplete, Handled, TypeOK, recVars
  <1> QED
    BY <1>11, <1>15, <1>17, <1>18, <1>19, <1>20 DEF IInv

(* main returns with what the final pass has reached.                         *)
LEMMA ExitStep == IInv /\ Exit => IInv'
  <1> SUFFICES ASSUME IInv, Exit PROVE IInv'
    OBVIOUS
  <1>1. /\ UNCHANGED <<recVars, diskVars, passVars, halt>>
        /\ phase = "final" /\ phase' = "done" /\ up = "finished"
    BY DEF Exit
  <1>2. TypeOK'
    BY <1>1 DEF IInv, TypeOK, recVars, diskVars, passVars
  <1>3. \A f : Used(f)' <=> Used(f)
    BY <1>1 DEF Used, recVars, Over
  <1>4. Seen' = Seen
    BY <1>1 DEF Seen, passVars
  <1>5. WriterInv'
    BY <1>1, <1>3 DEF IInv, WriterInv, recVars, diskVars, Meta
  <1>6. SeenInv' /\ StampInv'
    BY <1>1, <1>3, <1>4 DEF IInv, SeenInv, StampInv, SentIsStored, diskVars, passVars
  <1>7. MainInv'
    BY <1>1 DEF IInv, MainInv, Over, recVars, diskVars, passVars
  <1>8. FinalInv'
    <2>1. ASSUME NEW f \in DOMAIN disk, f[1] \in sessions, clean
          PROVE  f \in DOMAIN remote /\ remote[f] = disk[f]
      BY <2>1, <1>1 DEF IInv, FinalInv, Handled
    <2> QED
      BY <2>1, <1>1 DEF FinalInv, FinalPassComplete, recVars, diskVars, passVars
  <1> QED
    BY <1>2, <1>5, <1>6, <1>7, <1>8 DEF IInv

-----------------------------------------------------------------------------
(* Nothing that the invariant is about changes.                               *)
LEMMA StutterStep == IInv /\ UNCHANGED vars => IInv'
  <1> SUFFICES ASSUME IInv, UNCHANGED vars PROVE IInv'
    OBVIOUS
  <1> USE DEF vars, recVars, diskVars, mainVars, passVars
  <1>1. TypeOK'
    BY DEF IInv, TypeOK
  <1>2. \A f : Used(f)' <=> Used(f)
    BY DEF Used
  <1>3. Seen' = Seen
    BY DEF Seen
  <1>4. WriterInv'
    BY <1>2 DEF IInv, WriterInv, Meta
  <1>5. SeenInv' /\ StampInv' /\ MainInv'
    BY <1>2, <1>3 DEF IInv, SeenInv, StampInv, SentIsStored, MainInv
  <1>6. FinalInv'
    BY DEF IInv, FinalInv, FinalPassComplete, Handled
  <1> QED
    BY <1>1, <1>4, <1>5, <1>6 DEF IInv

(* Every step of anyone keeps the invariant.                                  *)
LEMMA NextIInv == IInv /\ [Next]_vars => IInv'
  <1> SUFFICES ASSUME IInv, [Next]_vars PROVE IInv'
    OBVIOUS
  <1>1. CASE Recording
    <2>1. CASE OpenChunk
      BY <2>1, OpenChunkStep
    <2>2. CASE AppendChunk \/ FinalizeChunk
      BY <2>2, ChangeOpenStep
    <2>3. CASE ListChunk
      BY <2>3, ListChunkStep
    <2>4. ASSUME NEW d \in NewDirs, ~stop, BeginSession(d) PROVE IInv'
      BY <2>4, BeginSessionStep
    <2>5. CASE SwitchSession
      BY <2>5, SwitchSessionStep
    <2>6. CASE StopRecording \/ WriterReturns
      BY <2>6, StoppingStep
    <2> QED
      BY <1>1, <2>1, <2>2, <2>3, <2>4, <2>5, <2>6 DEF Recording
  <1>2. CASE Transcribe
    BY <1>2, TranscribeStep
  <1>3. CASE Tick \/ ThreadExits
    BY <1>3, ThreadStep
  <1>4. CASE Pass
    BY <1>3, <1>4, EndPassStep, NextDirStep, ListDirStep, DirDoneStep, OpenFileStep,
       SendFileStep DEF Pass
  <1>5. CASE Main
    BY <1>5, HaltStep, FinalBeginsStep, ExitStep DEF Main
  <1>6. CASE UNCHANGED vars
    BY <1>6, StutterStep
  <1> QED
    BY <1>1, <1>2, <1>3, <1>4, <1>5, <1>6 DEF Next, Terminated

(* The invariant holds in every reachable state.                              *)
LEMMA Inductive == Spec => []IInv
  BY InitIInv, NextIInv, PTL DEF Spec

(* The files, what is known of them and the bucket stay in their types.       *)
THEOREM UploadTypes == Spec => []TypeOK
  <1>1. IInv => TypeOK
    BY DEF IInv
  <1> QED
    BY <1>1, Inductive, PTL

(* What counts as sent is in the bucket, for any number of sessions, chunks   *)
(* and passes: the stamp is taken before the bytes are (upload_pass).         *)
THEOREM SentStaysStored == Spec => []SentIsStored
  <1>1. IInv => SentIsStored
    BY DEF IInv, StampInv
  <1> QED
    BY <1>1, Inductive, PTL

(* A final pass without errors leaves the bucket as the disk is, whatever the *)
(* periodic passes did, or left half-done, before (upload_sessions).          *)
THEOREM FinalPassCompletes == Spec => []FinalPassComplete
  <1>1. IInv => FinalPassComplete
    BY DEF IInv, FinalInv
  <1> QED
    BY <1>1, Inductive, PTL

-----------------------------------------------------------------------------
(* The chunk being written is skipped.                                        *)

(* The open WAV is the newest of its session; what the pass lists is of one   *)
(* directory, and is not what it skips; and in the session under way it skips *)
(* the WAV that was open when it looked.                                      *)
SkipInv ==
    /\ open # None => open[3] = nextIndex - 1
    /\ put # None => up = "send" /\ put.file[1] = dirNow /\ put.file # skip
    /\ up \in {"file", "send"} => \A e \in todo : e[1][1] = dirNow /\ e[1] # skip
    /\ up \in {"list", "file", "send"} /\ dirNow = active
       /\ openThen # None /\ openThen[1] = active => skip = openThen

(* newest_wav finds the chunk being written.                                  *)
LEMMA NewestIsOpen ==
  ASSUME TypeOK, WriterInv, SkipInv, open # None
  PROVE  NewestWav(open[1]) = open
  <1> DEFINE wavs == {f[3] : f \in {g \in FilesIn(open[1]) : g[2] = "wav"}}
  <1>1. /\ open \in Files /\ open \in DOMAIN disk /\ open[2] = "wav" /\ open[1] = dir
        /\ open[3] = nextIndex - 1 /\ nextIndex \in Nat /\ open[3] \in Nat
    BY NameFacts DEF TypeOK, WriterInv, SkipInv
  <1>2. open[3] \in wavs
    BY <1>1 DEF FilesIn
  <1>3. \A i \in wavs : i \in Nat /\ i <= open[3]
    <2> SUFFICES ASSUME NEW f \in FilesIn(open[1]), f[2] = "wav"
                 PROVE  f[3] \in Nat /\ f[3] <= open[3]
      OBVIOUS
    <2>1. f \in DOMAIN disk /\ f \in Files /\ f[1] = dir
      BY <1>1 DEF FilesIn, TypeOK
    <2>2. f[3] < nextIndex /\ f[3] \in Nat
      BY <2>1, NameFacts DEF WriterInv, Used
    <2> QED
      BY <1>1, <2>2
  <1> HIDE DEF wavs
  <1>4. Greatest(wavs) = open[3]
    <2>1. \A x \in wavs : (\A y \in wavs : y <= x) => x = open[3]
      BY <1>1, <1>2, <1>3
    <2> QED
      BY <1>2, <1>3, <2>1 DEF Greatest
  <1>5. Wav(open[1], open[3]) = open
    BY <1>1, NameFacts DEF Wav
  <1>6. wavs # {}
    BY <1>2
  <1> QED
    BY <1>4, <1>5, <1>6 DEF NewestWav, wavs

(* Every step of anyone keeps it.                                             *)
LEMMA SkipStep == IInv /\ SkipInv /\ [Next]_vars => SkipInv'
  <1> SUFFICES ASSUME IInv, SkipInv, [Next]_vars PROVE SkipInv'
    OBVIOUS
  <1>1. TypeOK /\ WriterInv
    BY DEF IInv
  <1>2. CASE OpenChunk
    <2>1. /\ open' = Wav(dir, nextIndex) /\ nextIndex' = nextIndex + 1 /\ nextIndex \in Nat
          /\ UNCHANGED passVars
      BY <1>1, <1>2 DEF OpenChunk, TypeOK
    <2>2. open'[3] = nextIndex' - 1
      BY <2>1 DEF Wav
    <2> QED
      BY <2>1, <2>2 DEF SkipInv, passVars
  <1>3. CASE \/ Recording /\ ~OpenChunk
             \/ Transcribe \/ FinishPeriodic \/ JoinPeriodic \/ Exit \/ UNCHANGED vars
    <2>1. UNCHANGED passVars /\ (open' = None \/ UNCHANGED <<open, nextIndex>>)
      BY <1>3 DEF Recording, AppendChunk, FinalizeChunk, ListChunk, BeginSession, SwitchSession,
                  StopRecording, WriterReturns, Transcribe, FinishPeriodic, JoinPeriodic, Exit,
                  recVars, vars
    <2> QED
      BY <2>1 DEF SkipInv, passVars
  <1>4. CASE NextDir
    <2>1. PICK d \in left : dirNow' = d /\ skip' = IF d = active THEN NewestWav(d) ELSE None
      BY <1>4 DEF NextDir
    <2>2. /\ up = "dir" /\ up' = "list" /\ openThen' = open
          /\ UNCHANGED <<active, put, open, nextIndex>>
      BY <1>4 DEF NextDir, recVars
    <2>3. put' = None
      BY <2>2 DEF SkipInv
    <2>4. d = active /\ open # None /\ open[1] = active => skip' = open
      BY <1>1, <2>1, NewestIsOpen
    <2> QED
      BY <2>1, <2>2, <2>3, <2>4 DEF SkipInv
  <1>5. CASE ListDir
    <2>1. /\ up = "list" /\ up' \in {"file", "dir"}
          /\ UNCHANGED <<active, skip, dirNow, put, open, openThen, nextIndex>>
          /\ up' = "file" => todo' = {<<f, disk[f]>> : f \in Changed}
      BY <1>5 DEF ListDir, recVars
    <2>2. \A f \in Changed : f[1] = dirNow /\ f # skip
      BY DEF Changed, FilesIn
    <2> QED
      BY <2>1, <2>2 DEF SkipInv
  <1>6. CASE OpenFile
    <2>1. /\ up = "file" /\ up' \in {"file", "send"}
          /\ UNCHANGED <<active, skip, dirNow, open, openThen, nextIndex>>
      BY <1>6 DEF OpenFile, recVars
    <2>2. PICK e \in todo :
              /\ todo' = todo \ {e}
              /\ \/ /\ put' = [file |-> e[1], stamp |-> e[2], hashed |-> disk[e[1]]]
                    /\ up' = "send"
                 \/ UNCHANGED put
      BY <1>6 DEF OpenFile
    <2>3. e[1][1] = dirNow /\ e[1] # skip /\ put = None
      BY <2>1 DEF SkipInv
    <2>4. put' # None => up' = "send" /\ put'.file = e[1]
      BY <2>2, <2>3
    <2> QED
      BY <2>1, <2>2, <2>3, <2>4 DEF SkipInv
  <1>7. CASE SendFile
    BY <1>7 DEF SendFile, SkipInv, recVars
  <1>8. CASE DirDone \/ EndPass \/ Tick \/ ThreadExits \/ CompressThenUpload
    <2>1. /\ up' \notin {"list", "file", "send"} /\ UNCHANGED <<put, open, nextIndex>>
          /\ up \notin {"send"}
      BY <1>1, <1>8 DEF DirDone, EndPass, PassOver, Tick, ThreadExits, CompressThenUpload, recVars,
                  IInv, MainInv
    <2> QED
      BY <2>1 DEF SkipInv
  <1> QED
    BY <1>2, <1>3, <1>4, <1>5, <1>6, <1>7, <1>8 DEF Next, Pass, Main, Terminated

(* The session taken for the one under way is the last there was when the     *)
(* pass began: it is there still, unless it was discarded for a later one.    *)
ActiveInv ==
    /\ \E m \in dirs : \A d \in dirs : d <= m
    /\ phase \notin Over /\ up \in {"dir", "list", "file", "send"} =>
           /\ active \in Nat /\ (active \in dirs \/ active < dir)
           /\ \A d \in left : d \in Nat /\ d <= active
           /\ up # "dir" => dirNow \in Nat /\ dirNow <= active

LEMMA ActiveStep == IInv /\ ActiveInv /\ [Next]_vars => ActiveInv'
  <1> SUFFICES ASSUME IInv, ActiveInv, [Next]_vars PROVE ActiveInv'
    OBVIOUS
  <1>1. TypeOK /\ WriterInv /\ dirs \subseteq Nat /\ dir \in Nat
    BY UploadAssumption DEF IInv, TypeOK
  <1>2. PICK m \in dirs : \A d \in dirs : d <= m
    BY DEF ActiveInv
  <1>3. CASE \E d \in NewDirs : BeginSession(d)
    <2>1. PICK d \in NewDirs : BeginSession(d)
      BY <1>3
    <2>2. /\ dirs' = dirs \cup {d} /\ d \in Nat /\ \A e \in dirs : e < d
          /\ UNCHANGED <<dir, phase, up, active, left, dirNow>>
      BY <2>1, UploadAssumption DEF BeginSession, NewDirs, mainVars, passVars
    <2>3. \A e \in dirs' : e <= d
      BY <1>1, <2>2
    <2> QED
      BY <2>2, <2>3 DEF ActiveInv
  <1>4. CASE SwitchSession
    <2>1. /\ dirs' \in {dirs, dirs \ {dir}} /\ dir' = target /\ target # None
          /\ UNCHANGED <<phase, up, active, left, dirNow>>
      BY <1>4 DEF SwitchSession, mainVars, passVars
    <2>2. target \in dirs /\ target > dir /\ target \in Nat
      BY <1>1, <2>1 DEF WriterInv
    <2>3. m \in dirs'
      BY <1>1, <1>2, <2>1, <2>2
    <2>4. \A d \in dirs' : d <= m
      BY <1>2, <2>1
    <2>5. ASSUME active \in Nat, active \in dirs \/ active < dir
          PROVE  active \in dirs' \/ active < dir'
      BY <1>1, <2>1, <2>2, <2>5
    <2> QED
      BY <2>1, <2>3, <2>4, <2>5 DEF ActiveInv
  <1>5. CASE Recording /\ ~SwitchSession /\ ~\E d \in NewDirs : BeginSession(d)
    <2>1. UNCHANGED <<dirs, dir, phase, up, active, left, dirNow>>
      BY <1>5 DEF Recording, OpenChunk, AppendChunk, FinalizeChunk, ListChunk, StopRecording,
                  WriterReturns, recVars, diskVars, mainVars, passVars
    <2> QED
      BY <2>1 DEF ActiveInv
  <1>6. CASE Transcribe \/ FinishPeriodic \/ JoinPeriodic \/ UNCHANGED vars
    <2>1. /\ UNCHANGED <<dirs, dir, up, active, left, dirNow>>
          /\ phase' \notin Over => phase \notin Over
      BY <1>6 DEF Transcribe, FinishPeriodic, JoinPeriodic, vars, recVars, diskVars, mainVars,
                  passVars, Over
    <2> QED
      BY <2>1 DEF ActiveInv
  <1>7. CASE Tick
    <2>1. left' = dirs /\ active' = Greatest(dirs) /\ up' = "dir" /\ UNCHANGED <<dirs, dir>>
      BY <1>7 DEF Tick, recVars, diskVars
    <2>2. Greatest(dirs) \in dirs /\ \A d \in dirs : d <= Greatest(dirs)
      BY <1>2 DEF Greatest
    <2>3. active' \in Nat /\ active' \in dirs' /\ \A d \in left' : d \in Nat /\ d <= active'
      BY <1>1, <2>1, <2>2
    <2> QED
      BY <1>2, <2>1, <2>3 DEF ActiveInv
  <1>8. CASE NextDir
    <2>1. PICK d \in left : left' = left \ {d} /\ dirNow' = d
      BY <1>8 DEF NextDir
    <2>2. up = "dir" /\ up' = "list" /\ UNCHANGED <<dirs, dir, phase, active>>
      BY <1>8 DEF NextDir, recVars, diskVars, mainVars
    <2> QED
      BY <2>1, <2>2 DEF ActiveInv
  <1>9. CASE ListDir \/ OpenFile \/ SendFile \/ DirDone
    <2>1. /\ up \in {"list", "file", "send"} /\ up' \in {"dir", "file", "send"}
          /\ UNCHANGED <<dirs, dir, phase, active, left>>
          /\ up' # "dir" => UNCHANGED dirNow
      BY <1>9 DEF ListDir, OpenFile, SendFile, DirDone, recVars, diskVars, mainVars
    <2> QED
      BY <2>1 DEF ActiveInv
  <1>10. CASE EndPass \/ ThreadExits \/ CompressThenUpload \/ Exit
    <2>1. /\ UNCHANGED dirs
          /\ phase' \in Over \/ up' \notin {"dir", "list", "file", "send"}
      BY <1>10 DEF EndPass, ThreadExits, CompressThenUpload, Exit, diskVars, mainVars, Over
    <2> QED
      BY <1>2, <2>1 DEF ActiveInv
  <1> QED
    BY <1>3, <1>4, <1>5, <1>6, <1>7, <1>8, <1>9, <1>10 DEF Next, Pass, Main, Terminated

(* A pass sends the WAV that was open when it looked for the one to skip only *)
(* when a later directory has made it take another session for the one being  *)
(* recorded: after a rollover was begun, or failed (spawn_periodic).          *)
THEOREM OpenChunkIsSkipped == Spec => []SkipsOpenChunk
  <1>1. IInv /\ SkipInv /\ ActiveInv => SkipsOpenChunk
    <2> SUFFICES ASSUME IInv, SkipInv, ActiveInv, put # None, put.file = open, open = openThen
                 PROVE  put.file[1] # active /\ \E d \in dirs : d > dir
      BY DEF SkipsOpenChunk
    <2>1. up = "send" /\ put.file[1] = dirNow /\ put.file # skip
      BY DEF SkipInv
    <2>2. put.file \in Files /\ openThen # None /\ open # None
      BY <2>1, NameFacts DEF IInv, TypeOK
    <2>3. put.file[1] # active
      BY <2>1, <2>2 DEF SkipInv
    <2>4. open[1] = dir /\ phase = "recording"
      BY <2>2 DEF IInv, WriterInv, MainInv
    <2>5. active \in Nat /\ (active \in dirs \/ active < dir) /\ dir \in Nat /\ dir <= active
      BY <2>1, <2>4 DEF ActiveInv, Over
    <2>6. dir # active
      BY <2>3, <2>4
    <2>7. active \in dirs /\ active > dir
      BY <2>5, <2>6
    <2> QED
      BY <2>3, <2>7
  <1>2. Init => SkipInv
    BY DEF Init, SkipInv
  <1>3. Init => ActiveInv
    <2> SUFFICES ASSUME Init PROVE ActiveInv
      OBVIOUS
    <2>1. dirs = {1} /\ up = "wait"
      BY DEF Init
    <2> QED
      BY <2>1 DEF ActiveInv
  <1> QED
    BY <1>1, <1>2, <1>3, Inductive, SkipStep, ActiveStep, PTL DEF Spec
=============================================================================
