--------------------------- MODULE CompressProofs ---------------------------
(* Compress never loses audio, for every set of chunks, every combination of  *)
(* failures and every number of runs.  TLC checks the same invariants on      *)
(* three chunks; here they are proved from an inductive one.                  *)
EXTENDS Compress, TLAPS

Working == {"encode", "encoding", "verify", "remove", "clean"}
Ended == {"idle", "done", "killed"}

(* What makes AudioKept inductive: the chunk being worked on, and each chunk  *)
(* the listing still holds, has its WAV, so a FLAC is only ever overwritten   *)
(* or deleted beside a WAV; and the WAV goes only after the FLAC was verified.*)
WorkOnWavs ==
    /\ pc \notin Ended => todo \subseteq wav
    /\ pc \in Working => chunk \in wav /\ chunk \notin todo
    /\ pc = "remove" => flac[chunk] = "good"

IInv == TypeOK /\ AudioKept /\ UntranscribedKeepWav /\ WorkOnWavs

(* The first state: all WAVs are there and no run has begun.                  *)
LEMMA InitIInv == Init => IInv
  <1> SUFFICES ASSUME Init PROVE IInv
    OBVIOUS
  <1> USE CompressAssumption DEF Init
  <1>1. TypeOK
    <2>1. PICK listed \in SUBSET Chunks : names = [c \in listed |-> "wav"]
      OBVIOUS
    <2>2. DOMAIN names = listed /\ names \in [DOMAIN names -> {"wav", "flac"}]
      BY <2>1
    <2> QED
      BY <2>1, <2>2 DEF TypeOK
  <1>2. AudioKept /\ UntranscribedKeepWav
    BY DEF AudioKept, UntranscribedKeepWav
  <1>3. WorkOnWavs
    BY DEF WorkOnWavs, Working, Ended
  <1> QED
    BY <1>1, <1>2, <1>3 DEF IInv

(* Every step keeps it, one action at a time.                                 *)
LEMMA NextIInv == IInv /\ [Next]_vars => IInv'
  <1> SUFFICES ASSUME IInv, [Next]_vars PROVE IInv'
    OBVIOUS
  <1> USE CompressAssumption DEF IInv, TypeOK, AudioKept, UntranscribedKeepWav,
                                 WorkOnWavs, Working, Ended, fileVars,
                                 metVars, Fails
  <1>1. CASE Start
    BY <1>1 DEF Start
  <1>2. CASE Pick
    BY <1>2 DEF Pick, Wanted
  <1>3. CASE OpenFlac
    BY <1>3 DEF OpenFlac
  <1>4. CASE CloseFlac
    BY <1>4 DEF CloseFlac
  <1>5. CASE Verify
    BY <1>5 DEF Verify, Verified
  <1>6. CASE RemoveWav
    BY <1>6 DEF RemoveWav
  <1>7. CASE Clean
    BY <1>7 DEF Clean
  <1>8. CASE Repoint
    BY <1>8 DEF Repoint, Repointed
  <1>9. CASE Crash
    BY <1>9 DEF Crash
  <1>10. CASE Stopped \/ UNCHANGED vars
    BY <1>10 DEF Stopped, vars
  <1> QED
    BY <1>1, <1>2, <1>3, <1>4, <1>5, <1>6, <1>7, <1>8, <1>9, <1>10 DEF Next

(* The inductive invariant holds of every reachable state.                    *)
LEMMA Inductive == Spec => []IInv
  BY InitIInv, NextIInv, PTL DEF Spec

(* Compression is type correct.                                               *)
THEOREM CompressTypes == Spec => []TypeOK
  <1>1. IInv => TypeOK
    BY DEF IInv
  <1> QED
    BY Inductive, <1>1, PTL

(* Whatever fails, and wherever a run is killed and started again, each chunk *)
(* of the session keeps its WAV or a FLAC that decodes to all of it.          *)
THEOREM AudioIsKept == Spec => []AudioKept
  <1>1. IInv => AudioKept
    BY DEF IInv
  <1> QED
    BY Inductive, <1>1, PTL

(* No run ever deletes the WAV of a chunk that is still to be transcribed.    *)
THEOREM UntranscribedSafe == Spec => []UntranscribedKeepWav
  <1>1. IInv => UntranscribedKeepWav
    BY DEF IInv
  <1> QED
    BY Inductive, <1>1, PTL

-----------------------------------------------------------------------------
(* meta.json and the rerun.                                                   *)

(* As long as no run was killed and no replacement of meta.json failed, a     *)
(* name is only ever behind the files between a removal and the replacement,  *)
(* and only for the chunks renamed by the run under way.                      *)
Harmless == (met \cup metBefore) \cap {"crash", "repoint"} = {}
NameOK(c) ==
    \/ names[c] = "wav" /\ c \in wav
    \/ names[c] = "wav" /\ c \in renamed /\ pc \notin Ended
    \/ names[c] = "flac" /\ c \notin wav
NamesInv ==
    /\ pc \notin Ended => renamed \cap wav = {}
    /\ Harmless => \A c \in DOMAIN names : NameOK(c)

(* A run that has met nothing yet is done with every transcribed chunk it has *)
(* passed, and the one in its hand is going well.                             *)
FinishedWith(c) == c \notin wav /\ flac[c] = "good"
RerunInv ==
    met = {} =>
        /\ pc # "clean"
        /\ pc = "verify" => flac[chunk] = "good"
        /\ pc \notin Ended =>
               \A c \in json : c \in todo \/ (pc \in Working /\ c = chunk) \/ FinishedWith(c)
        /\ pc = "done" => \A c \in json : FinishedWith(c)

(* Nothing is renamed and nothing is met before the first run.                *)
LEMMA InitNames == Init => NamesInv /\ RerunInv
  BY DEF Init, NamesInv, Harmless, NameOK, RerunInv, Ended

(* meta.json keeps up with the files.                                         *)
LEMMA NamesStep ==
  ASSUME IInv, NamesInv, [Next]_vars
  PROVE  NamesInv'
  <1> USE DEF IInv, TypeOK, WorkOnWavs, NamesInv, Harmless, NameOK, Working, Ended,
              fileVars, metVars, Fails
  <1>1. CASE Start
    BY <1>1 DEF Start
  <1>2. CASE Pick \/ OpenFlac \/ CloseFlac \/ Verify \/ Clean
    BY <1>2 DEF Pick, OpenFlac, CloseFlac, Verify, Clean
  <1>3. CASE RemoveWav
    BY <1>3 DEF RemoveWav
  <1>4. CASE Repoint
    <2>1. ASSUME Harmless' PROVE Harmless /\ names' = Repointed
      BY <1>4, <2>1 DEF Repoint
    <2>2. ASSUME Harmless', NEW c \in DOMAIN names' PROVE NameOK(c)'
      BY <1>4, <2>1, <2>2 DEF Repoint, Repointed
    <2> QED BY <1>4, <2>2 DEF Repoint
  <1>5. CASE Crash
    BY <1>5 DEF Crash
  <1>6. CASE Stopped \/ UNCHANGED vars
    BY <1>6 DEF Stopped, vars
  <1> QED BY <1>1, <1>2, <1>3, <1>4, <1>5, <1>6 DEF Next

(* A run without a failure leaves no transcribed chunk behind.                *)
LEMMA RerunStep ==
  ASSUME IInv, RerunInv, [Next]_vars
  PROVE  RerunInv'
  <1> USE CompressAssumption DEF IInv, TypeOK, AudioKept, WorkOnWavs, RerunInv, FinishedWith,
                                 Working, Ended, fileVars, metVars, Fails
  <1>1. CASE Start
    BY <1>1 DEF Start
  <1>2. CASE Pick
    BY <1>2 DEF Pick, Wanted
  <1>3. CASE OpenFlac
    BY <1>3 DEF OpenFlac
  <1>4. CASE CloseFlac
    BY <1>4 DEF CloseFlac
  <1>5. CASE Verify
    BY <1>5 DEF Verify, Verified
  <1>6. CASE RemoveWav
    BY <1>6 DEF RemoveWav
  <1>7. CASE Clean
    BY <1>7 DEF Clean
  <1>8. CASE Repoint
    BY <1>8 DEF Repoint
  <1>9. CASE Crash \/ Stopped \/ UNCHANGED vars
    BY <1>9 DEF Crash, Stopped, vars
  <1> QED BY <1>1, <1>2, <1>3, <1>4, <1>5, <1>6, <1>7, <1>8, <1>9 DEF Next

(* Whenever a run has ended, meta.json names a file that holds the chunk's    *)
(* audio, unless a run was killed or meta.json could not be replaced.         *)
THEOREM NamesAreRight == Spec => []MetaNamesAudio
  <1>1. IInv /\ NamesInv => MetaNamesAudio
    BY DEF IInv, TypeOK, AudioKept, NamesInv, Harmless, NameOK, MetaNamesAudio, Exists, Ended
  <1> QED
    BY InitIInv, NextIInv, InitNames, NamesStep, <1>1, PTL DEF Spec

(* A run that meets no failure finishes what killed and failed ones left.     *)
THEOREM RerunsFinish == Spec => []RerunFinishes
  <1>1. RerunInv => RerunFinishes
    BY DEF RerunInv, RerunFinishes, FinishedWith
  <1> QED
    BY InitIInv, NextIInv, InitNames, RerunStep, <1>1, PTL DEF Spec
=============================================================================
