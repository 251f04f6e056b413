------------------------------ MODULE Chunker ------------------------------
(* The cut decision of chunk.rs: when a chunk opens and when it is cut, fed   *)
(* one batch of frames at a time with a single speech / no-speech verdict.    *)
(* Also the two bounded sample buffers the writer keeps beside it.  Every     *)
(* quantity is a number of frames; the code's durations are frames divided    *)
(* by the sample rate, so the comparisons are the same.                       *)
EXTENDS Integers, Sequences

CONSTANTS
    SilenceToCut,   \* SILENCE_TO_CUT: a silence this long closes the chunk
    MaxChunk,       \* max_chunk(): a chunk this long is cut whatever is heard
    SizeLimit,      \* max_chunk_bytes(): frames a file may hold
    Second          \* sample_rate: frames held back from SizeLimit

ASSUME ChunkerAssumption ==
    /\ SilenceToCut \in Nat \ {0}
    /\ MaxChunk \in Nat \ {0}
    /\ SizeLimit \in Nat
    /\ Second \in Nat

(* Frames an open chunk may count before it is cut for size: the limit less   *)
(* one second for the pre-roll and the batch that crosses it, saturating.     *)
MaxFramesNoReserve == SizeLimit
MaxFrames == IF SizeLimit > Second THEN SizeLimit - Second ELSE 0

ChunkerState ==
    [silence: Nat, chunk: Nat, hasSpeech: BOOLEAN, open: BOOLEAN]

NewChunker ==
    [silence |-> 0, chunk |-> 0, hasSpeech |-> FALSE, open |-> FALSE]

(* The counters after n more frames.  Speech opens the chunk; silence never   *)
(* closes it here.                                                            *)
Fed(c, speech, n) ==
    LET open == c.open \/ speech
    IN  [silence   |-> IF speech THEN 0 ELSE c.silence + n,
         chunk     |-> IF open THEN c.chunk + n ELSE c.chunk,
         hasSpeech |-> c.hasSpeech \/ speech,
         open      |-> open]

(* The caps are tested before the silence.                                    *)
AtCap(c) == c.chunk >= MaxChunk \/ c.chunk >= MaxFrames

CutOf(c) ==
    IF c.open /\ AtCap(c) THEN "HardCap"
    ELSE IF c.open /\ c.hasSpeech /\ c.silence >= SilenceToCut THEN "Silence"
    ELSE "None"

(* The silence run goes on across a cut: only speech ends it.                 *)
ResetKeepingOpen(c) == [c EXCEPT !.chunk = 0]
ResetAfterCut(c) ==
    [c EXCEPT !.chunk = 0, !.hasSpeech = FALSE, !.open = FALSE]

(* push_preroll: add a batch, then drop from the front down to cap frames.    *)
KeepLast(buffer, batch, cap) ==
    LET all == buffer \o batch
    IN  IF Len(all) > cap THEN SubSeq(all, Len(all) - cap + 1, Len(all)) ELSE all
=============================================================================
