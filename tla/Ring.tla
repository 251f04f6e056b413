-------------------------------- MODULE Ring --------------------------------
(* The sample ring between Core Audio's IOProc (capture.rs) and the writer    *)
(* thread (chunk.rs), and how a recording stops.  The IOProc interleaves one  *)
(* sample per channel and pushes them one at a time; the writer reads whole   *)
(* frames by count, so only the number of samples in the ring says where a    *)
(* frame begins.  A sample is its number s in the captured stream: it belongs *)
(* to channel s % Channels.                                                   *)
(*                                                                            *)
(* Actors: the IOProc, the writer, and main (preflight, then the UI's quit    *)
(* key, then capture::stop).  rtrb's push, slots and read_chunk/commit_all    *)
(* are atomic with respect to each other.                                     *)
EXTENDS Integers, Sequences, FiniteSets

CONSTANTS
    Channels,       \* CaptureInfo.channels
    Capacity,       \* RING_SAMPLES
    MaxTake,        \* samples of one batch: batch_frames * ch
    CycleFrames,    \* frames one IOProc cycle may carry; 0 is an empty cycle
    UnevenBy,       \* frames by which its longest buffer may exceed the shortest
    MaxSamples,     \* bound: samples captured
    MaxUneven,      \* bound: an uneven cycle counts no further than this
    MaxMismatched   \* bound: cycles of another shape

ASSUME RingAssumption ==
    /\ Channels \in Nat \ {0}
    /\ Capacity \in Nat \ {0}
    /\ MaxTake \in Nat /\ MaxTake >= Channels /\ MaxTake % Channels = 0
    /\ CycleFrames \subseteq Nat
    /\ UnevenBy \subseteq Nat
    /\ MaxSamples \in Nat /\ MaxUneven \in Nat /\ MaxMismatched \in Nat

VARIABLES
    capturing,      \* the IOProc is registered and running
    toPush,         \* samples of the current cycle still to be pushed
    captured,       \* samples the IOProc has interleaved
    lost,           \* history: those the full ring refused
    dropped,        \* DROPPED_SAMPLES
    mismatched,     \* SHAPE_MISMATCH
    ring,           \* the samples in the ring, oldest first
    pc,             \* main's preflight, then the writer
    buf,            \* the batch the writer last read
    consumed,       \* history: samples handed to the writer, in order
    reported,       \* last_dropped: what Status::Overrun has told the UI
    stop,           \* the StopFlag
    quitAt,         \* history: captured, when the flag was raised
    caught          \* history: it was raised behind a writer that had just found
                    \* the ring empty, with samples pushed in between

captureVars == <<capturing, toPush, captured, lost, dropped, mismatched>>
writerVars  == <<pc, buf, consumed, reported>>
stopVars    == <<stop, quitAt, caught>>
vars == <<captureVars, ring, writerVars, stopVars>>

Init ==
    /\ capturing = TRUE /\ toPush = 0 /\ captured = 0 /\ lost = {} /\ dropped = 0
    /\ mismatched = 0
    /\ ring = <<>>
    /\ pc = "preflight" /\ buf = <<>> /\ consumed = <<>> /\ reported = 0
    /\ stop = FALSE /\ quitAt = 0 /\ caught = FALSE

-----------------------------------------------------------------------------
(* The IOProc.                                                                *)

(* The streams changed since start(): the whole cycle is dropped, and counted *)
(* apart from DROPPED_SAMPLES.                                                *)
DropMismatched ==
    /\ capturing /\ toPush = 0 /\ mismatched < MaxMismatched
    /\ mismatched' = mismatched + 1
    /\ UNCHANGED <<capturing, toPush, captured, lost, dropped, ring, writerVars, stopVars>>

(* A cycle of n frames on every buffer, one of them longer by extra frames:   *)
(* the excess is counted as dropped on all channels and never interleaved.    *)
(* A cycle in which some buffer is empty (n = 0) ends there.                  *)
StartCycle(n, extra) ==
    /\ capturing /\ toPush = 0
    /\ captured + n * Channels <= MaxSamples
    /\ extra > 0 => dropped + extra * Channels <= MaxUneven
    /\ toPush' = n * Channels
    /\ dropped' = dropped + extra * Channels
    /\ UNCHANGED <<capturing, captured, lost, mismatched, ring, writerVars, stopVars>>

Push ==
    /\ toPush > 0
    /\ toPush' = toPush - 1 /\ captured' = captured + 1
    /\ IF Len(ring) < Capacity
       THEN ring' = Append(ring, captured) /\ UNCHANGED <<lost, dropped>>
       ELSE /\ lost' = lost \cup {captured} /\ dropped' = dropped + 1
            /\ UNCHANGED ring
    /\ UNCHANGED <<capturing, mismatched, writerVars, stopVars>>

-----------------------------------------------------------------------------
(* main and the UI.                                                           *)

(* observe_opening reads the ring without committing; then the writer starts. *)
StartWriter ==
    /\ pc = "preflight"
    /\ pc' = "poll"
    /\ UNCHANGED <<captureVars, ring, buf, consumed, reported, stopVars>>

(* The quit key raises the flag while capture still runs...                   *)
Quit ==
    /\ pc # "preflight" /\ ~stop
    /\ stop' = TRUE /\ quitAt' = captured
    /\ caught' = (pc = "empty" /\ ring # <<>>)
    /\ UNCHANGED <<captureVars, ring, writerVars>>

(* ... and main then stops capture; a cycle under way runs to its end.  When  *)
(* the UI fails main stops capture first and raises the flag itself.          *)
StopCapture ==
    /\ pc # "preflight" /\ capturing
    /\ capturing' = FALSE
    /\ UNCHANGED <<toPush, captured, lost, dropped, mismatched, ring, writerVars, stopVars>>

-----------------------------------------------------------------------------
(* The writer.                                                                *)

Available == IF Len(ring) < MaxTake THEN Len(ring) ELSE MaxTake
(* What one read takes: whole frames only.                                    *)
Take == Available - (Available % Channels)

(* slots() saw samples: read a batch and free its room.                       *)
FreedAvailable == Available
Freed == Take
ReadBatch ==
    /\ pc = "poll" /\ Take > 0
    /\ buf' = SubSeq(ring, 1, Take)
    /\ consumed' = consumed \o buf'
    /\ ring' = SubSeq(ring, Freed + 1, Len(ring))
    /\ pc' = "check"
    /\ UNCHANGED <<captureVars, reported, stopVars>>

(* slots() was zero: only then is the flag read, a moment later.              *)
FindEmpty ==
    /\ pc = "poll" /\ ring = <<>>
    /\ pc' = "empty"
    /\ UNCHANGED <<captureVars, ring, buf, consumed, reported, stopVars>>

(* slots() saw less than a frame: sleep and poll again, flag or no flag.      *)
SleepOnPartial == pc = "poll" /\ ring # <<>> /\ Take = 0 /\ UNCHANGED vars

(* The flag is up: leave the loop.  Otherwise sleep, report an overrun and    *)
(* poll again.                                                                *)
AfterEmptyPollsOn ==
    /\ pc = "empty"
    /\ pc' = "poll" /\ reported' = dropped
    /\ UNCHANGED <<captureVars, ring, buf, consumed, stopVars>>
AfterEmpty ==
    /\ pc = "empty"
    /\ IF stop THEN pc' = "done" /\ UNCHANGED reported
               ELSE pc' = "poll" /\ reported' = dropped
    /\ UNCHANGED <<captureVars, ring, buf, consumed, stopVars>>

(* After a batch: report, and leave if the flag is up and the ring is empty.  *)
LeavingUndrained == stop
Leaving == stop /\ ring = <<>>
ReportOverrun == reported' = dropped
AfterBatch ==
    /\ pc = "check"
    /\ ReportOverrun
    /\ pc' = IF Leaving THEN "done" ELSE "poll"
    /\ UNCHANGED <<captureVars, ring, buf, consumed, stopVars>>

-----------------------------------------------------------------------------
IOProc ==
    \/ Push \/ DropMismatched
    \/ \E n \in CycleFrames, extra \in UnevenBy : StartCycle(n, extra)
Writer == ReadBatch \/ FindEmpty \/ SleepOnPartial \/ AfterEmpty \/ AfterBatch
(* The system rests when the writer is done and capture is over.              *)
Terminated == pc = "done" /\ ~capturing /\ toPush = 0 /\ UNCHANGED vars

Next == IOProc \/ Writer \/ StartWriter \/ Quit \/ StopCapture \/ Terminated

Spec == Init /\ [][Next]_vars

(* A cycle that began runs to its end, the writer thread is scheduled, and    *)
(* main goes on to stop capture.  Nobody has to speak, or to quit.            *)
FairSpec == Spec /\ WF_vars(Push) /\ WF_vars(Writer) /\ WF_vars(StartWriter)
                 /\ WF_vars(stop /\ StopCapture)

-----------------------------------------------------------------------------
(* Properties.                                                                *)

(* Every variable stays in its domain and the ring within its capacity.       *)
TypeOK ==
    /\ capturing \in BOOLEAN /\ stop \in BOOLEAN
    /\ toPush \in Nat /\ captured \in Nat /\ dropped \in Nat /\ reported \in Nat
    /\ lost \subseteq Nat /\ mismatched \in Nat /\ quitAt \in Nat /\ caught \in BOOLEAN
    /\ ring \in Seq(Nat) /\ Len(ring) <= Capacity
    /\ pc \in {"preflight", "poll", "empty", "check", "done"}
    /\ buf \in Seq(Nat) /\ consumed \in Seq(Nat)

(* Until something is dropped the writer sees exactly the captured stream:    *)
(* sample k of what it consumed and what is waiting is sample k captured, so  *)
(* each batch starts on channel 0 and the legs never mix (IOProc, record).    *)
StreamIntact ==
    lost = {} =>
        LET stream == consumed \o ring
        IN  /\ Len(stream) = captured
            /\ \A k \in 1..Len(stream) : stream[k] = k - 1

(* Quitting costs no speech: every sample interleaved before the flag went up *)
(* is in the recording when the writer leaves, unless the full ring refused   *)
(* it.  The one exception is a flag raised between slots() = 0 and the read   *)
(* of the flag: what was pushed in that window is left in the ring (record).  *)
Recorded == {consumed[k] : k \in 1..Len(consumed)}
DrainedAtExit == pc = "done" /\ ~caught => 0..quitAt - 1 \subseteq Recorded \cup lost


(* The quit key ends the writer, as long as the ring never was full: no       *)
(* partial frame can then be left behind to wait on.                          *)
WriterReturns == stop ~> (pc = "done" \/ lost # {})
=============================================================================
