----------------------------- MODULE RingProofs -----------------------------
(* Theorems about the sample ring, for every number of channels, every        *)
(* capacity and every size of cycle and batch.                                *)
EXTENDS Ring, SequenceTheorems, TLAPS

(* StreamIntact, in the form a step preserves: what was consumed and what is  *)
(* waiting are numbered through.                                              *)
Numbered ==
    lost = {} =>
        /\ Len(consumed) + Len(ring) = captured
        /\ \A k \in 1..Len(consumed) : consumed[k] = k - 1
        /\ \A k \in 1..Len(ring) : ring[k] = Len(consumed) + k - 1

(* Every sample interleaved is in the recording, in the ring or refused.      *)
Waiting == {ring[k] : k \in 1..Len(ring)}
Accounted == 0..captured - 1 \subseteq Recorded \cup Waiting \cup lost

(* Once the writer has found the ring empty, or has left, whatever waits came *)
(* after the flag was raised, unless the flag was raised behind its back.     *)
Late ==
    /\ quitAt <= captured
    /\ pc = "done" => stop
    /\ stop /\ ~caught /\ pc \in {"empty", "done"} =>
          \A k \in 1..Len(ring) : ring[k] >= quitAt

RingInv == TypeOK /\ Numbered /\ Accounted /\ Late

(* One read takes whole frames, and no more than there are.                   *)
LEMMA TakeType ==
  ASSUME TypeOK
  PROVE  Take \in Int /\ Take <= Len(ring) /\ Len(ring) \in Nat
  <1>1. Len(ring) \in Nat /\ MaxTake \in Nat /\ Channels \in Nat \ {0}
    BY RingAssumption DEF TypeOK
  <1>2. Available \in Nat /\ Available <= Len(ring)
    BY <1>1 DEF Available
  <1>3. Available % Channels \in Nat
    BY <1>1, <1>2
  <1> QED BY <1>1, <1>2, <1>3 DEF Take

(* What touches neither end of the stream keeps the account of it.            *)
LEMMA StreamUntouched ==
  ASSUME RingInv, UNCHANGED <<captured, lost, ring, consumed>>
  PROVE  Numbered' /\ Accounted'
  BY DEF RingInv, Numbered, Accounted, Recorded, Waiting

(* Nothing has been captured.                                                 *)
LEMMA InitRing == Init => RingInv
  <1> SUFFICES ASSUME Init PROVE RingInv
    OBVIOUS
  <1>1. ring \in Seq(Nat) /\ buf \in Seq(Nat) /\ consumed \in Seq(Nat)
    BY DEF Init
  <1>2. Len(ring) = 0 /\ Len(consumed) = 0
    BY DEF Init
  <1>3. TypeOK
    <2>1. /\ capturing \in BOOLEAN /\ stop \in BOOLEAN /\ lost \subseteq Nat
          /\ toPush \in Nat /\ captured \in Nat /\ dropped \in Nat /\ reported \in Nat
          /\ mismatched \in Nat /\ quitAt \in Nat /\ caught \in BOOLEAN
          /\ pc = "preflight"
      BY DEF Init
    <2>2. Capacity \in Nat
      BY RingAssumption
    <2> QED BY <1>1, <1>2, <2>1, <2>2 DEF TypeOK
  <1>4. captured - 1 = -1 /\ 0..captured - 1 = {}
    BY DEF Init
  <1> QED BY <1>2, <1>3, <1>4 DEF Init, RingInv, Numbered, Accounted, Late

(* A push adds the next number at the end, or loses it.                       *)
LEMMA PushRing ==
  ASSUME RingInv, Push
  PROVE  RingInv'
  <1>1. /\ toPush \in Nat /\ toPush > 0 /\ captured \in Nat /\ ring \in Seq(Nat)
        /\ Len(ring) <= Capacity /\ lost \subseteq Nat /\ dropped \in Nat /\ quitAt \in Nat
        /\ consumed \in Seq(Nat) /\ Len(consumed) \in Nat /\ Len(ring) \in Nat
    BY DEF RingInv, TypeOK, Push
  <1>2. /\ toPush' = toPush - 1 /\ captured' = captured + 1
        /\ UNCHANGED <<capturing, mismatched, pc, buf, consumed, reported, stop, quitAt, caught>>
    BY DEF Push, writerVars, stopVars
  <1>0. \A s \in 0..captured' - 1 : s \in 0..captured - 1 \/ s = captured
    BY <1>1, <1>2
  <1>3. CASE Len(ring) < Capacity
    <2>1. ring' = Append(ring, captured) /\ lost' = lost /\ dropped' = dropped
      BY <1>3 DEF Push
    <2>2. /\ ring' \in Seq(Nat) /\ Len(ring') = Len(ring) + 1
          /\ \A k \in 1..Len(ring) : ring'[k] = ring[k]
          /\ ring'[Len(ring) + 1] = captured
      BY <1>1, <2>1
    <2>3. TypeOK'
      <3>1. Capacity \in Nat
        BY RingAssumption
      <3> QED BY <1>1, <1>2, <1>3, <2>1, <2>2, <3>1 DEF RingInv, TypeOK
    <2>4. \A k \in 1..Len(ring') : k \in 1..Len(ring) \/ k = Len(ring) + 1
      BY <1>1, <2>2
    <2>5. Numbered'
      <3> SUFFICES ASSUME lost = {}
                   PROVE  /\ Len(consumed) + Len(ring') = captured + 1
                          /\ \A k \in 1..Len(ring') : ring'[k] = Len(consumed) + k - 1
        BY <1>2, <2>1 DEF RingInv, Numbered
      <3>1. /\ Len(consumed) + Len(ring) = captured
            /\ \A k \in 1..Len(ring) : ring[k] = Len(consumed) + k - 1
        BY DEF RingInv, Numbered
      <3>2. Len(consumed) + Len(ring') = captured + 1
        BY <1>1, <2>2, <3>1
      <3>3. ASSUME NEW k \in 1..Len(ring') PROVE ring'[k] = Len(consumed) + k - 1
        <4>1. CASE k \in 1..Len(ring)
          BY <2>2, <3>1, <4>1
        <4>2. CASE k = Len(ring) + 1
          BY <1>1, <2>2, <3>1, <4>2
        <4> QED BY <2>4, <4>1, <4>2
      <3> QED BY <3>2, <3>3
    <2>6. Late'
      <3>1. quitAt' <= captured' /\ (pc' = "done" => stop')
        BY <1>1, <1>2 DEF RingInv, Late
      <3>2. ASSUME stop, ~caught, pc \in {"empty", "done"}, NEW k \in 1..Len(ring')
            PROVE  ring'[k] >= quitAt
        <4>1. CASE k \in 1..Len(ring)
          BY <2>2, <3>2, <4>1 DEF RingInv, Late
        <4>2. CASE k = Len(ring) + 1
          BY <1>1, <2>2, <4>2 DEF RingInv, Late
        <4> QED BY <2>4, <4>1, <4>2
      <3> QED BY <1>2, <3>1, <3>2 DEF Late
    <2>7. Accounted'
      <3>1. Recorded' = Recorded
        BY <1>2 DEF Recorded
      <3>2. ASSUME NEW s \in Waiting PROVE s \in Waiting'
        <4>1. PICK k \in 1..Len(ring) : s = ring[k]
          BY <3>2 DEF Waiting
        <4>2. k \in 1..Len(ring') /\ s = ring'[k]
          BY <1>1, <2>2, <4>1
        <4> QED BY <4>2 DEF Waiting
      <3>3. captured \in Waiting'
        <4>1. Len(ring) + 1 \in 1..Len(ring')
          BY <1>1, <2>2
        <4> QED BY <2>2, <4>1 DEF Waiting
      <3> QED BY <1>0, <2>1, <3>1, <3>2, <3>3 DEF RingInv, Accounted
    <2> QED BY <2>3, <2>5, <2>6, <2>7 DEF RingInv
  <1>4. CASE ~(Len(ring) < Capacity)
    <2>1. ring' = ring /\ lost' = lost \cup {captured} /\ dropped' = dropped + 1
      BY <1>4 DEF Push
    <2>2. Accounted'
      BY <1>0, <1>2, <2>1 DEF RingInv, Accounted, Recorded, Waiting
    <2> QED BY <1>1, <1>2, <2>1, <2>2 DEF RingInv, TypeOK, Numbered, Late
  <1> QED BY <1>3, <1>4

(* A read moves the oldest samples from one side to the other.                *)
LEMMA ReadRing ==
  ASSUME RingInv, ReadBatch
  PROVE  RingInv'
  <1>1. /\ ring \in Seq(Nat) /\ consumed \in Seq(Nat)
        /\ Len(ring) \in Nat /\ Len(consumed) \in Nat /\ Len(ring) <= Capacity
        /\ Take \in Int /\ Take > 0 /\ Take <= Len(ring)
    BY TakeType DEF RingInv, TypeOK, ReadBatch
  <1>2. /\ buf' = SubSeq(ring, 1, Take) /\ consumed' = consumed \o buf'
        /\ ring' = SubSeq(ring, Take + 1, Len(ring)) /\ pc' = "check"
        /\ UNCHANGED <<capturing, toPush, captured, lost, dropped, mismatched, reported,
                       stop, quitAt, caught>>
    BY DEF ReadBatch, Freed, captureVars, stopVars
  <1>3. /\ buf' \in Seq(Nat) /\ Len(buf') = Take
        /\ \A k \in 1..Take : buf'[k] = ring[k]
    BY <1>1, <1>2
  <1>4. /\ ring' \in Seq(Nat) /\ Len(ring') = Len(ring) - Take
        /\ \A k \in 1..Len(ring') : ring'[k] = ring[Take + k]
    BY <1>1, <1>2
  <1>5. /\ consumed' \in Seq(Nat) /\ Len(consumed') = Len(consumed) + Take
        /\ \A k \in 1..Len(consumed) : consumed'[k] = consumed[k]
        /\ \A k \in 1..Take : consumed'[Len(consumed) + k] = buf'[k]
    <2> HIDE DEF Take
    <2> QED BY <1>1, <1>2, <1>3
  <1>6. TypeOK'
    <2>1. Capacity \in Nat
      BY RingAssumption
    <2>2. Len(ring') <= Capacity
      BY <1>1, <1>4, <2>1
    <2> QED BY <1>1, <1>2, <1>3, <1>4, <1>5, <2>2 DEF RingInv, TypeOK
  <1>7. Numbered'
    <2> SUFFICES ASSUME lost = {}
                 PROVE  /\ Len(consumed') + Len(ring') = captured
                        /\ \A k \in 1..Len(consumed') : consumed'[k] = k - 1
                        /\ \A k \in 1..Len(ring') : ring'[k] = Len(consumed') + k - 1
      BY <1>2 DEF Numbered
    <2>1. /\ Len(consumed) + Len(ring) = captured
          /\ \A k \in 1..Len(consumed) : consumed[k] = k - 1
          /\ \A k \in 1..Len(ring) : ring[k] = Len(consumed) + k - 1
      BY DEF RingInv, Numbered
    <2>2. ASSUME NEW k \in 1..Len(consumed') PROVE consumed'[k] = k - 1
      <3>1. CASE k <= Len(consumed)
        BY <1>1, <1>5, <2>1, <3>1
      <3>2. CASE ~(k <= Len(consumed))
        <4>1. k - Len(consumed) \in 1..Take /\ k = Len(consumed) + (k - Len(consumed))
          BY <1>1, <1>5, <3>2
        <4>2. consumed'[k] = ring[k - Len(consumed)]
          BY <1>3, <1>5, <4>1
        <4>3. k - Len(consumed) \in 1..Len(ring)
          BY <1>1, <4>1
        <4> QED BY <1>1, <2>1, <4>1, <4>2, <4>3
      <3> QED BY <3>1, <3>2
    <2>3. ASSUME NEW k \in 1..Len(ring') PROVE ring'[k] = Len(consumed') + k - 1
      <3>1. Take + k \in 1..Len(ring) /\ ring'[k] = ring[Take + k]
        BY <1>1, <1>4
      <3> QED BY <1>1, <1>5, <2>1, <3>1
    <2> QED BY <1>1, <1>4, <1>5, <2>1, <2>2, <2>3
  <1>8. Late'
    BY <1>2 DEF RingInv, Late, ReadBatch
  <1>9. Accounted'
    <2>1. ASSUME NEW s \in Recorded PROVE s \in Recorded'
      <3>1. PICK k \in 1..Len(consumed) : s = consumed[k]
        BY <2>1 DEF Recorded
      <3>2. k \in 1..Len(consumed') /\ s = consumed'[k]
        <4> HIDE DEF Take
        <4> QED BY <1>1, <1>5, <3>1
      <3> QED BY <3>2 DEF Recorded
    <2>2. ASSUME NEW s \in Waiting PROVE s \in Recorded' \cup Waiting'
      <3>1. PICK k \in 1..Len(ring) : s = ring[k]
        BY <2>2 DEF Waiting
      <3>2. CASE k <= Take
        <4>1. k \in 1..Take /\ Len(consumed) + k \in 1..Len(consumed')
          BY <1>1, <1>5, <3>2
        <4>2. s = consumed'[Len(consumed) + k]
          BY <1>3, <1>5, <3>1, <4>1
        <4> QED BY <4>1, <4>2 DEF Recorded
      <3>3. CASE ~(k <= Take)
        <4> HIDE DEF Take
        <4>1. k - Take \in 1..Len(ring') /\ Take + (k - Take) = k
          BY <1>1, <1>4, <3>1, <3>3
        <4>2. s = ring'[k - Take]
          BY <1>4, <3>1, <4>1
        <4> QED BY <4>1, <4>2 DEF Waiting
      <3> QED BY <3>2, <3>3
    <2> QED BY <1>2, <2>1, <2>2 DEF RingInv, Accounted
  <1> QED BY <1>6, <1>7, <1>8, <1>9 DEF RingInv

(* RingInv is inductive.                                                      *)
LEMMA RingStep == RingInv /\ [Next]_vars => RingInv'
  <1> SUFFICES ASSUME RingInv, [Next]_vars PROVE RingInv'
    OBVIOUS
  <1>1. CASE IOProc
    <2>1. ASSUME NEW n \in CycleFrames, NEW extra \in UnevenBy, StartCycle(n, extra)
          PROVE  RingInv'
      <3>1. n * Channels \in Nat /\ extra * Channels \in Nat
        BY RingAssumption
      <3>2. Numbered' /\ Accounted'
        BY <2>1, StreamUntouched DEF StartCycle, writerVars
      <3>3. TypeOK' /\ Late'
        BY <2>1, <3>1 DEF StartCycle, RingInv, TypeOK, Late, writerVars, stopVars
      <3> QED BY <3>2, <3>3 DEF RingInv
    <2>2. CASE DropMismatched
      <3>1. Numbered' /\ Accounted'
        BY <2>2, StreamUntouched DEF DropMismatched, writerVars
      <3>2. TypeOK' /\ Late'
        BY <2>2 DEF DropMismatched, RingInv, TypeOK, Late, writerVars, stopVars
      <3> QED BY <3>1, <3>2 DEF RingInv
    <2> QED BY <1>1, <2>1, <2>2, PushRing DEF IOProc
  <1>2. CASE ReadBatch
    BY <1>2, ReadRing
  <1>3. CASE FindEmpty
    <2>1. ring' = <<>> /\ Len(ring') = 0 /\ pc' = "empty"
      BY <1>3 DEF FindEmpty
    <2>2. Numbered' /\ Accounted'
      BY <1>3, StreamUntouched DEF FindEmpty, captureVars
    <2>3. TypeOK' /\ Late'
      BY <1>3, <2>1 DEF FindEmpty, RingInv, TypeOK, Late, captureVars, stopVars
    <2> QED BY <2>2, <2>3 DEF RingInv
  <1>4. CASE AfterEmpty
    <2>1. Numbered' /\ Accounted'
      BY <1>4, StreamUntouched DEF AfterEmpty, captureVars
    <2>2. TypeOK' /\ Late'
      BY <1>4 DEF AfterEmpty, RingInv, TypeOK, Late, captureVars, stopVars
    <2> QED BY <2>1, <2>2 DEF RingInv
  <1>5. CASE AfterBatch
    <2>1. pc' = "done" => stop /\ ring' = <<>> /\ Len(ring') = 0
      BY <1>5 DEF AfterBatch, Leaving
    <2>2. pc' \in {"done", "poll"}
      BY <1>5 DEF AfterBatch
    <2>3. Numbered' /\ Accounted'
      BY <1>5, StreamUntouched DEF AfterBatch, captureVars
    <2>4. TypeOK'
      BY <1>5, <2>2 DEF AfterBatch, ReportOverrun, RingInv, TypeOK, captureVars, stopVars
    <2>5. Late'
      BY <1>5, <2>1, <2>2 DEF AfterBatch, RingInv, Late, captureVars, stopVars
    <2> QED BY <2>3, <2>4, <2>5 DEF RingInv
  <1>6. CASE StartWriter
    <2>1. Numbered' /\ Accounted'
      BY <1>6, StreamUntouched DEF StartWriter, captureVars
    <2>2. TypeOK' /\ Late'
      BY <1>6 DEF StartWriter, RingInv, TypeOK, Late, captureVars, stopVars
    <2> QED BY <2>1, <2>2 DEF RingInv
  <1>7. CASE StopCapture
    <2>1. Numbered' /\ Accounted'
      BY <1>7, StreamUntouched DEF StopCapture, writerVars
    <2>2. TypeOK' /\ Late'
      BY <1>7 DEF StopCapture, RingInv, TypeOK, Late, writerVars, stopVars
    <2> QED BY <2>1, <2>2 DEF RingInv
  <1>8. CASE Quit
    <2>1. /\ UNCHANGED <<captureVars, ring, writerVars>> /\ stop' = TRUE
          /\ quitAt' = captured /\ caught' = (pc = "empty" /\ ring # <<>>)
          /\ ~stop
      BY <1>8 DEF Quit
    <2>2. ~caught' /\ pc' \in {"empty", "done"} => ring' = <<>> /\ Len(ring') = 0
      BY <2>1 DEF RingInv, Late, writerVars
    <2>3. TypeOK'
      BY <2>1 DEF RingInv, TypeOK, captureVars, writerVars
    <2>4. Numbered' /\ Accounted'
      BY <2>1, StreamUntouched DEF captureVars, writerVars
    <2>5. Late'
      BY <2>1, <2>2 DEF RingInv, TypeOK, Late, captureVars, writerVars
    <2> QED BY <2>3, <2>4, <2>5 DEF RingInv
  <1>9. CASE SleepOnPartial \/ Terminated \/ UNCHANGED vars
    <2>1. UNCHANGED <<captureVars, ring, writerVars, stopVars>>
      BY <1>9 DEF SleepOnPartial, Terminated, vars
    <2>2. Numbered' /\ Accounted'
      BY <2>1, StreamUntouched DEF captureVars, writerVars
    <2>3. TypeOK' /\ Late'
      BY <2>1 DEF RingInv, TypeOK, Late, captureVars, writerVars, stopVars
    <2> QED BY <2>2, <2>3 DEF RingInv
  <1> QED BY <1>1, <1>2, <1>3, <1>4, <1>5, <1>6, <1>7, <1>8, <1>9 DEF Next, Writer

(* The ring's invariant holds of every reachable state.                       *)
LEMMA RingAlways == Spec => []RingInv
  BY InitRing, RingStep, PTL DEF Spec

(* The ring stays within its capacity and every counter a count.              *)
THEOREM RingTypes == Spec => []TypeOK
  <1>1. RingInv => TypeOK
    BY DEF RingInv
  <1> QED BY <1>1, RingAlways, PTL

(* Until a sample is lost the writer sees the captured stream and nothing     *)
(* else, whatever the sizes: no batch ever starts on the wrong channel.       *)
THEOREM StreamStaysIntact == Spec => []StreamIntact
  <1>1. RingInv => StreamIntact
    <2> SUFFICES ASSUME RingInv, lost = {}
                 PROVE  /\ Len(consumed \o ring) = captured
                        /\ \A k \in 1..Len(consumed \o ring) : (consumed \o ring)[k] = k - 1
      BY DEF StreamIntact
    <2>1. /\ consumed \in Seq(Nat) /\ ring \in Seq(Nat)
          /\ Len(consumed) \in Nat /\ Len(ring) \in Nat
      BY DEF RingInv, TypeOK
    <2>2. /\ Len(consumed) + Len(ring) = captured
          /\ \A k \in 1..Len(consumed) : consumed[k] = k - 1
          /\ \A k \in 1..Len(ring) : ring[k] = Len(consumed) + k - 1
      BY DEF RingInv, Numbered
    <2>3. /\ Len(consumed \o ring) = Len(consumed) + Len(ring)
          /\ \A k \in 1..Len(consumed) : (consumed \o ring)[k] = consumed[k]
          /\ \A k \in 1..Len(ring) : (consumed \o ring)[Len(consumed) + k] = ring[k]
      BY <2>1
    <2>4. ASSUME NEW k \in 1..Len(consumed \o ring) PROVE (consumed \o ring)[k] = k - 1
      <3>1. CASE k <= Len(consumed)
        BY <2>1, <2>2, <2>3, <3>1
      <3>2. CASE ~(k <= Len(consumed))
        <4>1. k - Len(consumed) \in 1..Len(ring) /\ k = Len(consumed) + (k - Len(consumed))
          BY <2>1, <2>3, <3>2
        <4>2. (consumed \o ring)[Len(consumed) + (k - Len(consumed))] = ring[k - Len(consumed)]
          BY <2>3, <4>1
        <4>3. ring[k - Len(consumed)] = Len(consumed) + (k - Len(consumed)) - 1
          BY <2>2, <4>1
        <4> QED BY <2>1, <4>1, <4>2, <4>3
      <3> QED BY <3>1, <3>2
    <2> QED BY <2>2, <2>3, <2>4
  <1> QED BY <1>1, RingAlways, PTL

(* Every sample interleaved before the flag went up is in the recording when  *)
(* the writer leaves, or was refused by a full ring, unless the flag went up  *)
(* between the writer's last slots() and its read of the flag.                *)
THEOREM WriterDrains == Spec => []DrainedAtExit
  <1>1. RingInv => DrainedAtExit
    <2> SUFFICES ASSUME RingInv, pc = "done", ~caught, NEW s \in 0..quitAt - 1
                 PROVE  s \in Recorded \cup lost
      BY DEF DrainedAtExit
    <2>1. s \in 0..captured - 1
      BY DEF RingInv, TypeOK, Late
    <2>2. s \notin Waiting
      <3>1. \A k \in 1..Len(ring) : ring[k] >= quitAt
        BY DEF RingInv, Late
      <3> QED BY <3>1 DEF Waiting, RingInv, TypeOK
    <2> QED BY <2>1, <2>2 DEF RingInv, Accounted
  <1> QED BY <1>1, RingAlways, PTL
=============================================================================
