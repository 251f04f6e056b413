---------------------------- MODULE SessionLog ----------------------------
(* What the writer promises of speech, with no chunker, no clock, no buffer   *)
(* and no file in sight.  What is spoken goes into the log of the session     *)
(* under way, whole stretches at a time; a stretch may be dropped, never      *)
(* split between two sessions, moved, repeated or taken back; and a new       *)
(* session starts with an empty log, with nothing left over from the old one. *)
(* Recorder implements this.                                                  *)
EXTENDS Naturals

CONSTANTS
    Names,          \* what sessions are called: the second they begin
    First           \* the session recording starts with

VARIABLES
    session,        \* the session under way
    log,            \* what was spoken in each session, as positions in the stream
    pending,        \* spoken, not yet in a log
    dropped         \* spoken in a stretch too short to keep

vars == <<session, log, pending, dropped>>

Logged == UNION {log[d] : d \in Names}

Init ==
    /\ session = First
    /\ log = [d \in Names |-> {}]
    /\ pending = {} /\ dropped = {}

(* Speech is heard in the order of the stream.                                *)
Speak ==
    /\ pending \subseteq pending' /\ pending' \subseteq Nat
    /\ \A i \in pending' \ pending, j \in pending \cup dropped \cup Logged : j < i
    /\ UNCHANGED <<session, log, dropped>>

File ==
    /\ log' = [log EXCEPT ![session] = @ \cup pending]
    /\ pending' = {}
    /\ UNCHANGED <<session, dropped>>

Drop ==
    /\ dropped' = dropped \cup pending
    /\ pending' = {}
    /\ UNCHANGED <<session, log>>

Begin(d) ==
    /\ pending = {}
    /\ d > session /\ log[d] = {}
    /\ session' = d
    /\ UNCHANGED <<log, pending, dropped>>

Next ==
    \/ Speak \/ File \/ Drop
    \/ \E d \in Names : Begin(d)

Spec == Init /\ [][Next]_vars

-----------------------------------------------------------------------------
(* What follows from the promise alone: no position is kept twice, and what   *)
(* one session keeps was all spoken before anything the next one does.        *)
KeptOnce ==
    /\ pending \cap (dropped \cup Logged) = {}
    /\ dropped \cap Logged = {}
    /\ \A d, e \in Names : d < e => \A i \in log[d], j \in log[e] : i < j
=============================================================================
