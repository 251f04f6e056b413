----------------------------- MODULE RingClaims -----------------------------
(* What a comment of main says of stopping where the code does something else *)
(* once the ring has been full.                                               *)
EXTENDS Ring

(* "Always stop capture and the writer and join, even if the UI failed, so    *)
(* the aggregate device is torn down and the current chunk closes." (main)    *)
QuitAlwaysJoins == stop ~> pc = "done"
=============================================================================
