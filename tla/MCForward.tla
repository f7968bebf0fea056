----------------------------- MODULE MCForward -----------------------------
(* Small pools under the request loop.  Each run names the classes its     *)
(* upstreams answer with, so that the runs together cover all of them.     *)
EXTENDS Forward, TLC

CONSTANTS r1, r2, a1, a2, a3

Nobody    == [r \in Requests |-> NoPin]
OnePinned == [r \in Requests |-> IF r = r2 THEN a2 ELSE NoPin]

NoHold    == [r \in Requests |-> 0]
Holds     == [r \in Requests |-> IF r = r1 THEN 2 ELSE 0]

\* Classes by what they exercise.
Turns     == {"ok", "5xx", "connect", "quota", "family", "short", "mid", "long", "bare"}
Mixed     == {"ok", "lost", "401", "denied", "bare"}
Refusals  == {"ok", "401", "short"}
Spent     == {"ok"}

=============================================================================
