----------------------------- MODULE OneAnswer -----------------------------
(***************************************************************************)
(* What the proxy promises a client about the upstream: a request may be   *)
(* tried on several accounts, but once an upstream may be running and      *)
(* billing it, it is never sent again; and it is answered once.            *)
(***************************************************************************)
CONSTANT Requests

VARIABLES phase,   \* "idle", "trying" (with the proxy) or "out" (left it)
          billed   \* an upstream may be running it, or has

vars == <<phase, billed>>

TypeOK == /\ phase \in [Requests -> {"idle", "trying", "out"}]
          /\ billed \in [Requests -> BOOLEAN]

Init == /\ phase = [r \in Requests |-> "idle"]
        /\ billed = [r \in Requests |-> FALSE]

Ask(r) == /\ phase[r] = "idle"
          /\ phase' = [phase EXCEPT ![r] = "trying"]
          /\ UNCHANGED billed

Send(r) == /\ phase[r] = "trying" /\ ~billed[r]
           /\ phase' = [phase EXCEPT ![r] = "out"]
           /\ billed' = [billed EXCEPT ![r] = TRUE]

\* The upstream answers that it has not run it.
Refused(r) == /\ phase[r] = "out" /\ billed[r]
              /\ billed' = [billed EXCEPT ![r] = FALSE]
              /\ UNCHANGED phase

ComesBack(r) == /\ phase[r] = "out" /\ ~billed[r]
                /\ phase' = [phase EXCEPT ![r] = "trying"]
                /\ UNCHANGED billed

\* The client has its answer, or has gone.
Answered(r) == /\ phase[r] # "idle"
               /\ phase' = [phase EXCEPT ![r] = "idle"]
               /\ billed' = [billed EXCEPT ![r] = FALSE]

Next == \E r \in Requests :
          Ask(r) \/ Send(r) \/ Refused(r) \/ ComesBack(r) \/ Answered(r)

Spec == Init /\ [][Next]_vars
=============================================================================
