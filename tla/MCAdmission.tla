---------------------------- MODULE MCAdmission ----------------------------
(* A few requests on one or two accounts under a short ramp.               *)
EXTENDS Admission, TLC

CONSTANTS r1, r2, r3, a1, a2

MCRequests == {r1, r2, r3}
MCAccounts == {a1, a2}
=============================================================================
