-------------------------- MODULE MCTokenRefresh --------------------------
(* A handler and a probe on one account, the smallest set in which one     *)
(* caller waits for the lock while another refreshes.                      *)
EXTENDS TokenRefresh, TLC

CONSTANTS r1, p1

MCRequests == {r1}
MCProbes   == {p1}
===========================================================================
