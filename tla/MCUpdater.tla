------------------------------ MODULE MCUpdater ------------------------------
(***************************************************************************)
(* A small instance of Updater: the second release is sound, the third     *)
(* starts and does not answer, the fourth begins a major version, and the  *)
(* fifth does not verify.                                                  *)
(***************************************************************************)
EXTENDS Updater

CONSTANTS u1, u2

Plan(version, allowMajor, after) == [version |-> version, allowMajor |-> allowMajor, after |-> after]

MCPlans == {Plan(Latest, FALSE, "watch"), Plan(Latest, TRUE, "watch"), Plan(3, FALSE, "watch"),
            Plan(3, FALSE, "restart"), Plan(2, FALSE, "nothing")}
==============================================================================
