----------------------------- MODULE MCRouting -----------------------------
(* Two accounts, two sessions and a handful of settings under selection.   *)
EXTENDS Routing, TLC

CONSTANTS a1, a2, s1, s2, opus, fable, r1, r2

MCFamilyOf   == (opus :> "7d") @@ (fable :> "fable")
MCProviderOf == (a1 :> "anthropic") @@ (a2 :> "anthropic")

Limit == [k \in Keys |-> 3]
NoCap == [k \in Keys |-> 1 + 2 * Whole]

Plainly == [order |-> <<a2, a1>>, prio |-> (a1 :> 0) @@ (a2 :> 1), disabled |-> {},
            routes |-> <<>>, threshold |-> Limit, caps |-> [a \in Accounts |-> NoCap],
            distribute |-> FALSE, expiry |-> FALSE, preempt |-> FALSE, tolerance |-> 2,
            soonest |-> FALSE]
Equals == [Plainly EXCEPT !.prio = (a1 :> 0) @@ (a2 :> 0)]

Spreading == [Equals EXCEPT !.distribute = TRUE, !.order = <<a1, a2>>]
Soonest   == [Equals EXCEPT !.soonest = TRUE, !.order = <<a1, a2>>]
Expiring  == [Equals EXCEPT !.expiry = TRUE, !.preempt = TRUE]
Routed    == [Plainly EXCEPT !.routes = <<[name |-> "fables", models |-> {fable},
                                           accounts |-> {a2}, bucket |-> "none"]>>]

\* a2 is gone, and with it the account the route may be pinned to.
Alone     == [Plainly EXCEPT !.order = <<a1>>,
                !.routes = <<[name |-> "fables", models |-> {fable}, accounts |-> {},
                              bucket |-> "none"]>>]

\* Under the other settings no model has a route.
MCPinCalls == {<<Routed, "fables", a2>>, <<Alone, "fables", a1>>}

MCConfigs == {Spreading, Soonest, Expiring, Routed, Alone}

Ask1(s, m, v, p) == [session |-> s, model |-> m, advisor |-> v, pin |-> p,
                     provider |-> "anthropic"]
MCKinds == {Ask1(s1, opus, NoModel, NoAccount), Ask1(s1, fable, NoModel, NoAccount),
            Ask1(s2, opus, fable, a2)}

Silent == [k \in Keys |-> Blank]
Says(k, u, t) == [Silent EXCEPT ![k].util = u, ![k].reset = t]

Early == [Says("7d", 1, 3) EXCEPT !["5h"] = Says("5h", 1, 4)["5h"]]
Late  == [Says("7d", 2, 5) EXCEPT !["fable"] = Says("fable", 3, 5)["fable"]]
MCReplies == {<<"ok", Early>>, <<"ok", Late>>, <<"spent", Late>>}
MCPayloads == {[listed |-> TRUE, of |-> [k \in {"7d"} |-> Says("7d", 1, 6)["7d"]]]}

Symmetry == Permutations(Requests)
=============================================================================
