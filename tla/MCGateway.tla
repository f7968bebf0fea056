------------------------------ MODULE MCGateway ------------------------------
(***************************************************************************)
(* Small instances of Gateway.                                             *)
(***************************************************************************)
EXTENDS Gateway

CONSTANTS c1, c2, a1, a2, x, main, side, work

Doc(default, pls) == [default |-> default, pools |-> pls, rules |-> [p \in DOMAIN pls |-> {}]]
Base  == Doc(main, (main :> {a1}) @@ (side :> {a2}))
Codex == Doc(main, (main :> {a1, x}) @@ (side :> {a2}))
Swap  == Doc(main, (main :> {a2}) @@ (side :> {a1}))
Bare  == Doc(main, (main :> {a1}) @@ (side :> {}))
Named == Doc(work, (work :> {a1}) @@ (side :> {a2}))
Other == Doc(side, (main :> {a1}) @@ (side :> {a2}))
Ruled == [Base EXCEPT !.rules[side] = {"project"}]
Lone  == Doc(main, main :> {a1, a2})

To(doc)               == [doc |-> doc, from |-> NoPool, to |-> NoPool]
Rename(doc, from, to) == [doc |-> doc, from |-> from, to |-> to]

Tunnel(host, flag, pin) == [mitm |-> TRUE, host |-> host, flag |-> flag, dir |-> "home", pin |-> pin, own |-> FALSE, asks |-> 2]
Direct(flag, pin)       == [Tunnel("anthropic", flag, pin) EXCEPT !.mitm = FALSE]
Once(want)              == [want EXCEPT !.asks = 1]
In(dir, want)           == [want EXCEPT !.dir = dir]
Own(want)               == [want EXCEPT !.own = TRUE]
Call(name, pool, acct)  == [op |-> name, pool |-> pool, acct |-> acct]

Scenario(doc, chn, w1, w2, edits, calls, faults, restarts, expiries) ==
    [doc |-> doc, chain |-> chn, wants |-> (c1 :> w1) @@ (c2 :> w2), edits |-> edits, calls |-> calls,
     faults |-> faults, restarts |-> restarts, expiries |-> expiries]

MCByName == <<main, side, work>>

MCScenarios ==
    { Scenario(Base, 0, Once(Tunnel("anthropic", side, NoAccount)), Own(Direct(NoPool, NoAccount)), <<>>, <<>>, 1, 1, 0),
      Scenario(Base, 1, Once(Tunnel("codex", NoPool, NoAccount)), Direct(NoPool, NoAccount), <<To(Codex)>>, <<>>, 0, 1, 0),
      Scenario(Ruled, 1, In("project", Tunnel("anthropic", NoPool, NoAccount)), Direct(side, NoAccount),
               <<To(Swap), To(Other)>>,
               <<Call("switch", NoPool, a1)>>, 0, 0, 0),
      Scenario(Base, 1, Tunnel("anthropic", side, NoAccount), Direct(main, a1), <<Rename(Named, main, work)>>,
               <<Call("route-pin", side, a2)>>, 0, 1, 0),
      Scenario(Base, 1, Direct(side, a2), Own(Direct(side, NoAccount)), <<To(Bare), To(Lone)>>,
               <<Call("route-pin", side, a2), Call("switch", side, a2)>>, 0, 0, 0),
      Scenario(Codex, 1, Once(Tunnel("anthropic", NoPool, NoAccount)), Own(Direct(side, NoAccount)), <<To(Base)>>, <<>>, 0, 0, 0),
      Scenario(Base, 1, Tunnel("session", NoPool, NoAccount), Tunnel(TestHost, side, NoAccount), <<To(Swap)>>, <<>>, 0, 0, 0),
      Scenario(Base, 1, Once(Tunnel("anthropic", NoPool, NoAccount)), Own(Direct(NoPool, NoAccount)), <<To(Swap)>>, <<>>, 0, 1, 1) }
=============================================================================
