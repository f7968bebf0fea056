----------------------------- MODULE MCControl -----------------------------
(***************************************************************************)
(* Small instances of Control: one scenario for every group of commands    *)
(* that get in each other's way.                                           *)
(***************************************************************************)
EXTENDS Control

CONSTANTS p1, p2, p3, p4, f1, f2

\* An OAuth entry of user u in organisation o.
Login(name, user, org, id, tok) ==
    [NewAccount(name) EXCEPT !.user = user, !.org = org, !.id = id, !.tok = tok]

Pool(accts, dirs, knob) == [accts |-> accts, dirs |-> dirs, knob |-> knob]

\* Two pools with an account each, all with ids.
Settled == [default |-> 1, old |-> FALSE, log |-> {},
            pools |-> (1 :> Pool(<<Login(<<"u">>, "u", "o1", 1, 1)>>, {}, 0))
                   @@ (2 :> Pool(<<Login(<<"v">>, "v", "o1", 2, 1)>>, {"d2"}, 0))]

\* The same with a second organisation of u, and a Codex account of x.
Teams == [Settled EXCEPT !.pools[1].accts = Append(@, [Login(<<"x">>, "x", Unknown, 4, 1) EXCEPT !.codex = TRUE]),
                         !.pools[2].accts = Append(@, Login(<<"u", "team">>, "u", "o2", 3, 1))]

\* Written by hand, before pools: an account has no id, and two have one id.
ByHand == [Settled EXCEPT !.old = TRUE,
                          !.pools[2].accts = Append(@, [NewAccount(<<"w">>) EXCEPT !.tok = 1]),
                          !.pools[1].accts[1].id = 2]

NoFile == Refused

None == [op |-> "none"]
Four(a, b, c, d) == (p1 :> a) @@ (p2 :> b) @@ (p3 :> c) @@ (p4 :> d) @@ (Daemon :> [op |-> "server"])
Cmds(a, b, c) == Four(a, b, c, None)

\* What the organisations are called: two of them the same.
Team(org) == IF org = "o1" THEN "first" ELSE "team"

LoginAs(user, org, pool) == [op |-> "login", user |-> user, org |-> org, team |-> Team(org), pool |-> pool, name |-> <<>>]
LoginStarts(f) == [op |-> "login/start", flow |-> f]
Submit(f, org) == [op |-> "login/submit", flow |-> f, user |-> "u", org |-> org, team |-> org, pool |-> 2, name |-> <<>>,
                   paste |-> "code"]
Disable(op, pool) == [op |-> op, pool |-> pool, needle |-> <<"v">>, off |-> TRUE]
Set(accts, dirs, makeDefault) == [accts |-> accts, knob |-> 1, dirs |-> dirs, makeDefault |-> makeDefault]
Token == [op |-> "token", id |-> 1]

Scenario(doc, serving, mayEnd, cmds) ==
    [doc |-> doc, cmd |-> cmds, up |-> serving, kills |-> mayEnd, clock |-> 1, lastId |-> 4,
     state |-> IF IsDoc(doc) THEN (NoPool :> {1}) @@ (2 :> {2}) ELSE NoPool :> {}]

MCScenarios ==
    { Scenario(Settled, TRUE, 1, Cmds([op |-> "edit", pool |-> 1, knob |-> 1, new |-> 3],
                                      [op |-> "knob", pool |-> 2, knob |-> 1], Token)),
      Scenario(Settled, TRUE, 0, Cmds(LoginAs("u", "o2", 2), Disable("action", 2), [op |-> "status"])),
      Scenario(Settled, TRUE, 1, Cmds(LoginAs("u", "o1", 2), Token, None)),
      Scenario(Settled, TRUE, 1, Cmds(LoginAs("u", "o1", 1), Token, None)),
      Scenario(ByHand,  FALSE, 0, Cmds(Disable("disable", 2), [op |-> "status"], Disable("action", 2))),
      Scenario(Settled, TRUE, 1, Four(LoginStarts(f1), Submit(f1, "o2"), [Submit(f1, "o3") EXCEPT !.paste = "alien"],
                                      [op |-> "login/cancel", flow |-> f1])),
      Scenario(Settled, TRUE, 0, Four(LoginStarts(f1), LoginStarts(f2), Submit(f1, "o2"), Submit(f2, "o3"))),
      Scenario(NoFile,  FALSE, 0, Cmds(LoginAs("u", "o1", 2), [op |-> "apikey", name |-> <<"k">>, pool |-> NoPool, user |-> Unknown, org |-> Unknown], None)),
      Scenario(Settled, TRUE, 1, Cmds([op |-> "apikey", name |-> <<"u">>, pool |-> NoPool, user |-> Unknown, org |-> Unknown],
                                      Token, None)),
      Scenario(Settled, FALSE, 1, Cmds([op |-> "codex", name |-> <<"c">>, pool |-> 2, user |-> "x", org |-> Unknown,
                                        link |-> FALSE],
                                       None, None)),
      Scenario(Settled, TRUE, 0, Cmds([op |-> "pool add", pool |-> 3, set |-> Set(<<<<"v">>>>, {"d3"}, FALSE)],
                                      [op |-> "status"], [op |-> "pool rm", pool |-> 2, force |-> TRUE])),
      Scenario(Settled, TRUE, 0, Cmds([op |-> "pool set", pool |-> 2, set |-> Set(<<>>, {"d2"}, TRUE)],
                                      [op |-> "status"], [op |-> "create", pool |-> 3, knob |-> 1])),
      Scenario(Settled, TRUE, 0, Cmds([op |-> "acrobat", rows |-> <<[name |-> <<"z">>, user |-> "z", org |-> "o1", tok |-> 1,
                                                                   link |-> FALSE, off |-> FALSE, pool |-> 2]>>],
                                      [op |-> "remove", pool |-> NoPool, needle |-> <<"#", 2>>], None)),
      Scenario(Settled, TRUE, 0, Cmds([op |-> "import", name |-> <<"y">>, user |-> Unknown, org |-> Unknown, team |-> Unknown, pool |-> 1,
                                       link |-> TRUE], Token, None)),
      Scenario(Teams, TRUE, 0, Cmds(LoginAs("u", "o3", 1), LoginAs("x", "o1", 2), None)) }
=============================================================================
