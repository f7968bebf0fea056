------------------------------- MODULE Gateway -------------------------------
(***************************************************************************)
(* The way of a client into the server: `corrall run` or `env` chooses a   *)
(* pool and a pin and writes them into the environment; the client they    *)
(* start dials the server, through a CONNECT whose tunnel the server       *)
(* terminates, or directly; and each of its requests is given to the       *)
(* manager of a pool, while the operator edits the configuration, renames  *)
(* pools, switches accounts and pins routes, and the server restarts.      *)
(*                                                                         *)
(* A behaviour is one scenario: the clients, the operator's edits and the  *)
(* calls of the control plane.  The operator is one process: two reloads   *)
(* at once are in Control.  Which account of a pool serves is in Selection.*)
(***************************************************************************)
EXTENDS Naturals, Sequences, FiniteSets, TLC, SequencesExt

CONSTANTS
    Clients,
    Daemon,        \* The server's own start.
    CodexAccounts, \* The accounts of the provider Codex.
    ByName,        \* The pools in the order of their names.
    Scenarios,     \* The behaviours begin with one of these.
    NoPool, NoAccount

Edits(s) == Range(s.edits)
Docs(s)  == {s.doc} \cup {e.doc : e \in Edits(s)}

\* A scenario is made of configurations that load accepts, and of edits that
\* each write one: it has a default pool, and a pool that is renamed has the
\* new name in it and not the old one.
ASSUME ByNameAssumption == ByName \in Seq(Range(ByName))
ASSUME ScenariosAssumption ==
    \A s \in Scenarios :
       /\ \A d \in Docs(s) : /\ IsFiniteSet(DOMAIN d.pools) /\ NoPool \notin DOMAIN d.pools
                             /\ d.default \in DOMAIN d.pools
       /\ s.edits \in Seq(Edits(s)) /\ s.calls \in Seq(Range(s.calls))
       /\ \A e \in Edits(s) : e.from # NoPool => /\ e.from \notin DOMAIN e.doc.pools
                                                 /\ e.to \in DOMAIN e.doc.pools
       /\ s.wants \in [Clients -> Range(s.wants)]
       /\ s.chain \in {0, 1}
ASSUME DaemonAssumption == Daemon \notin Clients

VARIABLES
    file,      \* The configuration on disk.
    live,      \* The one the handlers see.
    registry,  \* The live pools: the manager of each name, and the default.
    mgr,       \* The managers.
    op,        \* The operator: the edits to come, and the reload under way.
    hand,      \* The control-plane calls to come, and the one under way.
    cache,     \* The chain in the server's TLS configuration.
    cl,        \* The clients.
    left,      \* Bound: faults, restarts and expiries of a leaf to come.
    disk, covers, expired, ens, rift,
    past       \* History: see below.

(***************************************************************************)
(* "past" is what the properties remember:                                 *)
(*   tags    "late": a reload changed the intercepted hosts while the      *)
(*           server was at a chain for the earlier ones, or a CONNECT came *)
(*           between the two ends of a reload; "raced": a route was pinned *)
(*           to an account a reload had removed meanwhile.                 *)
(*   broken  the clients that were refused by TLS although the chain they  *)
(*           trust is the last one, and the leaf they saw had not expired. *)
(*   astray  the clients served from another pool than they were launched  *)
(*           for, or by another account than their pin.                    *)
(***************************************************************************)

Cli(c) == <<"cli", c>>
Srv(c) == <<"srv", c>>
TestHost == "test"
Commands == {Cli(c) : c \in Clients}
Handlers == {Srv(c) : c \in Clients \cup {Daemon}}
Ch == INSTANCE Chain

chain == <<disk, covers, expired, ens, rift>>
pools == <<registry, mgr>>
vars  == <<file, live, registry, mgr, op, hand, cache, cl, left, chain, past>>

Tag(tags) == [past EXCEPT !.tags = @ \cup tags]

----------------------------------------------------------------------------
(* Pools. *)

NewManager(accts) == [accts |-> accts, current |-> NoAccount, pin |-> NoAccount]

\* Mutant: the pins are left alone.
SyncAccountsOnly(m, accts) == [m EXCEPT !.accts = accts]

\* Manager::sync_config: the cursor and the route pins follow the accounts.
SyncManager(m, accts) ==
    [accts   |-> accts,
     current |-> IF m.current \in accts THEN m.current ELSE NoAccount,
     pin     |-> IF m.pin \in accts THEN m.pin ELSE NoAccount]

\* Pools::sync_config: a survivor keeps its manager.
Fresh(reg, doc)  == SetToSeq(DOMAIN doc.pools \ DOMAIN reg.map)
Synced(reg, doc, next) ==
    [default |-> doc.default,
     map     |-> [p \in DOMAIN doc.pools |->
                     IF p \in DOMAIN reg.map THEN reg.map[p]
                     ELSE next + CHOOSE i \in DOMAIN Fresh(reg, doc) : Fresh(reg, doc)[i] = p]]
SyncedManagers(reg, doc, ms) ==
    [i \in DOMAIN ms |-> IF \E p \in DOMAIN reg.map \cap DOMAIN doc.pools : reg.map[p] = i
                         THEN SyncManager(ms[i], doc.pools[CHOOSE p \in DOMAIN reg.map : reg.map[p] = i])
                         ELSE ms[i]]
    \o [i \in DOMAIN Fresh(reg, doc) |-> NewManager(doc.pools[Fresh(reg, doc)[i]])]

NoManagers == [default |-> NoPool, map |-> <<>>]

\* At the start every pool that has accounts chooses one.
Booted(ms) ==
    LET all == UNION {ms[i].accts : i \in DOMAIN ms} \cup {NoAccount}
    IN  {[i \in DOMAIN ms |-> [ms[i] EXCEPT !.current = first[i]]] :
            first \in {f \in [DOMAIN ms -> all] :
                          \A i \in DOMAIN ms : IF ms[i].accts = {} THEN f[i] = NoAccount ELSE f[i] \in ms[i].accts}}

\* Pools::resolve_request: an unknown name, or none, is the default pool.
Resolved(pool) == IF pool \in DOMAIN registry.map THEN pool ELSE registry.default
ManagerOf(pool) == registry.map[Resolved(pool)]

\* Mutant: the default keeps its old name.
RenamedMap(reg, from, to) ==
    IF to \in DOMAIN reg.map \/ from \notin DOMAIN reg.map THEN reg
    ELSE [reg EXCEPT !.map = [p \in (DOMAIN reg.map \ {from}) \cup {to} |-> reg.map[IF p = to THEN from ELSE p]]]

\* Pools::rename_pool.
Renamed(reg, from, to) ==
    IF to \in DOMAIN reg.map \/ from \notin DOMAIN reg.map THEN reg
    ELSE [default |-> IF reg.default = from THEN to ELSE reg.default,
          map     |-> [p \in (DOMAIN reg.map \ {from}) \cup {to} |-> reg.map[IF p = to THEN from ELSE p]]]

----------------------------------------------------------------------------
(* The operator. *)

\* What an edit makes of the launches so far: the pool of a client may have
\* another name, or be gone, or not be the default any more.
Moves(old, new) == DOMAIN old.pools # DOMAIN new.pools \/ old.default # new.default

Edit ==
    /\ op.at = "idle" /\ op.todo # <<>>
    /\ file' = Head(op.todo).doc
    /\ op' = [op EXCEPT !.at = IF Head(op.todo).from = NoPool THEN "sync" ELSE "rekey"]
    /\ cl' = [c \in Clients |-> [cl[c] EXCEPT !.moved = @ \/ Moves(file, file')]]
    /\ UNCHANGED <<live, pools, hand, cache, left, chain, past>>

Rekey ==
    /\ op.at = "rekey"
    /\ registry' = Renamed(registry, Head(op.todo).from, Head(op.todo).to)
    /\ op' = [op EXCEPT !.at = "sync"]
    /\ UNCHANGED <<file, live, mgr, hand, cache, cl, left, chain, past>>

\* The reload, from the load of the file to the end of sync_config.
SyncPools ==
    /\ op.at = "sync"
    /\ registry' = Synced(registry, file, Len(mgr))
    /\ mgr' = SyncedManagers(registry, file, mgr)
    /\ op' = [op EXCEPT !.at = "publish"]
    /\ UNCHANGED <<file, live, hand, cache, cl, left, chain, past>>

\* Ctx::intercept_hosts.
InterceptHosts(doc) ==
    {"anthropic"} \cup (IF \E p \in DOMAIN doc.pools : doc.pools[p] \cap CodexAccounts # {} THEN {"codex"} ELSE {})

\* A call of ensure_certs that was made for other hosts than doc has.
Outdated(t, doc) == ens[t].at # "idle" /\ ens[t].hosts # InterceptHosts(doc) \cup {TestHost}

Publish ==
    /\ op.at = "publish"
    /\ live' = file
    /\ op' = [op EXCEPT !.at = "drop"]
    /\ past' = IF \E t \in Handlers : Outdated(t, file) THEN Tag({"late"}) ELSE past
    /\ UNCHANGED <<file, pools, hand, cache, cl, left, chain>>

\* Mutant: the chain stays.
KeepChain ==
    /\ op.at = "drop"
    /\ op' = [op EXCEPT !.at = "idle", !.todo = Tail(@)]
    /\ UNCHANGED <<file, live, pools, hand, cache, cl, left, chain, past>>

\* The chain is made again for the hosts of the new configuration.
DropChain ==
    /\ op.at = "drop"
    /\ cache' = Ch!Missing
    /\ op' = [op EXCEPT !.at = "idle", !.todo = Tail(@)]
    /\ UNCHANGED <<file, live, pools, hand, cl, left, chain, past>>

----------------------------------------------------------------------------
(* The control plane: an account is looked up, then set, in two critical   *)
(* sections.                                                               *)

\* Manager::resolve_pin: whether a manager knows an account.
ResolvePin(m, a) == a \in mgr[m].accts

\* Pools::find_account searches every pool, resolve_pin the one asked for.
Holding(pool, a) ==
    {registry.map[p] : p \in {q \in IF pool = NoPool THEN DOMAIN registry.map ELSE {Resolved(pool)} :
                                 ResolvePin(registry.map[q], a)}}

\* Routes are a pool's: without a name a route pin is for the default one.
CallPool(call) == IF call.op = "route-pin" THEN Resolved(call.pool) ELSE call.pool

LookUp ==
    /\ hand.at = "idle" /\ hand.todo # <<>>
    /\ LET call == Head(hand.todo)
           found == Holding(CallPool(call), call.acct)
       IN  hand' = IF found = {} THEN [hand EXCEPT !.todo = Tail(@)]
                   ELSE [hand EXCEPT !.at = call.op, !.mgr = CHOOSE m \in found : TRUE]
    /\ UNCHANGED <<file, live, pools, op, cache, cl, left, chain, past>>

Handled == [hand EXCEPT !.at = "idle", !.todo = Tail(@)]

\* switch_to looks again.
SwitchTo ==
    LET a == Head(hand.todo).acct IN
    /\ hand.at = "switch"
    /\ mgr' = IF ResolvePin(hand.mgr, a) THEN [mgr EXCEPT ![hand.mgr].current = a] ELSE mgr
    /\ hand' = Handled
    /\ UNCHANGED <<file, live, registry, op, cache, cl, left, chain, past>>

\* set_route_pin does not.
SetRoutePin ==
    LET a == Head(hand.todo).acct IN
    /\ hand.at = "route-pin"
    /\ mgr' = [mgr EXCEPT ![hand.mgr].pin = a]
    /\ hand' = Handled
    /\ past' = IF ResolvePin(hand.mgr, a) THEN past ELSE Tag({"raced"})
    /\ UNCHANGED <<file, live, registry, op, cache, cl, left, chain>>

----------------------------------------------------------------------------
(* Launching. *)

Want(c) == cl[c].want

\* pool_match::resolve: the first pool by name, the default one apart, whose
\* rules match the directory, its remote or the environment.
RuledPool(doc, dir) ==
    LET ruled == {i \in DOMAIN ByName : /\ ByName[i] \in DOMAIN doc.pools \ {doc.default}
                                        /\ dir \in doc.rules[ByName[i]]}
    IN  IF ruled = {} THEN NoPool ELSE ByName[Min(ruled)]

\* launch_target: --pool or TC_POOL, else the rules, else no name.
Flag(doc, w) == IF w.flag # NoPool THEN w.flag ELSE RuledPool(doc, w.dir)

\* env_lines_with: the pool is named unless it is the default one.
EnvPool(doc, flag) == IF flag = doc.default THEN NoPool ELSE flag

\* launch_target: the pool must exist and the pin be in it.
Launchable(doc, w) ==
    /\ w.flag \in DOMAIN doc.pools \cup {NoPool}
    /\ w.pin # NoAccount => w.pin \in doc.pools[IF Flag(doc, w) = NoPool THEN doc.default ELSE Flag(doc, w)]

Launch(c) ==
    /\ cl[c].pc = "start"
    /\ Launchable(file, Want(c))
    /\ cl' = [cl EXCEPT ![c].pc = IF Want(c).mitm THEN "ensure" ELSE "ready",
                        ![c].env = EnvPool(file, Flag(file, Want(c))),
                        ![c].due = IF Flag(file, Want(c)) = NoPool THEN file.default ELSE Flag(file, Want(c)),
                        ![c].moved = op.at # "idle"]
    /\ ens' = IF Want(c).mitm THEN [ens EXCEPT ![Cli(c)] = Ch!Asking({"anthropic"})] ELSE ens
    /\ UNCHANGED <<file, live, pools, op, hand, cache, left, disk, covers, expired, rift, past>>

\* The client starts and reads the CA its environment names.
Trust(c) ==
    /\ cl[c].pc = "ensure" /\ Ch!Ended(Cli(c))
    /\ cl' = [cl EXCEPT ![c].pc = IF ens[Cli(c)].at = "done" THEN "ready" ELSE "failed", ![c].ca = disk.ca]
    /\ UNCHANGED <<file, live, pools, op, hand, cache, left, chain, past>>

----------------------------------------------------------------------------
(* CONNECT. *)

\* host_mode, for a server that allows no blind tunnels.
HostMode(host) == CASE host = TestHost                   -> "test"
                    [] host \in InterceptHosts(live)     -> "intercept"
                    [] host = "session"                  -> "tunnel"
                    [] OTHER                             -> "refuse"

\* What becomes of a CONNECT that is not terminated here.
Pass(c) ==
    /\ cl[c].pc = "ready" /\ Want(c).mitm
    /\ HostMode(Want(c).host) \in {"tunnel", "refuse"}
    /\ cl' = [cl EXCEPT ![c].pc = IF HostMode(Want(c).host) = "tunnel" THEN "tunnelled" ELSE "failed"]
    /\ UNCHANGED <<file, live, pools, op, hand, cache, left, chain, past>>

\* The pin of an intercepted host must be known to the pool.
Admits(c) == \/ HostMode(Want(c).host) = "test"
             \/ Want(c).pin = NoAccount
             \/ ResolvePin(ManagerOf(cl[c].env), Want(c).pin)

\* Mutant: the tunnel forgets the pool.
TunnelPoolLost(c) == NoPool

\* The tunnel keeps the name the CONNECT was resolved to.
TunnelPool(c) == IF HostMode(Want(c).host) = "test" THEN NoPool ELSE Resolved(cl[c].env)

\* handle_connect up to the TLS configuration, which is cached or, without a
\* lock, read from disk or generated.
Connect(c) ==
    /\ cl[c].pc = "ready" /\ Want(c).mitm
    /\ HostMode(Want(c).host) \in {"intercept", "test"}
    /\ IF ~Admits(c) THEN cl' = [cl EXCEPT ![c].pc = "failed"] /\ UNCHANGED ens
       ELSE /\ cl' = [cl EXCEPT ![c].tunnel = TunnelPool(c), ![c].chain = cache,
                                ![c].pc = IF cache = Ch!Missing THEN "mint" ELSE "shake"]
            /\ ens' = IF cache # Ch!Missing THEN ens
                      ELSE [ens EXCEPT ![Srv(c)] = Ch!Asking(InterceptHosts(live))]
    /\ past' = IF op.at = "drop" THEN Tag({"late"}) ELSE past
    /\ UNCHANGED <<file, live, pools, op, hand, cache, left, disk, covers, expired, rift>>

\* Ctx::tls_config once ensure_certs has returned: a key that is not the leaf's
\* is an error, answered with a 502.
Minted(t) ==
    /\ Ch!Ended(t)
    /\ ens' = [ens EXCEPT ![t] = Ch!Idle]
    /\ IF ens[t].at = "done" /\ ens[t].got.key = ens[t].got.leaf
       THEN cache' = ens[t].got.leaf ELSE UNCHANGED cache
    /\ UNCHANGED <<file, live, pools, op, hand, left, disk, covers, expired, rift, past>>

\* The call of a CONNECT, and the one at the server's start.
Mint(c) ==
    /\ cl[c].pc = "mint"
    /\ Minted(Srv(c))
    /\ cl' = IF ens[Srv(c)].at = "done" /\ ens[Srv(c)].got.key = ens[Srv(c)].got.leaf
             THEN [cl EXCEPT ![c].pc = "shake", ![c].chain = ens[Srv(c)].got.leaf]
             ELSE [cl EXCEPT ![c].pc = "refused"]
PreMint ==
    /\ Minted(Srv(Daemon))
    /\ UNCHANGED cl

\* A CONNECT answered with a 502 breaks the client.
Refused(c) ==
    /\ cl[c].pc = "refused"
    /\ cl' = [cl EXCEPT ![c].pc = "failed"]
    /\ past' = [past EXCEPT !.broken = @ \cup {c}]
    /\ UNCHANGED <<file, live, pools, op, hand, cache, left, chain>>

\* The handshake: the client must trust the CA of the chain, and the leaf name
\* the host and be valid.  A chain that is newer than the client is no surprise,
\* and an expired one is a case of its own.
Shake(c) ==
    LET valid   == cl[c].chain \notin expired
        trusted == cl[c].chain = cl[c].ca /\ valid /\ Want(c).host \in covers[cl[c].chain]
        newer   == cl[c].chain > cl[c].ca
    IN  /\ cl[c].pc = "shake"
        /\ cl' = [cl EXCEPT ![c].pc = IF trusted THEN "open" ELSE "failed"]
        /\ past' = IF trusted \/ newer \/ ~valid THEN past ELSE [past EXCEPT !.broken = @ \cup {c}]
        /\ UNCHANGED <<file, live, pools, op, hand, cache, left, chain>>

----------------------------------------------------------------------------
(* Requests. *)

\* What the path, or else the tunnel, asks for.
AskedPool(c) == IF Want(c).mitm THEN cl[c].tunnel ELSE cl[c].env

\* handle: a request of the client's own session is relayed as it is; for any
\* other the manager is taken before the body is awaited.
Arrive(c) ==
    /\ \/ cl[c].pc = "open" /\ Want(c).host # TestHost
       \/ cl[c].pc = "ready" /\ ~Want(c).mitm
    /\ cl[c].asks > 0
    /\ cl' = [cl EXCEPT ![c].asks = @ - 1,
                        ![c].pc = IF Want(c).own THEN @ ELSE "body",
                        ![c].mgr = IF Want(c).own THEN @ ELSE ManagerOf(AskedPool(c))]
    /\ UNCHANGED <<file, live, pools, op, hand, cache, left, chain, past>>

OfProvider(c, accts) == {a \in accts : a \in CodexAccounts <=> Want(c).host = "codex"}

\* The accounts the manager may choose from: the pin, an operator's pin or
\* cursor when it serves the provider, else any.
Candidates(c, m) ==
    LET able == OfProvider(c, m.accts)
    IN  IF Want(c).pin # NoAccount THEN able \cap {Want(c).pin}
        ELSE IF m.pin \in able THEN {m.pin}
        ELSE IF m.current \in able THEN {m.current} ELSE able

\* What the launch asked for, where the registry has it.
Due(c) == IF cl[c].due \notin DOMAIN registry.map THEN {}
          ELSE LET accts == mgr[registry.map[cl[c].due]].accts
               IN  IF Want(c).pin # NoAccount THEN accts \cap {Want(c).pin} ELSE accts

Next1(c) == IF Want(c).mitm THEN "open" ELSE "ready"

\* The body is in; select answers, or nothing serves the request.
Serve(c) ==
    LET m == mgr[cl[c].mgr] IN
    /\ cl[c].pc = "body"
    /\ cl' = [cl EXCEPT ![c].pc = Next1(c)]
    /\ \/ /\ Candidates(c, m) = {}
          /\ UNCHANGED <<mgr, past>>
       \/ \E a \in Candidates(c, m) :
             /\ mgr' = [mgr EXCEPT ![cl[c].mgr].current = IF Want(c).pin # NoAccount \/ m.pin = a THEN @ ELSE a]
             /\ past' = IF cl[c].moved \/ a \in Due(c) THEN past ELSE [past EXCEPT !.astray = @ \cup {c}]
    /\ UNCHANGED <<file, live, registry, op, hand, cache, left, chain>>

----------------------------------------------------------------------------
(* Faults. *)

\* A command is killed, or a write of the server fails.
Fault(t) ==
    /\ left.faults > 0
    /\ Ch!Cut(t)
    /\ left' = [left EXCEPT !.faults = @ - 1]
    /\ UNCHANGED <<file, live, pools, op, hand, cache, cl, past>>

\* Time goes by, and a leaf runs out.
Expiry ==
    /\ left.expiries > 0
    /\ Ch!Expire
    /\ left' = [left EXCEPT !.expiries = @ - 1]
    /\ UNCHANGED <<file, live, pools, op, hand, cache, cl, past>>

\* The server stops and starts again: connections end, the pools are built
\* from the file and the chain is looked at before the first CONNECT.
Restart ==
    /\ left.restarts > 0
    /\ left' = [left EXCEPT !.restarts = @ - 1]
    /\ live' = file
    /\ registry' = Synced(NoManagers, file, 0)
    /\ mgr' \in Booted(SyncedManagers(NoManagers, file, <<>>))
    /\ op' = IF op.at = "idle" THEN op ELSE [op EXCEPT !.at = "idle", !.todo = Tail(@)]
    /\ hand' = IF hand.at = "idle" THEN hand ELSE Handled
    /\ cache' = Ch!Missing
    /\ cl' = [c \in Clients |-> IF cl[c].pc \notin {"mint", "shake", "open", "body", "refused"} THEN cl[c]
                                ELSE [cl[c] EXCEPT !.pc = "ready", !.mgr = 0, !.chain = Ch!Missing]]
    /\ ens' = [t \in Ch!Tasks |-> IF t = Srv(Daemon) THEN Ch!Asking(InterceptHosts(file))
                                  ELSE IF t \in Handlers THEN Ch!Idle ELSE ens[t]]
    /\ rift' = IF \E t \in Handlers : ens[t].at = "write" THEN rift \cup {"cut"} ELSE rift
    /\ UNCHANGED <<file, disk, covers, expired, past>>

----------------------------------------------------------------------------
EnsureStep(t) == (Ch!Read(t) \/ Ch!Write(t) \/ Ch!Clash(t))
                 /\ UNCHANGED <<file, live, pools, op, hand, cache, cl, left, past>>

ClientStep(c) == \/ Launch(c) \/ Trust(c) \/ Pass(c) \/ Connect(c) \/ Mint(c) \/ Refused(c) \/ Shake(c)
                 \/ Arrive(c) \/ Serve(c)

Next == \/ \E c \in Clients : ClientStep(c)
        \/ \E t \in Ch!Tasks : EnsureStep(t) \/ Fault(t)
        \/ Edit \/ Rekey \/ SyncPools \/ Publish \/ DropChain
        \/ LookUp \/ SwitchTo \/ SetRoutePin
        \/ PreMint \/ Expiry \/ Restart

Client(w) == [pc |-> "start", want |-> w, env |-> NoPool, due |-> NoPool, moved |-> FALSE, ca |-> Ch!Missing,
              chain |-> Ch!Missing, tunnel |-> NoPool, mgr |-> 0, asks |-> w.asks]

Init == \E s \in Scenarios :
    /\ file = s.doc /\ live = s.doc
    /\ registry = Synced(NoManagers, s.doc, 0)
    /\ mgr \in Booted(SyncedManagers(NoManagers, s.doc, <<>>))
    /\ op = [at |-> "idle", todo |-> s.edits]
    /\ hand = [at |-> "idle", todo |-> s.calls, mgr |-> 0]
    /\ cache = Ch!Missing
    /\ cl = [c \in Clients |-> Client(s.wants[c])]
    /\ left = [faults |-> s.faults, restarts |-> s.restarts, expiries |-> s.expiries]
    /\ disk = Ch!All3(s.chain)
    /\ covers = IF s.chain = Ch!Missing THEN <<>> ELSE <<{"anthropic", TestHost}>>
    /\ expired = {}
    /\ ens = [t \in Ch!Tasks |-> IF t = Srv(Daemon) THEN Ch!Asking(InterceptHosts(s.doc)) ELSE Ch!Idle]
    /\ rift = {}
    /\ past = [tags |-> {}, broken |-> {}, astray |-> {}]

Spec == Init /\ [][Next]_vars

----------------------------------------------------------------------------
(* Properties. *)

TypeOK ==
    /\ registry.default \in DOMAIN registry.map
    /\ \A p \in DOMAIN registry.map : registry.map[p] \in DOMAIN mgr
    /\ \A p, q \in DOMAIN registry.map : registry.map[p] = registry.map[q] => p = q
    /\ cache \in {Ch!Missing} \cup DOMAIN covers
    /\ \A f \in {"ca", "leaf", "key"} : disk[f] \in {Ch!Missing, Ch!Torn} \cup DOMAIN covers
    /\ \A c \in Clients : /\ cl[c].pc \in {"start", "ensure", "ready", "mint", "shake", "open", "body", "refused",
                                           "tunnelled", "failed"}
                          /\ cl[c].pc = "body" => cl[c].mgr \in DOMAIN mgr

\* A client launched while no edit is under way is served by the accounts of the
\* pool it was launched for, and pinned to one by that account alone: through the environment that names no
\* pool when it is the default one, the CONNECT that turns a name into the name
\* of a live pool and the tunnel that keeps it, whatever edits move accounts
\* and managers meanwhile - until pools come, go or are renamed or another one
\* is the default (cli.rs:1662-1777, server.rs:337-417, 991-1031).
LaunchIsHonoured == past.astray = {}

\* The cursor and the operator's pin of a live pool name accounts of it, unless
\* a pin was set while a reload took the account away (manager.rs:650-660,
\* server.rs:641-667).
PinsAreConfigured ==
    "raced" \notin past.tags =>
        \A p \in DOMAIN registry.map :
            LET m == mgr[registry.map[p]] IN {m.current, m.pin} \subseteq m.accts \cup {NoAccount}

\* A client that trusts the last chain is never refused by TLS: what commands
\* and server generate, read, cache and drop stays one chain that covers every
\* intercepted host - unless two of them wrote at a time, a write was cut short
\* or a reload came between the choice of the hosts and the caching.  A client
\* that is shown an expired leaf does not count: a server never looks at the
\* chain it has cached again (mitm.rs:33-123, server.rs:242-250,
\* main.rs:154-159).
ChainWorks == past.broken # {} => rift # {} \/ "late" \in past.tags
=============================================================================
