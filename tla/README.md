# Corrall in TLA+

A verification project for Corrall (`src/`), a Rust proxy that stands between
Claude Code or Codex clients and the upstream APIs and spreads their requests
over the accounts of one or more pools: TLA+ models of its concurrent core, TLC
configurations that check them on small instances, and theorems that TLAPS
proves for every value of the constants.

Line numbers below are of `src/src/...`; `PROJECT.json` maps every modelling
definition to the lines it stands for, every property to a mutant of the model
that breaks it, and lists the hazards of the code at the lines where they bite.

## 1. Inventory

The server is one process on a multi-threaded tokio runtime. A pool's state (its
*fleet*) is behind one lock that is only held for short synchronous critical
sections (`Manager::with`); handlers are futures that are dropped when their
client hangs up, at whatever `await` they are suspended; guards (`Slot`, `Open`,
mutex guards) run their `Drop` then. Detached tasks (`spawn_blocking`, `spawn`)
survive. A config file, rewritten whole under an in-process mutex and a file
lock, is shared with the CLI. A state file holds observations that may be lost.

| Component | State | Operations | Talks to |
|---|---|---|---|
| **Token refresh** `manager.rs:820-938`, `oauth.rs`, `codex.rs` | per account: access and refresh token, expiries, status, `dead_refresh_token`, `last_refresh_at`, a refresh lock | `ensure_token_fresh` (plain, forced), persist, `sync_config`, `mark_error`, `reread_linked`, `recheck_linked` | token endpoint, config file, handlers, prober |
| **Request forwarding** `proxy/forward.rs` | per request: tried accounts, attempts, retries, hops, hold deadline; per account: hold, quota hold, entitlement cooldown, headerless 429 | the loop, `attempt`, the effect of each class of answer | selection, admission, token refresh, upstreams |
| **Admission** `manager.rs:771-815, 1793-1826, 2059-2083` | per account: `in_flight`, `open`, `ramp_started_at`; the pool's storm ramp and cursor | `admit`, `open`, guard drops, `set_current`, `ramp_if_cold`, `switch_to` | handlers, selection, reload |
| **Selection** `manager.rs:1440-2057`, `quota.rs` | cursor, route pins, thresholds, caps, quota buckets, rollover baselines | `select` (pin, route pin, seat, spread, requalify, cursor, divert, best, revalidate), readings, `exhausted_info` | sessions, quota readings |
| **Sessions** `session.rs` | up to 10 000 sessions: pins per bucket, `in_flight`, times | begin, end, touch, sweep, evict, remap | server, selection |
| **Quota prober** `prober.rs` | due times per account, back-off, run lock, manual gap, recheck list | tick, claim, run, back off, manual request | managers, usage endpoint |
| **Keep-warm** `warmer.rs` | none but whether it was on | one loop | forwarding |
| **Config store** `config.rs`, `security.rs` | the file, a mutex, a lock file, a temporary file | `load_from` (migrates and rewrites), `update`, `save` | everything |
| **Pools** `pools.rs`, `main.rs` | name to manager, default, state file | sync, rename, resolve, export, restore | control plane, reload |
| **Control plane** `proxy/server.rs` | pending login flows, live configuration | account, pool, switch, route-pin, login and probe endpoints, reload | config store, pools, prober |
| **Launch and intake** `cli.rs:1656-1823`, `pool_match.rs`, `server.rs:299-531, 991-1108` | the environment of a client; the tunnel's pool and pin | `run`, `env`, CONNECT, `handle` | certificates, pools |
| **MITM certificates** `proxy/mitm.rs` | `ca.pem`, `leaf.pem`, `leaf.key`, the cached chain | `ensure_certs`, `tls_config` | commands and server |
| **Updater** `update.rs` | the binary, `<binary>.prev`, the systemd unit | download, verify, back up, replace, restart, watch, roll back | the OS |
| CLI, migration, dashboards, relay, auth, request log, plugin | see `PROJECT.json` | | |

What makes each hard, and what makes it correct:

* **Token refresh.** Refresh tokens rotate: presenting one that was already
  exchanged loses the login. Handlers and probes race; the answer to a rotation can be lost,
  its handler dropped or the server killed before the new pair is on disk; a
  reload syncs a copy of the file that may be older than memory; `corrall login`
  writes another pair meanwhile. Correct: one refresh at a time; no token whose
  successor was received is presented again; the file catches up; only a live
  request takes a usable account out; every caller is answered.
* **Forwarding.** A dozen classes of answers, each with its own mark on the
  account and its own way on; four bounds that interact (attempts, retries, hops, hold);
  other requests change the accounts in between. Correct: what may be billed is
  not sent again; a working account is found; every request ends.
* **Admission.** Counts kept by guards against an account list that reloads
  replace; ramps begun from four places. Correct: counts match the requests, the
  ramp paces, nobody waits forever.
* **Selection and sessions.** Nine paths over readings that answers, probes and
  time change under them; `in_flight` is lowered by a call, not a guard. Correct:
  no path passes a better priority or an earlier band, a session stays where it
  was served while it may, counts are those of the requests that run.
* **Prober.** Two kinds of runs on one lock; due times booked before the lock is
  held; a list of changed credentials emptied before the decision. Correct: nobody is forgotten or
  probed in a burst, a fresh login is probed, a back-off is obeyed, runs do not overlap.
* **Config store, pools, control plane.** A dozen writers, one of which rewrites
  without the lock; a temporary file named by process; reloads that overtake each other; a rename in two steps.
  Correct: no edit undoes another, the file is whole, the server serves what it says, no login or reading is lost.
* **Launch, intake, certificates.** The pool travels through an environment
  variable, a CONNECT and a tunnel while pools change; three files make one
  chain, written by several processes. Correct: a client gets the pool and the
  account it was launched for, and is not refused by TLS.
* **Updater.** Killed anywhere, twice at a time, on a unit that systemd restarts
  as well. Correct: there is always a binary to run; what is put back is what was
  there; the service comes back.

## 2. Modules

| Module | Role |
|---|---|
| `TokenRefresh` | one account's pair between memory, config file and provider |
| `TokenRefresh_proofs` | types, one refresh at a time, no replay, the file keeps up, probes take nobody out |
| `OneAnswer` | abstract: a request that left is not sent again until its upstream says it did not run it |
| `Forward` | the request loop on a pool; refines `OneAnswer` |
| `Forward_proofs` | types, the refinement, a working account is found |
| `Admission` | storm ramps and the counts of requests on accounts |
| `Admission_proofs` | types, the counts, the pace of a ramp |
| `Quota`, `Sessions` | operators: readings of an account; the session tracker |
| `Selection` | operators on `Quota` and `Sessions`: `Fleet::select` and its rankings |
| `Routing` | composes the three with requests, answers, probes, reloads and time |
| `Routing_proofs` | the counts of the tracker, types, priorities, bands, sessions that stay |
| `ConfigDoc` | operators: what loads and commands make of the document |
| `PoolsRegistry` | operators: the live pools, their state file, reload and rename |
| `Control` | composes the two with commands, handlers, the server's life and the file |
| `Control_proofs` | the file is whole, edits are kept, a login is exchanged once, types, homes |
| `Prober` | the probe loop, manual runs, schedule, reloads |
| `Prober_proofs` | types, turns of the runs, back-off, nobody forgotten, fresh logins, the spread of turns |
| `Chain` | `ensure_certs` by several tasks on three files |
| `Gateway` | composes `Chain` with launches, CONNECT, requests, edits and restarts |
| `Gateway_proofs` | types, launches honoured, pins configured, the chain of certificates |
| `Updater`, `Updater_proofs` | `corrall update`; that a binary is always there and a rollback restores the right one |
| `MC...` | an instance of each for TLC |

### TokenRefresh

One account: accounts share only the file, whose entries `Config::update`
rewrites one at a time. A *pair* is a number in the order of granting; the
provider gives every access token the same lifetime, so `expires_at` is ordered
like the pairs and the two predicates on it are watermarks (`expiringTo`,
`expiredTo`). A caller is a record whose `pc` names the place in
`ensure_token_fresh` (or after it) where it stands: `check` (before the first
critical section), `wait` (for the refresh lock), `net` (token endpoint),
`granted` (answer at hand), `persist` (awaiting the write), `return`, `send`.
A handler is dropped by `Cancel` wherever the code awaits; a pending write
(`writers`) survives it. Abstractions:

* critical sections with nothing in between are one step (the check that finds no
  need and the read of the credential; the check after the lock and the read of
  the token);
* the provider's answers are nondeterministic; `Rejected` may also come for a
  live token (a 429 is a rejection in the code);
* `Settled`: the two clocks do not move between an answer and its write. Only
  `FileKeepsUp` depends on it (a write takes milliseconds, the floor and the
  lifetime minutes and hours);
* a write that fails, or finds no entry of its account, is only logged (`PersistFails`,
  `manager.rs:909-922`): the file stays as it is, no write is pending, and `unwritten`
  remembers the pair;
* linked accounts (credentials read from another program's file) are left out.

### Forward

A request is a record (`pc`: `select`, `fresh`, `admit`, `wire`, `out`,
`judge`, `forced`, `sleep`), an account a record of what answers do to it. `Select` is
`Fleet::select` with its ranking removed: any available account may be chosen,
in their absence one at the threshold to revalidate, in its absence the
exhausted answer or a turn of the hold. `Headers` applies the quota headers and
`clear_rate_limited`; the action named for the class of the answer does the rest.
Time is in ticks of about 15 s. `taken` is a history flag, set when the request leaves
(`Leaves`, before anything is known of its fate) and withdrawn by an answer other than a 2xx or the
client's own 4xx, which the code takes for the upstream's word that it did not run it. Sessions, usage accounting, the bytes
of the body and model routes are left out; a route or a cap narrows the set of accounts
as a smaller pool would. `Pool` and `Patience` assume that the accounts are
finitely many and that retries alone do not use up the turns of the loop (the code has four to eighteen).

### Admission

A request is idle, waits (`admit`'s poll loop), holds a slot, is on the wire,
streams its body, or is being dropped (`closing`: one guard gone, the other not).
Every guard drop is a step, against whatever account the id names then: none, the
same, or one that was removed and came back with zero counts. Which account
`select` returns is open, what it does to the cursor and to ramps is not. Time is in
ramp ticks.

### Quota, Sessions, Selection, Routing

`Quota`, `Sessions` and `Selection` have one operator per function of the
source, on an explicit state, since the fleet's mutex makes every call one step.
`Select` of `Selection` yields the set of outcomes `(paths taken, new account
records, cursor, tracker)`. `Routing` has the steps around it: a request of a
kind (session, model, advisor, pin, provider) begins, asks, is served or turned
away, is answered with readings, ends or is hung up on; a usage payload arrives;
time moves; the operator reloads, switches or pins a route. Pinning a route is two critical
sections, as the handler looks the account up and lets go before it sets the pin (`LookUpPin`, `SetRoutePin`), so a reload
may take the account in between and the pin then names nobody. Utilizations and times are small
integers, pressures are scaled by `Unit` to stay whole. A kind's model is one of
two (a plain one and one with a bucket of its own), so globs do not appear. What an
attempt does between selection and answer is in `Forward` and `Admission`.
The assumptions say what the types of the source say: requests are finitely many and
name a session or none, times and widths are natural numbers with a band and a week of
at least one, a configuration has an order of accounts, priorities, a tolerance of at least one and routes to weekly
buckets, and what upstreams report are readings.

### ConfigDoc, PoolsRegistry, Control

A document is a record of pools, entries and a *knob* that stands for every
setting without rules of its own; an operator of `ConfigDoc` returns the new
document or `Refused`. `Control` gives each command or handler a job: stages
(load, edit, notify, reload) and in them the steps another process can see: read, lock, apply,
open the temporary file (which truncates it), write, rename. Files are inodes. A
document carries a history field `log` with the edits that are in it, so that an
edit undone by another save can be told. A manager's accounts are a set: their order is
`Routing`'s. A profile names an organisation by id (`org`) and by name (`team`): the id tells logins
apart, the name is what `display_name` appends to the mail. A fold over the rows of an import or the accounts of a `pool set` is a
recursive function over positions. Fifteen scenarios fix who runs what; the
assumptions say what a scenario may be: finitely many commands, the
server's own start is `corrall server`, a command has the arguments its parser lets
through (`Wellformed`), and a profile names no organisation without its account,
which is the provider's to keep. A file the behaviour begins with, of this or an earlier version,
has the shape the parser gives it and no id that was not issued; it may have ids twice or none, as one edited by
hand has, unless the server already runs on it.

### Prober

The unit of time is the longest a probe waits for its answer (15 s); the loop
ticks at least once in a unit in which it is not probing. The schedule
(`seen`) is a function from the accounts the loop has met to their due times; what is
due, what is booked anew and how turns are spread are sets and functions over it, with the
integer division of the code. An account that left and came back before the loop
looked keeps its booking, as `due.retain` does. The run lock has a queue, since
tokio's mutex is fair. `Reloaded` changes a pool's interval, replaces a credential, adds or
drops an account. History: since when an account only takes turns, whose
credential is fresh, whether a claim survived a 429 that came after it. What the
loop does to refresh a token before it asks is part of the step that asks.

### Chain, Gateway

A chain is a number; the three files hold the number of the chain they come from,
`Missing` or `Torn`. `Chain` has a step per critical section of `ensure_certs`
(the look, then each write) for any set of tasks, and the write through the
temporary file two tasks of one process share. A leaf runs out (`Expire`, `Expiry`): the next call of
`ensure_certs` makes a new chain, while a running server never looks at the one it cached again
(`server.rs:243`); `expired` are the chains whose leaf did. `Gateway` follows a client from `run` or `env` to its requests:
what it is told (`env`), what it should get (`due`), which CA it trusts, the
tunnel, the manager of each request, taken before its body is awaited. The operator edits the file, renames
(the live pools first, then the reload, in its five steps) and calls `switch`
and `route-pin`, whose look-up and act are two critical sections. Which of a
pool's accounts is ranked first is left open: `Candidates` is what `select` may return.
The assumptions on scenarios say what `load_from` guarantees of a document (its
default pool exists, pools are finitely many), that a rename gives a pool a name of the
document that comes after it, and that a scenario starts with one chain on disk or with none.
`late` tags a reload that published other hosts while a call of `ensure_certs` had
its own in hand: from then on the copy may lag behind the files.

### Updater

Files are inodes, since a copy goes to the inode it opened whatever is renamed
meanwhile. A release is a number; constants say which are sound, healthy and
major. Two updates run through fetch, backup (open, then fill), swap, restart,
health check, rollback (whose rename may fail, which ends the command), second restart; systemd starts what exited; the user
turns the service off and on.

## 3. Runs

Every run finishes in about three minutes or less on two cores. Coverage over the passing runs of a
module shows every action taken.

| Run | Instance | Shows |
|---|---|---|
| `refresh` | handler and probe, 2 pairs, 1 login, 1 revocation, 2 tries, fair | `TypeOK`, `OneRefreshAtATime`, `NoReplay`, `FileKeepsUp`, `ProbeNeverDisables`, `EveryCallerAnswered` |
| `refresh_relogin` | 1 handler, 3 pairs, 1 login | violated: `ErrorIsAboutHeldPair` |
| `forward` | a request with a hold, 2 accounts, 5 classes, fair | `TypeOK`, `Implements` (refinement), `EveryRequestAnswered` |
| `forward_peers` | an unpinned and a pinned request, 1 sound account and 2 that fail, 9 classes (a 403 of an unpinned request is a 5xx to the loop) | `HeadroomServes` |
| `forward_revalidate` | 1 request, 2 accounts, readings | violated: `Revalidated` |
| `admission` | 3 requests, 1 account, 2 ramps, 2 reloads, fair | `TypeOK`, `SlotsAccountedFor`, `HerdIsPaced`, `EveryWaiterAdmitted` |
| `admission_divert` | 2 requests, 2 accounts, 3 ramps | violated: `RunningRampLeftAlone` |
| `routing` | 2 requests of 2 sessions, 2 accounts, 5 configurations, 1 tick, 1 edit, 1 route pin | `TypeOK`, `SessionsCounted`, `PriorityFirst`, `EarliestBand`, `SessionStays` |
| `control` | 15 scenarios of up to 4 commands and the server | `TypeOK`, `UpdatesKept`, `WholeFile`, `ServesFile`, `OneHome`, `LoginsKept`, `FlowsAreOneShot`, `ReadingsKept` |
| `prober` | 2 pools, 3 accounts, 3 intervals, 1 reload | `TypeOK`, `NobodyForgotten`, `TurnsAreSpread`, `FreshLoginIsProbed`, `BackOffIsKept`, `OneRunAtATime` |
| `gateway` | 8 scenarios of 2 clients, an operator and the server | `TypeOK`, `LaunchIsHonoured`, `PinsAreConfigured`, `ChainWorks` |
| `updater` | 2 updates, 5 releases, 1 kill, 1 fault, 1 service command, fair | `TargetRuns`, `BringsBack`, `ServiceComesBack` |

Why the bounds suffice for what is asked:

* *Token refresh.* Two callers are the fewest of which one waits while the other
  refreshes. Two pairs allow a rotation or a login after the first, which is
  what a stale copy (file, late write, reload) needs to meet a newer pair; the
  violated run has a third for what follows. Two tries stand for three: the last try and one that is not.
* *Forward.* Two requests give the interference, three accounts the sound one and
  two to be excluded in any order (the hop limit is 2). `MaxRetries` 1 and
  `MaxAttempts` equal to the pool make each bound be reached;
  `forward_revalidate` uses the code's own numbers. The classes of answers are
  split between the runs because their product is large; each run's set contains
  those that interact with what it asks.
* *Admission.* Three requests against a cap of 1, 2 and then none; two reloads
  remove an account and bring it back; two ramps are one and a restart.
* *Routing.* Two accounts are enough to prefer, to leave and to come back to; a
  third request changes nothing that two, and the readings that arrive between
  them, do not. The five configurations have equal priorities under each of the rankings (spread, soonest
  reset, expiry with preemption), a priority tier with a route, and the route without the account it
  leads to. One edit is a reload into another of them or a switch; one route pin, asked for where there is a route, may race it
  in its two steps; one
  tick passes a reset, a hold and the session's lifetime. Answers are successes with
  two readings and a spent window; credential and upstream errors and Codex windows are
  only in the definitions. The tracker holds one session, so that the second meets the cap.
* *Control.* Two commands make every race, a third is what a third party sees (a
  `status` that rewrites, a token write); the login scenarios have four. Two logins of one
  mail are in organisations of the same name, and a Codex account has that mail too, so that names collide. At most one process is ended. The run stops
  when all have, and deadlock is checked up to there: a command that waits for a
  lock nobody frees would show.
* *Prober.* With a unit of 15 s the real 60 s floor is 2 units, the cap on
  back-offs 5, the manual gap 3: in the order of the real ones, and each smaller than the time followed by enough to
  pass. A pool of two spreads its turns; the other comes on, backs off and is manually run meanwhile.
* *Gateway.* One operator: overlapping reloads are `Control`'s. The
  scenarios are a first start without certificates and a fault; a host that is no longer intercepted while a chain is made for it; a Codex account
  that adds a host; rules and swapped accounts; a renamed default pool; an account removed
  and moved under its pins; hosts that are not intercepted; a leaf that runs out under a running
  server. One leaf expires in the last and none in the others: what follows is one new chain.
* *Updater.* Two updates share a backup; release 2 is sound, 3 starts and does not
  answer, 4 is a major version, 5 does not verify.

Deadlock checking is off where the system may stop: `Admission` (a reload may
remove every account, and the bounds on ramps and reloads run out), `Routing`, `Gateway` and `Updater` (bounds and scenarios end).

**Fairness.** Callers and requests: weak fairness of their steps, as the runtime
polls every ready future and every wait in the code has a timer
(`refresh_timeout`, `headers_timeout`, `body_idle_timeout`). Waiting for the
refresh lock: strong fairness, since tokio's mutex is first-come first-served.
Blocking writes: weak. Admission: weak fairness of a waiter's poll (every
50 ms) and of time; no fairness between waiters is assumed. Updater: an update
that was begun goes on (every call in it has an end, the health check a limit of 20 s), and
systemd starts an exited unit again (`Restart=on-failure`, which the unit file
asks for). Nothing is assumed of
clients, the operator, reloads or the provider's goodwill.

**History.** Several properties excuse behaviours in which the code does lose
what they state; the excuse is a history variable of the module (`past`, `leaked`,
`refused`, `unwritten`, `expired`), never an omission of the step. They are, and each is a hazard in `PROJECT.json`:

* `FileKeepsUp`: the write of the pair in memory itself failed or found no entry (`unwritten`). A failed write of an
  earlier pair excuses nothing.
* `SessionsCounted`: a request its client left keeps its session counted; one
  the full tracker refused lowers the count of later ones.
* `PriorityFirst`: with expiry routing and nothing read yet the order of the file decides.
* `SessionStays`: a model whose route meters it in another bucket. The code records its session under the family's
  bucket (`manager.rs:1273`), looks it up under the route's (`manager.rs:1864`) and does not find the seat there, though
  `README.md:129` promises it (with `distributeSessions` a pin of any bucket will do).
* `EarliestBand` speaks of soonest-reset routing without expiry routing.
* `UpdatesKept`: a load that fills in ids or migrates saves without the lock and can undo an edit.
* `WholeFile`: two tasks of the server share the temporary file.
* `ServesFile`, `ReadingsKept`: two reloads overlap, a reload fails or is not asked for, a rotated token finds its entry gone or newer.
* `OneHome`: with a `login --api` among the commands, or what it left (or a login twice) in the file the behaviour
  begins with, nothing is claimed of logins with two entries. An entry
  that is given an API key keeps the profile of its login (`cli.rs:672`), an import does not look at such
  entries (`cli.rs:955`) and adds one in its pool, and the next login finds the first (`cli.rs:592`):
  the login is in two pools, which `docs/configuration.md:14` rules out.
* `LoginsKept`: a login's name was chosen on a file that has changed since; or a login that has no entry took one
  by its name (`displaced`): that of another organisation of the same name or of none, of a Codex
  account, or whatever has a name given by hand (`cli.rs:594`, `cli.rs:647`, `cli.rs:685`).
* `LaunchIsHonoured`: an edit was under way at the launch, or pools came, went or were renamed, or another one became
  the default, since.
* `FreshLoginIsProbed`: the pool was off, backed off or drew a 429 then.
* `PinsAreConfigured`: a route was pinned to an account while a reload removed it.
* `ChainWorks`: two writers of the chain, a write cut short, a reload between the choice of hosts and the caching; and
  a client shown an expired leaf. Commands make a new CA once the leaf has expired, the server serves the old chain until it
  drops its cache: every client is refused until then.
* `TargetRuns`, `BringsBack`: two updates between backup and end at a time. `ServiceComesBack`: see its comment.

**What the violated runs show** (details and quotes under `findings`):

1. `refresh_relogin`: a refresh or a 401 that concerns the pair a re-login has
   just replaced marks the account as in error, though its new pair is good.
2. `forward_revalidate`: an account chosen to revalidate a reading at the
   threshold is refused by the second look, for the same reading, so the live request that would
   refresh it is never sent.
3. `admission_divert`: a diverted request compares the account with a cursor it does not
   move, and so restarts the account's ramp each time.

## 4. Proofs

All proofs are checked by TLAPS from nothing; the assumptions are those named in
the modules (finite sets of requests or commands, natural bounds, disjoint kinds of
callers, markers outside the sets, what a loaded document guarantees), which TLC
evaluates in the runs. Every theorem has the shape `Spec => []P` or `Spec => [][A]_vars`,
for every value of the constants; each rests on an invariant that is inductive, and
that was checked on the instance of the run before it was proved.

* `TokenRefresh_proofs!TypeInvariant`: `TypeOK` is inductive once `CallState` says
  that a caller in the middle of a refresh has a token.
* `TokenRefresh_proofs!OneRefresh`: `OneRefreshAtATime` is inductive with `TypeOK`. A
  step takes the free lock, keeps it, or gives up one's own (`LockDiscipline`).
* `TokenRefresh_proofs!NeverReplayed`: `NoReplay` is not inductive, since what a
  caller presents next is the pair in memory, and that may come from the file by
  way of a reload. `Safe` adds: every pair anywhere has been granted
  (`AllGranted`); a login's pair is known to it alone until it is written
  (`LoginIsPrivate`); a successor just granted is newer than all spent pairs
  (`SuccessorIsNewest`); and every stale copy, in the file, a late write or a
  reload, is older than memory or about to be (`CopiesHarmless`). The last is
  what `TakesFromFile` preserves: a reload only takes pairs that are not older. The free lock at
  `Acquire` rules out "about to be".
* `TokenRefresh_proofs!FileNeverFallsBehind`: `FileKeepsUp` (but for the pairs whose own write failed) needs what is true while a
  write is on its way (`CatchingUp`): the copies in the file and in a reload's hand are at most
  as new as memory, the only pair being written is the one in memory, and while it is, nobody can be
  granted another, since memory's pair is not due for renewal (`Settled` on the clock). With a login from
  beside the server nothing is claimed, as a late write may then meet a newer entry.
* `TokenRefresh_proofs!ProbesLeaveUsableAccounts`: an action property,
  `ProbeNeverDisables`: three steps mark an account; while its access token is good each does
  so for a request only, and that request moves in the step.
* `Forward_proofs!TypeCorrect` and `ImplementsOneAnswer`: a step moves one
  request or time. `Sensible` (an attempt has an account; what has left and was not
  refused is out or having its answer read) and `Keeps` (a request gets out only from the wire, which it reaches
  only from `admit`; what is taken stays out or ends, also when its answer is lost) hold of each step, and map it to a step of
  `OneAnswer` or to none.
* `Forward_proofs!HeadroomIsServed`: `HeadroomServes` needs three facts (`SoundInv`). An account that never fails
  stays working, whatever other requests do (`SoundWork`); no answer that a request holds is held against
  one (`NoneBlamed`); and every attempt of a request is an account it excluded, a retry or the one
  under way (`AllCounted`), so the loop gives up only when all that is not sound is excluded, and then
  `select` has a sound one. `Patience` rules out retries that use up the loop.
* `Admission_proofs!TypeCorrect` and `CountsRight`: `SlotsAccountedFor` needs to
  know that an account that is not there was removed and counts nothing
  (`Known`). Each operation moves one request, so the set of holders gains or
  loses one element and so does the count; the saturating subtraction keeps "at
  most", and "exactly" where nothing was ever removed.
* `Admission_proofs!HerdPaced`: `HerdIsPaced` follows from exact counts and two facts
  about the cap, a quotient: it does not shrink while time passes, and it is one at least. What was let in
  under an earlier cap is within the present one. A ramp that starts anew remembers the herd it
  found (`base`); from then on the herd grows by grants only, and a grant is given below the cap only.
* `Updater_proofs!BinaryStays` and `RollbackRestores`: `TargetRuns` and `BringsBack`
  rest on the same invariant. While the updates take turns (`TakeTurns`), the
  backup and the binary are different files and the binary is whole (`Apart`), and
  the update at work has kept in the backup what it replaces (`Held`: from the copy,
  over the rename, to the rollback). Once two were at work together only the types
  are left, and neither property claims more. A step is one of an update not at work
  (`AsideKeeps`), of the one at work (`AtWork`: the others hold nothing), or of what
  is around them.
* `Prober_proofs!InOrder`, `TypeCorrect`, `RunsTakeTurns`: the run lock, its queue, the loop's
  claim, the manual request and the run under way say the same of who is where (`Orderly`).
* `Prober_proofs!BackOffKept`: the schedule holds a pool back at least until the time the last 429
  set (`HeldBack`), whatever a reload makes of its interval in between.
* `Prober_proofs!NobodyIsForgotten`: a look at a pool books all of its accounts, for a time to come
  (`LookedAt`, per pool and tick), and no booking is more than two of the longest
  intervals away (`BookedNear`), the spread of the first round included.
* `Prober_proofs!FreshLoginsAreProbed`: an account with a new credential is in the recheck list,
  unknown to the schedule, or claimed and not yet asked (`AllOwed`), and a tick without a reload leaves the
  first two empty (`RecheckTaken`). Emptying the list before the decision is harmless because the decision follows in the same step.
* `Prober_proofs!TurnsStaySpread`: bookings are compared on a clock face with one interval on it
  (`Apart`, with its own lemmas of arithmetic): an account that takes its turn stays where it
  is on the face, and an even first round is a share apart by the arithmetic of quotients. One that slips a
  whole interval, like one with a new credential, starts at now: of its pool nothing is claimed until the next first round.
* `Gateway_proofs!LaunchesAreHonoured` and `PinsStayConfigured`: the invariant `Good` of the way in: the
  registry leads every name to a manager of its own, an edit under way is the one the file shows and between
  reloads file and registry agree (`Wired`); every client launched between edits and not moved by one (of the set of pools or the default) is told, tunnelled and
  handed over to the pool it was launched for (`AllHomed`); cursors and pins are accounts of their
  manager, live or dropped (`AllConfigured`).
* `Gateway_proofs!ChainIsTyped`, `LinkedAlways`, `ChainsWork`, `TypeCorrect`: the invariant `Linked` of the
  certificates. As long as writers took turns, the files are those of one chain but for what one task has
  replaced of them, in the order key, leaf, CA, and who replaces a chain has reason to (`DiskSound`); as
  long as no reload came late, the cached chain is the one on disk, or one whose leaf has expired
  since it was cached (`Current`), and good for all intercepted hosts, and so is whatever a call is about to return (`CopySound`). A chain that is good for all hosts is
  replaced by nobody (`Settled`): that is why a copy stays true. The proof found that a reload
  that stops intercepting a host while a chain is being made must count as late too; the model's tag
  was widened, and a scenario added that shows it.
* `Control_proofs!FileIsWhole`, `EditsAreKept`, `FlowsRunOnce`: the invariant `Core`: only the holder of the lock
  is inside `Config::update` (`OneInside`); the task that saves has the temporary
  file to itself, with its document in it once it is written (`TempIsOwn`); and whoever is inside and has read has all edits that were
  reported and not lost (`ReadAll`), so writing cannot undo one. For the logins, exchanges and pending flows together are at most the
  starts of the flow (`Exchanged`).
* `Control_proofs!ServesIssuedIds` and `AccountsHaveOneHome`: `TypeOK` and `OneHome`, from `Core` and
  `Housed`. A reload publishes a document that was read long before, so what holds of the file must hold of every inode
  and of every document in a job's hands (`HouseFiles`, `HouseJobs`): it is of its shape, its ids
  are issued, and where `OneEntry` claims anything no login is in it twice and no key on a profile (`Kept`); ids are apart in it as soon as a command has
  saved it, and every entry has one. Each operator of `ConfigDoc` has a lemma that it keeps this. A fold
  keeps it because of a least position where it would not, which well-founded induction on the naturals
  excludes without its rule. `ensure_account_ids` gives the k-th entry without an id the k-th new number; that places in order of
  pools have different ranks is a lemma about counts below a place. A manager serves what `sync_config` finds in such a
  document, so an id has one manager.
* `Routing_proofs!SessionsAreCounted`: every operation of the tracker has a lemma that says which counts it
  changes: a sweep, an eviction, `ensure`, `touch` and a remap none (they only forget sessions with nothing
  under way), begin and end one by one. `Counts` adds that each request knows whether it was counted,
  or belongs to a session the full tracker once refused.
* `Routing_proofs!TypesAreKept`: beside the types of readings (every operator of `Quota` and `Selection` maps
  readings to readings), a count on an account is at most the number of requests sent or open there plus what
  may still be asked (`FleetFits`); a reload that makes counters anew only lowers them.
* `Routing_proofs!PriorityIsFirst` and `BandIsEarliest`: `Good` says of an account what both properties ask, and
  each of the paths of `select` is shown to answer with a good one (`SelectIs`). The rankings choose the least of a finite set
  under an order of tuples (`Rank`), which is total and transitive by position; that there is a
  least follows from the finite number of smaller ones. A seat, the cursor and a diversion
  are good by their own tests, and where a test is missing (the file's order under expiry routing) the property's excuse is what is left.
* `Routing_proofs!SessionsStay`: what served a session last is in the tracker and pinned there
  (`Promised`) until it is swept, evicted, remapped or removed, each of which takes the promise back; and
  `select` takes the seat when the account can serve (`SettledStays`), for models that are metered in
  their family's bucket.

Only model-checked:

* the liveness properties (`EveryCallerAnswered`, `EveryRequestAnswered`, `EveryWaiterAdmitted`, `ServiceComesBack`): fairness and `ENABLED` are beyond this prover;
* `ServesFile`, `LoginsKept`, `ReadingsKept` of `Control`: they relate what is served, or what a login leaves, to
  the histories of all reloads and edits at once. Thinking `OneHome` through
  for all scenarios showed what its part about logins had to leave out (`OneEntry`, above under History).

Beyond the prover, too: induction over data (its theorems take an
operator as a parameter, which the installed backends cannot instantiate) and
everything that reaches a `RECURSIVE` operator; modules meant for proofs avoid both.

## 5. Not modelled

* Byte-level work: the relay of own sessions and tunnels, body rewriting, log files, globs and git remotes.
* Rendering (TUI, attach, status, titles) and the activity stream.
* Client authentication: stateless predicates.
* Keep-warm: one sequential loop that starts clients; its requests are like any other.
* Linked accounts (credentials read from another program's file) and `corrall api`,
  which refreshes in its own process outside the server's lock.
* Usage accounting per client, model and session.
* Reading claudeacrobat's files; the installer script; the cache of the latest release.
* The renewal of a CA and dates other than the end of a leaf, the outbound HTTP client's configuration, the paseo plugin.

`PROJECT.json` says so per component. Hazards without a property carry a note
there: `corrall api` (`cli.rs:1918`), `hold` and its lifting by stragglers
(`manager.rs:1137`, `forward.rs:462`), the order of the file under expiry
routing (`manager.rs:1649`), the unlocked rewrite of `load_from` (`config.rs:604`), overlapping reloads
(`main.rs:144`) and the temporary file two writers of a chain share (`mitm.rs:117`). The last three are
modelled, and are what `UpdatesKept`, `ServesFile` and `ChainWorks` excuse.

## 6. Plan

1. `TokenRefresh`, `Forward`, `Admission`, `Updater` with their proofs: done.
2. `Selection`/`Routing`, `Control`, `Prober`, `Gateway` with their runs: done.
3. Proofs about `Prober`, `Gateway`, `Control`, `Routing`, and what was left of
   `TokenRefresh`, `Admission` and `Forward`: done.
4. `OneHome` and `TypeOK` of `Control`: done. Left: what its reloads publish (`ServesFile`).
5. Left: linked accounts and a second refreshing process in `TokenRefresh`.
