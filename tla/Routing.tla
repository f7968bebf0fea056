------------------------------ MODULE Routing ------------------------------
(***************************************************************************)
(* Which account of a pool a request is given to, over time: the client    *)
(* requests of several sessions ask Fleet::select, the answers and the     *)
(* prober move the readings it ranks by, sessions are counted and pinned,  *)
(* and the operator reloads the configuration and moves the cursor.        *)
(*                                                                         *)
(* A request is followed to the end of its body.  What an attempt does     *)
(* between its selection and its answer is in Forward and Admission.       *)
(***************************************************************************)
EXTENDS Selection

CONSTANTS Requests, Sessions,
          Kinds,        \* bound: what requests ask for
          Configs,      \* bound: the settings a reload may bring
          Payloads,     \* bound: what the usage endpoint says
          PinCalls,     \* bound: <<settings, route, account>>, the pins asked for under them
          Replies,      \* bound: the answers, as <<class, the quota headers>>
          HoldTicks,    \* how long a 429 holds an account
          DeniedTicks,  \* ENTITLEMENT_COOLDOWN_MS
          MaxTime, MaxBegun, MaxEdits,  \* bounds: time, requests, hang-ups and interventions
          MaxPinned     \* bound: calls of route-pin

ASSUME RequestsAssumption ==
  /\ IsFiniteSet(Requests) /\ NoSession \notin Sessions /\ NoAccount \notin Accounts
  /\ Kinds # {}
  /\ \A k \in Kinds : k.session \in Sessions \cup {NoSession} /\ k.model \in Models \cup {NoModel}

ASSUME TimesAssumption ==
  /\ {MaxTime, SweepInterval, MaxSessions, FiveWindow, Whole, Unit} \subseteq Nat
  /\ {WeekBand, FiveBand, WeekWindow} \subseteq Nat \ {0}
  /\ SweepInterval < MaxTime /\ Never \in Int

\* A route's bucket is one of the weekly ones whatever it says
\* (manager.rs:1485-1489), a family's is its own, and a tolerance below 1 is 1
\* (manager.rs:1650).
ASSUME ConfigsAssumption ==
  /\ FamilyOf \in [Models -> Weekly]
  /\ \A c \in Configs :
       /\ c.order \in Seq(Accounts) /\ c.prio \in [Accounts -> Int]
       /\ c.tolerance \in Nat \ {0}
       /\ DOMAIN c.routes \subseteq Nat
       /\ \A i \in DOMAIN c.routes : c.routes[i].bucket \in Weekly \cup {"none"}

VARIABLES req,     \* the requests
          pinning, \* calls of route-pin that have looked their account up
          begun, edits, pinned,   \* how many there were, for the bounds
          \* history
          leaked,  \* requests of a session whose client hung up on them
          refused, \* sessions whose request the full tracker did not count
          served   \* the account that last served a session, by bucket

fleetVars == <<acct, current>>
pins == <<routePin, pinning, pinned>>
vars == <<now, cfg, acct, current, pins, tracker, req, begun, edits, leaked, refused, served>>

Routes == UNION {{c.routes[i].name : i \in DOMAIN c.routes} : c \in Configs}

NewAccount ==
  [quota |-> NoQuota, status |-> "active", until |-> Unknown, hold |-> FALSE,
   denied |-> Unknown, probed |-> Unknown, baseline |-> [w \in Weekly |-> Unknown],
   probing |-> FALSE, requalify |-> FALSE, flight |-> 0, open |-> 0]

Idle == [pc |-> "idle", kind |-> CHOOSE k \in Kinds : TRUE, at |-> NoAccount,
         tried |-> {}, counted |-> FALSE]

Times == 0 .. MaxTime + MaxTime
Utils == 0 .. 2 * Whole

\* What upstreams report are readings.
ASSUME ReadingsAssumption ==
  /\ \A y \in Replies : /\ y[1] \in {"ok", "failed", "limited", "spent", "dead", "denied"}
                        /\ y[2] \in [Keys -> Bucket(Times, Utils)]
  /\ \A u \in Payloads : \A k \in DOMAIN u.of : u.of[k] \in Bucket(Times, Utils)

TypeOK ==
  /\ now \in 0 .. MaxTime /\ cfg \in Configs
  /\ \A a \in Accounts :
       /\ \A k \in Keys : acct[a].quota[k] \in Bucket(Times, Utils)
       /\ acct[a].status \in {"active", "throttled", "error"}
       /\ {acct[a].flight, acct[a].open} \subseteq 0 .. Cardinality(Requests)
  /\ current \in Members \cup {NoAccount}
  /\ routePin \in [Routes -> Accounts \cup {NoAccount}]
  /\ pinning \subseteq Routes \X Accounts
  /\ DOMAIN tracker.known \subseteq Sessions /\ Cardinality(DOMAIN tracker.known) <= MaxSessions
  /\ \A r \in Requests : req[r].kind \in Kinds /\ req[r].tried \subseteq Accounts

Start == SweepInterval + 1

Init == /\ now = Start /\ cfg \in Configs
        /\ acct = [a \in Accounts |-> NewAccount]
        /\ current = NoAccount
        /\ routePin = [n \in Routes |-> NoAccount] /\ pinning = {} /\ pinned = 0
        /\ tracker = SS!NoTracker
        /\ req = [r \in Requests |-> Idle]
        /\ begun = 0 /\ edits = 0
        /\ leaked = [s \in Sessions |-> 0]
        /\ refused = {}
        /\ served = [s \in Sessions |-> [w \in Weekly |-> NoAccount]]

Goes(r, state) == req' = [req EXCEPT ![r] = state]
Session(r)     == req[r].kind.session

\* The tracker of sessions becomes t; what it forgot is not promised again.
Tracks(t, serving) ==
  /\ tracker' = t
  /\ served' = [s \in Sessions |-> IF SS!Tracked(t, s) THEN serving[s]
                                   ELSE [w \in Weekly |-> NoAccount]]

---------------------------------------------------------------------------
\* Requests.

\* A request arrives: begin_session_request.
Begin(r, k) ==
  /\ req[r].pc = "idle" /\ begun < MaxBegun /\ begun' = begun + 1
  /\ \E t \in IF k.session = NoSession THEN {tracker} ELSE SS!Begun(tracker, k.session, now) :
       LET counted == k.session # NoSession /\ SS!Tracked(t, k.session)
       IN /\ Tracks(t, served)
          /\ Goes(r, [Idle EXCEPT !.pc = "asking", !.kind = k, !.counted = counted])
          /\ refused' = IF k.session # NoSession /\ ~counted THEN refused \cup {k.session}
                                                             ELSE refused
  /\ UNCHANGED <<now, cfg, fleetVars, pins, edits, leaked>>

\* end_session_request: the tracker after r has its answer.
Over1(t, r) == IF Session(r) = NoSession THEN t ELSE SS!Ended(t, Session(r), now)

\* Nothing serves r, or its pin fails: it is answered with an error.
Fails(r) == /\ Goes(r, Idle)
            /\ Tracks(Over1(tracker, r), served)

\* select, then the slot of the ramp and the send.
Ask(r) ==
  LET q == req[r].kind IN
  /\ req[r].pc = "asking"
  /\ \E seat \in IF Seats(q) = {} THEN {NoAccount} ELSE Seats(q) :
       \E out \in {Select(q, req[r].tried, seat)} :
       /\ current' = out.cursor
       /\ IF out.at = NoAccount
          THEN /\ acct' = out.fleet /\ Fails(r)
          ELSE /\ acct' = [out.fleet EXCEPT ![out.at].flight = @ + 1, ![out.at].open = @ + 1]
               /\ Goes(r, [req[r] EXCEPT !.pc = "sent", !.at = out.at])
               /\ UNCHANGED <<tracker, served>>
  /\ UNCHANGED <<now, cfg, pins, begun, edits, leaked, refused>>

\* update_quota: the headers, then what they teach, then the windows.
Read(x, a, h) ==
  LET q == IF ProviderOf[a] = "codex" THEN ApplyCodexHeaders(x.quota, h, now)
                                      ELSE ApplyHeaders(x.quota, h, now)
      learns == x.probing /\ Known(q["7d"].reset)
  IN [x EXCEPT !.quota = ClearExpired(q, cfg.threshold, now),
               !.probing = @ /\ ~learns, !.requalify = @ \/ learns]

Unheld(x) == [x EXCEPT !.status = IF @ = "throttled" THEN "active" ELSE @,
                       !.until = Unknown, !.hold = FALSE]

Held(x, quota) == [x EXCEPT !.status = "throttled", !.until = now + HoldTicks, !.hold = quota]

\* The slot is released with the answer, the open request with the body.
Answered(x) == [x EXCEPT !.flight = SS!Less1(@)]
Closed(x)   == [x EXCEPT !.open = SS!Less1(@)]

\* The account after an answer of a class.
After(x, class) ==
  CASE class \in {"ok", "failed"} -> Unheld(x)
    [] class = "limited"          -> Held(x, FALSE)
    [] class = "spent"            -> Held(x, TRUE)
    [] class = "dead"             -> [Unheld(x) EXCEPT !.status = "error"]
    [] class = "denied"           -> [Unheld(x) EXCEPT !.denied = now + DeniedTicks]

InFleet(a, x) == acct' = IF a \in Members THEN [acct EXCEPT ![a] = x] ELSE acct

\* record_session, by the model's own bucket.
TouchedBy(t, r) ==
  IF Session(r) = NoSession THEN {t}
  ELSE SS!Touched(t, Session(r), req[r].at, WeeklyBucketFor(req[r].kind.model), now)

Serving(r) ==
  IF Session(r) = NoSession THEN served
  ELSE [served EXCEPT ![Session(r)][WeeklyBucketFor(req[r].kind.model)] = req[r].at]

\* An upstream's answer that is relayed.
Serve(r, class, h) ==
  LET a == req[r].at IN
  /\ req[r].pc = "sent" /\ class = "ok"
  /\ InFleet(a, Answered(After(Read(acct[a], a, h), "ok")))
  /\ \E t \in TouchedBy(tracker, r) : Tracks(Over1(t, r), Serving(r))
  /\ Goes(r, [Idle EXCEPT !.pc = "body", !.at = a])
  /\ UNCHANGED <<now, cfg, current, pins, begun, edits, leaked, refused>>

\* An answer that sends the request to another account, unless it is pinned.
TurnAway(r, class, h) ==
  LET a == req[r].at IN
  /\ req[r].pc = "sent" /\ class # "ok"
  /\ InFleet(a, Closed(Answered(After(Read(acct[a], a, h), class))))
  /\ IF req[r].kind.pin # NoAccount THEN Fails(r)
     ELSE /\ Goes(r, [req[r] EXCEPT !.pc = "asking", !.at = NoAccount, !.tried = @ \cup {a}])
          /\ UNCHANGED <<tracker, served>>
  /\ UNCHANGED <<now, cfg, current, pins, begun, edits, leaked, refused>>

EndOfBody(r) ==
  /\ req[r].pc = "body" /\ InFleet(req[r].at, Closed(acct[req[r].at])) /\ Goes(r, Idle)
  /\ UNCHANGED <<now, cfg, current, pins, tracker, begun, edits, leaked, refused, served>>

Edit == edits < MaxEdits /\ edits' = edits + 1

\* The client goes away: the guards of the account are dropped, the call of
\* end_session_request that would have followed is never made.
HangUp(r) ==
  LET a == req[r].at IN
  /\ req[r].pc \in {"asking", "sent"} /\ Edit
  /\ IF req[r].pc = "sent" THEN InFleet(a, Closed(Answered(acct[a]))) ELSE UNCHANGED acct
  /\ leaked' = IF req[r].counted THEN [leaked EXCEPT ![Session(r)] = @ + 1] ELSE leaked
  /\ Goes(r, Idle)
  /\ UNCHANGED <<now, cfg, current, pins, tracker, begun, refused, served>>

---------------------------------------------------------------------------
\* The prober, the operator and time.

\* apply_usage: a quota hold is lifted once the shared windows are under.
UsageRead(a, u) ==
  /\ a \in Members /\ Edit
  /\ LET x == [acct[a] EXCEPT !.quota = ApplyUsage(@, u, now), !.probed = now]
         F == [acct EXCEPT ![a] = x]
     IN acct' = [F EXCEPT ![a] = IF x.hold /\ Lasts(x.until) /\ ~NearQuota(F, a, NoModel)
                                 THEN Unheld(x) ELSE x]
  /\ UNCHANGED <<now, cfg, current, pins, tracker, req, begun, leaked, refused, served>>

\* sync_config; a new credential or a re-enabling lifts the errors of `back`.
Reload(c, back) ==
  LET live == {c.order[i] : i \in DOMAIN c.order} IN
  /\ Edit /\ c # cfg /\ cfg' = c
  /\ acct' = [a \in Accounts |->
       IF a \notin live \/ a \notin Members THEN NewAccount
       ELSE [acct[a] EXCEPT
               !.status = IF @ = "error" /\ a \in back THEN "active" ELSE @,
               !.baseline = IF c.expiry /\ c.preempt THEN @ ELSE [w \in Weekly |-> Unknown]]]
  /\ current' = IF current \in live THEN current ELSE NoAccount
  /\ routePin' = [n \in Routes |-> IF routePin[n] \in live THEN routePin[n] ELSE NoAccount]
  /\ tracker' = SS!Remapped(tracker, live)
  /\ served' = [s \in Sessions |-> [w \in Weekly |->
                  IF served[s][w] \in live THEN served[s][w] ELSE NoAccount]]
  /\ UNCHANGED <<now, req, pinning, pinned, begun, leaked, refused>>

SwitchTo(a) ==
  /\ a \in Members /\ Edit /\ current' = a
  /\ UNCHANGED <<now, cfg, acct, pins, tracker, req, begun, leaked, refused, served>>

\* The route-pin handler finds the account in one critical section ...
LookUpPin(n, a) ==
  /\ a \in Members /\ pinned < MaxPinned /\ <<cfg, n, a>> \in PinCalls
  /\ pinning' = pinning \cup {<<n, a>>} /\ pinned' = pinned + 1
  /\ UNCHANGED <<now, cfg, fleetVars, routePin, tracker, req, begun, edits, leaked, refused,
                 served>>

\* ... and pins it in another, which does not ask whether it is still there.
SetRoutePin(n, a) ==
  /\ <<n, a>> \in pinning
  /\ pinning' = pinning \ {<<n, a>>} /\ routePin' = [routePin EXCEPT ![n] = a]
  /\ UNCHANGED <<now, cfg, fleetVars, pinned, tracker, req, begun, edits, leaked, refused,
                 served>>

\* Asked for no account, it looks nothing up.
Unpin(n) ==
  /\ routePin[n] # NoAccount /\ routePin' = [routePin EXCEPT ![n] = NoAccount]
  /\ UNCHANGED <<now, cfg, fleetVars, pinning, pinned, tracker, req, begun, edits, leaked,
                 refused, served>>

Tick ==
  /\ now < MaxTime /\ now' = now + 1
  /\ UNCHANGED <<cfg, fleetVars, pins, tracker, req, begun, edits, leaked, refused, served>>

---------------------------------------------------------------------------
Next ==
  \/ \E r \in Requests :
       \/ \E k \in Kinds : Begin(r, k)
       \/ Ask(r) \/ EndOfBody(r) \/ HangUp(r)
       \/ \E y \in Replies : Serve(r, y[1], y[2]) \/ TurnAway(r, y[1], y[2])
  \/ \E a \in Accounts : \/ \E u \in Payloads : UsageRead(a, u)
                         \/ SwitchTo(a)
  \/ \E n \in Routes : Unpin(n) \/ \E a \in Accounts : LookUpPin(n, a) \/ SetRoutePin(n, a)
  \/ \E c \in Configs, back \in {{}, Accounts} : Reload(c, back)
  \/ Tick

Spec == Init /\ [][Next]_vars

---------------------------------------------------------------------------
Chose(r) == req[r].pc = "asking" /\ req'[r].pc = "sent"
\* Nobody pinned q, or its route is pinned to an account that is gone.
Free(q)  == q.pin = NoAccount /\ RoutePinned(q) \notin Members

\* The requests of a session that run, or that a client left, are exactly
\* the ones the tracker counts, through sweeps, evictions at the cap and
\* requests that end: a session under way is never forgotten nor counted
\* twice, unless the cap once refused to count one of its requests
\* (session.rs:85-125, server.rs:527-529).
SessionsCounted ==
  \A s \in Sessions \ refused :
    (IF SS!Tracked(tracker, s) THEN tracker.known[s].flight ELSE 0)
      = leaked[s] + Cardinality({r \in Requests : req[r].pc \in {"asking", "sent"}
                                                  /\ Session(r) = s})

\* Whatever the path - a session's seat, the cursor, a diversion - a request
\* nobody pinned never goes to an account while one of a better priority
\* could serve it (README.md:107, manager.rs:1882-1886, 1938-1944) - unless
\* accounts are ranked by expiry: with no reading of the top tier the order
\* of the config file decides (manager.rs:1649).
Prefers(r) ==
  Chose(r) /\ Free(req[r].kind) =>
    \A b \in Available(Expired, req[r].kind, req[r].tried) : Prio(req'[r].at) <= Prio(b)

PriorityFirst == [][\A r \in Requests : ~cfg.expiry \/ cfg.soonest => Prefers(r)]_vars

\* With soonest-reset routing no request is given to an account while
\* another could serve it from an earlier weekly or 5h band, wherever its
\* session and the cursor sit (docs/configuration.md:134).
EarliestBand ==
  [][\A r \in Requests :
       LET q == req[r].kind  F == Expired  V == Available(F, q, req[r].tried)
       IN Chose(r) /\ Free(q) /\ cfg.soonest /\ ~cfg.expiry =>
            \A b \in V : ~LexLess(Bands(F, V, b, q.model), Bands(F, V, req'[r].at, q.model))]_vars

\* A session stays on the account that last served it for the bucket - over
\* sweeps, other sessions, other models, answers to other requests and the
\* cursor's moves - while that account can serve, none of a better priority
\* can, none from an earlier band where the soonest reset is wanted, and its
\* weekly window has not rolled over (README.md:129).  Nothing is claimed for
\* a model whose route meters it in another bucket: there the code does lose
\* the seat, as it records a session under the family's bucket
\* (manager.rs:1273) and looks it up under the route's (manager.rs:1864).
MayStay(F, V, p, q) ==
  /\ p \in V /\ ~RolledOver(F, p, q.model)
  /\ \A b \in V : Prio(p) <= Prio(b)
  /\ cfg.soonest => \A b \in V : ~LexLess(Bands(F, V, b, q.model), Bands(F, V, p, q.model))

SessionStays ==
  [][\A r \in Requests :
       LET q == req[r].kind  p == served[q.session][WeeklyBucketFor(q.model)]
       IN (/\ Chose(r) /\ Free(q) /\ q.session # NoSession
           /\ WeeklyKeyFor(q.model) = WeeklyBucketFor(q.model)
           /\ MayStay(Expired, Available(Expired, q, req[r].tried), p, q))
          => req'[r].at = p]_vars
=============================================================================
