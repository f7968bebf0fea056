----------------------------- MODULE Selection -----------------------------
(***************************************************************************)
(* Fleet::select and what it decides from: which accounts can serve a      *)
(* request (routes, caps, thresholds), how they are ranked (priority, load,*)
(* expiry pressure, soonest reset) and which of the paths - a pin, a route *)
(* pin, the account the session sits on, the cursor, the best account, a   *)
(* revalidation - answers the request.  The fleet's mutex makes each call  *)
(* one step; clear_expired_all opens it, so everything here speaks of a    *)
(* fleet F whose windows and holds that are over are gone.                 *)
(***************************************************************************)
EXTENDS Quota, Sequences

CONSTANTS Accounts, Models, NoAccount, NoModel, NoSession,
          FamilyOf,      \* the family a model meters in, "7d" for the others
          ProviderOf,    \* of an account
          ProbeFloor,    \* THROTTLE_PROBE_FLOOR_MS
          WeekBand,      \* WEEKLY_BAND_MS
          FiveBand,      \* FIVE_HOUR_BAND_MS
          FiveWindow,    \* FIVE_HOUR_WINDOW_MS
          WeekWindow,    \* the week a reading without a reset is ranked by
          Whole,         \* the utilization 1.0
          Margin,        \* OPEN_REQUEST_HEADROOM
          Never,         \* i64::MAX: later than any reset
          Unit,          \* scale of pressures, to keep them whole numbers
          ActiveTtl, MaxSessions, KnownTtl, SweepInterval

VARIABLES now,      \* the time
          cfg,      \* the pool's settings and accounts, as last loaded
          acct,     \* the accounts
          current,  \* the cursor
          routePin, \* Fleet::route_pins, by route
          tracker   \* the sessions

Weekly == Windows \ {"5h"}
SS == INSTANCE Sessions

---------------------------------------------------------------------------
\* Members of the pool, in the order of the config file.
Members  == {cfg.order[i] : i \in DOMAIN cfg.order}
Place(a) == CHOOSE i \in DOMAIN cfg.order : cfg.order[i] = a

\* route_for: the first route whose globs match.
RoutesFor(m) == {i \in DOMAIN cfg.routes : m \in cfg.routes[i].models}
RouteFor(m)  == cfg.routes[Min(RoutesFor(m))]

RouteAllows(a, m) ==
  m # NoModel /\ RoutesFor(m) # {} =>
    RouteFor(m).accounts = {} \/ a \in RouteFor(m).accounts

WeeklyBucketFor(m) == IF m = NoModel THEN "7d" ELSE FamilyOf[m]

\* weekly_key_for: a route may name another bucket.
WeeklyKeyFor(m) ==
  IF m # NoModel /\ RoutesFor(m) # {} /\ RouteFor(m).bucket # "none"
  THEN RouteFor(m).bucket ELSE WeeklyBucketFor(m)

\* What the settings cap an account at; 1 + Whole is no cap.
CapReached(q, a, k) == Known(q[k].util) /\ q[k].util >= cfg.caps[a][k]
Capped(F, a, m) ==
  \E k \in {"5h", "7d", "tokens", WeeklyKeyFor(m)} : CapReached(F[a].quota, a, k)

Over(u, margin, k) == Known(u) /\ u + margin >= cfg.threshold[k]

\* near_quota: requests still open are spend the reading does not show.
NearQuota(F, a, m) ==
  LET q == F[a].quota  margin == F[a].open * Margin  key == WeeklyKeyFor(m)
  IN \/ Over(q["5h"].util, margin, "5h")
     \/ Over(GatingWeekly(q, key), margin, key)
     \/ \E k \in Meters : Over(q[k].util, 0, k)

Lasts(until) == Known(until) /\ until > now

\* unavailable_reason_for.  Only "quota" is soft: it bars the ranking, not a
\* pin and not a revalidation.
Reason(F, a, q) ==
  CASE q.provider # "any" /\ ProviderOf[a] # q.provider -> "provider"
    [] a \in cfg.disabled                -> "disabled"
    [] F[a].status = "error"             -> "error"
    [] Lasts(F[a].until)                 -> "throttled"
    [] Lasts(F[a].denied)                -> "denied"
    [] ~RouteAllows(a, q.model)          -> "route"
    [] ~RouteAllows(a, q.advisor)        -> "advisor-route"
    [] Capped(F, a, q.model)             -> "capped"
    [] q.advisor # NoModel /\ Capped(F, a, q.advisor)    -> "advisor-capped"
    [] NearQuota(F, a, q.model)          -> "quota"
    [] q.advisor # NoModel /\ NearQuota(F, a, q.advisor) -> "advisor-quota"
    [] OTHER                             -> "none"

\* Anything the account can serve: no model, no advisor.
Plain(q) == [q EXCEPT !.model = NoModel, !.advisor = NoModel]

Serves(F, a, q)  == a \in Members /\ Reason(F, a, q) = "none"
Available(F, q, tried) == {a \in Members \ tried : Reason(F, a, q) = "none"}

---------------------------------------------------------------------------
\* Ranking.  An account's rank is a tuple; the lesser tuple goes first.

LexLess(s, t) ==
  \E i \in DOMAIN s : s[i] < t[i] /\ \A j \in 1 .. i - 1 : s[j] = t[j]

Load(F, a) ==
  IF cfg.distribute
  THEN <<SS!ActiveOn(tracker, a, now), SS!UnderWay(tracker, a, now) + F[a].flight>>
  ELSE <<0, 0>>

\* weekly_reset_for: by the model's own bucket, not the route's.
WeeklyResetFor(F, a, m) ==
  LET q == F[a].quota  w == WeeklyBucketFor(m)
  IN IF Known(q[w].reset) THEN q[w].reset ELSE q["7d"].reset

OrNever(r) == IF Known(r) THEN r ELSE Never

WeeklyResetKey(F, a, m) ==
  LET r == WeeklyResetFor(F, a, m) IN IF Lasts(r) THEN r ELSE Never

FiveHourDeadline(F, a) ==
  LET r == F[a].quota["5h"].reset IN IF Lasts(r) THEN r ELSE now + FiveWindow

\* pressure: spendable headroom over the time left to spend it.
Spendable(b) == Whole - Min({b.util, Whole})
Measured(b)  == Known(b.util) /\ Known(b.reset)
Pressure(b) ==
  IF ~Known(b.reset) THEN (Spendable(b) * Unit) \div WeekWindow
  ELSE IF b.reset > now THEN (Spendable(b) * Unit) \div (b.reset - now) ELSE 0

Governing(F, a, m) == F[a].quota[WeeklyKeyFor(m)]
Prio(a) == cfg.prio[a]
TopTier(V) == {a \in V : \A b \in V : Prio(a) <= Prio(b)}

\* The highest pressure known for the top tier, if any is.
Pressures(F, V, m) == {Pressure(Governing(F, a, m)) :
                         a \in {x \in TopTier(V) : Measured(Governing(F, x, m))}}

\* band: of the top tier, those within the tolerance of that pressure, and
\* those nobody has read yet.
Kept(F, V, m) ==
  LET P == Pressures(F, V, m)
      Near(a) == LET b == Governing(F, a, m)
                 IN ~Known(b.util) \/ Pressure(b) * cfg.tolerance >= Max(P)
  IN IF Cardinality(V) <= 1 \/ P = {} THEN V
     ELSE {a \in V : a \in TopTier(V) => Near(a)}

BandRank(F, V, a, m) ==
  LET b == Governing(F, a, m)
  IN IF Cardinality(V) <= 1 \/ Pressures(F, V, m) = {} THEN <<>>
     ELSE <<Prio(a), IF Known(b.util) THEN -Pressure(b) ELSE -Never * Unit>>

DefaultRank(F, a, m) == <<Prio(a)>> \o Load(F, a) \o <<OrNever(WeeklyResetFor(F, a, m))>>

Steps(t, from, width) == IF t = Never THEN Never ELSE (t - from) \div width

\* soonest_reset_bands of a among V: priority, weekly band, 5h band.
WeekBandOf(F, V, a, m) ==
  LET tier == {b \in V : Prio(b) = Prio(a)}
  IN Steps(WeeklyResetKey(F, a, m), Min({WeeklyResetKey(F, b, m) : b \in tier}), WeekBand)

Bands(F, V, a, m) ==
  LET peers == {b \in V : Prio(b) = Prio(a)
                          /\ WeekBandOf(F, V, b, m) = WeekBandOf(F, V, a, m)}
  IN <<Prio(a), WeekBandOf(F, V, a, m),
       Steps(FiveHourDeadline(F, a), Min({FiveHourDeadline(F, b) : b \in peers}), FiveBand)>>

SoonestRank(F, V, a, m) ==
  IF cfg.soonest
  THEN Bands(F, V, a, m) \o Load(F, a)
       \o <<WeeklyResetKey(F, a, m), FiveHourDeadline(F, a)>>
  ELSE <<>>

\* The sorts are stable, so the order of the file decides last.
Rank(F, all, V, a, m) ==
  SoonestRank(F, V, a, m)
  \o (IF cfg.expiry THEN BandRank(F, all, a, m) ELSE DefaultRank(F, a, m))
  \o <<Place(a)>>

\* ranked_available, its first account.
Best(F, q, tried) ==
  LET all == Available(F, q, tried)
      V   == IF cfg.expiry THEN Kept(F, all, q.model) ELSE all
  IN IF V = {} THEN NoAccount
     ELSE CHOOSE a \in V : \A b \in V \ {a} :
            LexLess(Rank(F, all, V, a, q.model), Rank(F, all, V, b, q.model))

---------------------------------------------------------------------------
\* What moves a request off the account it sits on.

\* soonest_reset_preempts.
Preempts(F, best, a, q, tried) ==
  LET V == Available(F, q, tried)
  IN /\ cfg.soonest /\ best # a /\ {a, best} \subseteq V
     /\ LexLess(Bands(F, V, best, q.model), Bands(F, V, a, q.model))

\* Mutants: a request leaves its account for a better band alone, for a
\* better priority alone, or for whatever ranks first.
BetterBand(F, a, q, tried) ==
  \E best \in {Best(F, q, tried)} \ {NoAccount} : Preempts(F, best, a, q, tried)
BetterPriority(F, a, q, tried) ==
  \E best \in {Best(F, q, tried)} \ {NoAccount} : Prio(best) < Prio(a)
BetterAtAll(F, a, q, tried) == Best(F, q, tried) \notin {NoAccount, a}

Better(F, a, q, tried) ==
  \E best \in {Best(F, q, tried)} \ {NoAccount} :
    Prio(best) < Prio(a) \/ Preempts(F, best, a, q, tried)

Watching == cfg.expiry /\ cfg.preempt

\* rolled_over: the governing window is not the one noted.
RolledOver(F, a, m) ==
  LET w == WeeklyKeyFor(m)
  IN /\ Watching /\ Known(F[a].quota[w].reset) /\ Known(F[a].baseline[w])
     /\ F[a].quota[w].reset > F[a].baseline[w]

Noted(F, a, m) ==
  LET w == WeeklyKeyFor(m)
  IN IF Watching /\ Known(F[a].quota[w].reset)
     THEN [F EXCEPT ![a].baseline[w] = F[a].quota[w].reset] ELSE F

\* set_current, but for the storm ramp it begins.
Landed(F, a) ==
  IF a = current THEN F
  ELSE [F EXCEPT ![a].probing = ~Known(F[a].quota["7d"].reset)]

---------------------------------------------------------------------------
\* The accounts after clear_expired_all.
Lapsed(x) ==
  IF Known(x.until) /\ x.until <= now
  THEN [x EXCEPT !.until = Unknown, !.hold = FALSE,
                 !.status = IF @ = "throttled" THEN "active" ELSE @]
  ELSE x

Expired ==
  [a \in Accounts |->
     IF a \in Members
     THEN [Lapsed(acct[a]) EXCEPT !.quota = ClearExpired(@, cfg.threshold, now)]
     ELSE acct[a]]

\* Where the session of q may sit: its pin for the bucket, else, when new
\* sessions are spread, any pin it has.
Seats(q) ==
  IF q.session = NoSession THEN {}
  ELSE LET p == SS!PinnedAccount(tracker, q.session, WeeklyKeyFor(q.model))
       IN IF p # NoAccount THEN {p}
          ELSE IF cfg.distribute THEN SS!AnyPin(tracker, q.session) ELSE {}

Stays(F, a, q, tried) ==
  a \notin tried /\ Serves(F, a, q) /\ ~Better(F, a, q, tried) /\ ~RolledOver(F, a, q.model)

RoutePinned(q) ==
  IF q.model # NoModel /\ RoutesFor(q.model) # {}
  THEN routePin[RouteFor(q.model).name] ELSE NoAccount

Soft(F, q, tried) ==
  {a \in Members \ tried : /\ Reason(F, a, q) = "quota"
                           /\ ~(Known(F[a].probed) /\ now - F[a].probed < ProbeFloor)}

\* The soft account whose window resets first; the file's order decides.
ToProbe(F, q, tried) ==
  LET R(a) == <<LET w == WeeklyResetFor(F, a, q.model)
                IN IF Known(w) THEN w ELSE OrNever(F[a].quota["5h"].reset), Place(a)>>
      S == Soft(F, q, tried)
  IN CHOOSE a \in S : \A b \in S \ {a} : LexLess(R(a), R(b))

\* The mark of a cursor to be chosen afresh is taken by whoever gets that far.
Taken(F) == IF current = NoAccount THEN F ELSE [F EXCEPT ![current].requalify = FALSE]

\* How a call of select ends: the path that answered it, the account, the
\* fleet and the cursor it leaves.  A path is the set of its one outcome, or
\* empty where it does not apply.
On(via, a, F)     == [via |-> via, at |-> a, fleet |-> F, cursor |-> current]
Moving(via, a, F) == [On(via, a, F) EXCEPT !.cursor = a]
When(applies, outcome) == IF applies THEN {outcome} ELSE {}

\* 1. A pin bypasses the threshold, never a hard exclusion, and never falls
\* through.
PinPath(F, q) ==
  LET via == IF q.pin \notin Members THEN "unknown"
             ELSE IF Reason(F, q.pin, q) \in {"none", "quota"} THEN "pin" ELSE "refused"
  IN When(q.pin # NoAccount, On(via, IF via = "pin" THEN q.pin ELSE NoAccount, F))

\* 2. The operator's pin of a route.
RoutePinPath(F, q, tried) ==
  LET a == RoutePinned(q)
  IN When(a # NoAccount /\ a \notin tried /\ Serves(F, a, q), On("routePin", a, F))

\* 3. The account the session sits on; else a new seat when sessions are
\* spread, leaving the cursor alone while it can serve anything.
SeatPath(F, q, tried, seat) ==
  When(seat # NoAccount /\ Stays(F, seat, q, tried), On("seat", seat, Noted(F, seat, q.model)))

CursorServes(F, q) == current # NoAccount /\ Serves(F, current, Plain(q))

SpreadPath(F, q, best) ==
  When(q.session # NoSession /\ cfg.distribute /\ best # NoAccount,
       IF CursorServes(F, q) THEN On("spread", best, F)
                             ELSE Moving("spread", best, Landed(F, best)))

\* 4. The cursor: chosen afresh once when it has just learned its weekly
\* window, kept while nothing better is there, and left where it is when
\* only this request is barred from it.
RequalifyPath(F, q, best) ==
  When(current # NoAccount /\ F[current].requalify /\ best # NoAccount,
       Moving("requalified", best, Noted(Landed(Taken(F), best), best, q.model)))

CursorPath(F, q, tried) ==
  When(current # NoAccount /\ Stays(F, current, q, tried),
       On("cursor", current, Noted(F, current, q.model)))

BarredHere(F, q, tried) == current # NoAccount /\ (current \in tried \/ ~Serves(F, current, q))

DivertPath(F, q, tried, best) ==
  When(BarredHere(F, q, tried) /\ best # NoAccount,
       IF current \notin tried /\ CursorServes(F, q)
       THEN On("diverted", best, Landed(F, best))
       ELSE Moving("failedOver", best, Landed(F, best)))

\* 5. The best account.
BestPath(F, q, best) ==
  When(best # NoAccount, Moving("best", best, Noted(Landed(F, best), best, q.model)))

\* 6. Nothing under the threshold: revalidate one reading, or give up.
ProbePath(F, q, tried) ==
  When(Soft(F, q, tried) # {},
       LET a == ToProbe(F, q, tried) IN On("probe", a, [F EXCEPT ![a].probed = now]))

\* The first path that applies.
Else(path, others) == IF path # {} THEN path ELSE others

Paths(F, T, q, tried, seat, best) ==
  Else(PinPath(F, q),
  Else(RoutePinPath(F, q, tried),
  Else(SeatPath(F, q, tried, seat),
  Else(SpreadPath(F, q, best),
  Else(RequalifyPath(F, q, best),
  Else(CursorPath(T, q, tried),
  Else(DivertPath(T, q, tried, best),
  Else(BestPath(T, q, best),
  Else(ProbePath(T, q, tried),
       {On("exhausted", NoAccount, T)})))))))))

SelectIn(F, q, tried, seat) ==
  CHOOSE out \in Paths(F, Taken(F), q, tried, seat, Best(F, q, tried)) : TRUE

\* Fleet::select for the request q that tried some accounts, its session
\* sitting on seat.
Select(q, tried, seat) == SelectIn(Expired, q, tried, seat)

=============================================================================
