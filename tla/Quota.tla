------------------------------- MODULE Quota -------------------------------
(***************************************************************************)
(* The quota readings of an account and how they change: from the response *)
(* headers of either provider, from the usage endpoint, and by the passing *)
(* of their windows.  Utilizations are in steps; times are in ticks.       *)
(***************************************************************************)
EXTENDS Integers, FiniteSetsExt

CONSTANTS Families,      \* the model families with a weekly bucket of their own
          SameWindow,    \* SAME_WINDOW_SLOP_MS
          FamilyStale    \* family_stale_ms

Unknown == -1

Shared  == {"5h", "7d"}
Windows == Shared \cup Families
Meters  == {"tokens", "requests"}   \* what API keys report instead
Keys    == Windows \cup Meters

\* A meter's reset is the one time that API-key answers carry (resets_at).
Blank    == [util |-> Unknown, reset |-> Unknown, seen |-> Unknown]
NoQuota  == [k \in Keys |-> Blank]
Bucket(times, utils) == [util : utils \cup {Unknown}, reset : times \cup {Unknown},
                         seen : times \cup {Unknown}]

Known(x) == x # Unknown

---------------------------------------------------------------------------
\* What gates a request on the weekly bucket w: families meter twice.
GatingWeekly(q, w) == Max({q[w].util, q["7d"].util})

IsReset(b, now) == Known(b.reset) /\ b.reset <= now

Stale(b, limit, now) ==
  Known(b.util) /\ Known(b.seen) /\ b.util >= limit /\ now - b.seen > FamilyStale

\* Windows that have rolled over, and spent family readings nobody renewed,
\* are dropped.
ClearExpired(q, limit, now) ==
  [k \in Keys |-> IF \/ k \in Windows /\ IsReset(q[k], now)
                     \/ k \in Families /\ Stale(q[k], limit[k], now)
                  THEN Blank ELSE q[k]]

---------------------------------------------------------------------------
\* Each field a response carries replaces what was held.
ApplyHeaders(q, h, now) ==
  [k \in Keys |->
     [util  |-> IF Known(h[k].util) THEN h[k].util ELSE q[k].util,
      reset |-> IF Known(h[k].reset) THEN h[k].reset ELSE q[k].reset,
      seen  |-> IF Known(h[k].util) THEN now ELSE q[k].seen]]

\* The other provider's windows are replaced whole, by their length and
\* never by their position among the headers.
ApplyCodexHeaders(q, h, now) ==
  [k \in Keys |-> IF k \in Shared /\ Known(h[k].util)
                  THEN [util |-> h[k].util, reset |-> h[k].reset, seen |-> now]
                  ELSE q[k]]

SameReset(b, c) ==
  /\ Known(b.reset) /\ Known(c.reset)
  /\ c.reset - b.reset \in -SameWindow .. SameWindow

\* The usage endpoint lags: lower in the same window is not taken.
Take(b, c, now) ==
  IF SameReset(b, c) /\ Known(b.util) /\ Known(c.util) /\ c.util < b.util
  THEN b ELSE [util  |-> IF Known(c.util) THEN c.util ELSE b.util,
               reset |-> c.reset,
               seen  |-> IF Known(c.util) THEN now ELSE b.seen]

\* u.of: the windows the payload reports.  One that lists the scoped caps
\* and leaves a family out says that it has none.
ApplyUsage(q, u, now) ==
  [k \in Keys |-> CASE k \in DOMAIN u.of            -> Take(q[k], u.of[k], now)
                    [] k \in Families /\ u.listed /\ k \notin DOMAIN u.of -> Blank
                    [] OTHER                        -> q[k]]

=============================================================================
