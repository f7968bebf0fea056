------------------------------ MODULE Sessions ------------------------------
(***************************************************************************)
(* SessionTracker: the Claude Code sessions seen lately, the accounts they *)
(* are pinned to and the requests each has under way.  A tracker is        *)
(* [known |-> the sessions by id, swept |-> the time of the last sweep].   *)
(***************************************************************************)
EXTENDS Integers, FiniteSets, Functions

CONSTANTS MaxSessions,   \* MAX_SESSIONS
          KnownTtl,      \* SESSION_KNOWN_TTL_MS
          ActiveTtl,     \* SESSION_ACTIVE_TTL_MS
          SweepInterval, \* SWEEP_INTERVAL_MS
          Weekly,        \* the buckets a session is pinned by
          NoAccount

NoTracker == [known |-> <<>>, swept |-> 0]
Stranger(now) == [pins |-> [w \in Weekly |-> NoAccount], last |-> now, flight |-> 0]

Tracked(t, id)  == id \in DOMAIN t.known
Recent(s, now)  == s.flight > 0 \/ now - s.last < KnownTtl
IsActive(s, now) == s.flight > 0 \/ now - s.last < ActiveTtl

\* Mutant: a session under way goes with the idle ones.
SweepBusy(t, now) ==
  [known |-> Restrict(t.known, {id \in DOMAIN t.known : now - t.known[id].last < KnownTtl}),
   swept |-> now]

Sweep(t, now) ==
  [known |-> Restrict(t.known, {id \in DOMAIN t.known : Recent(t.known[id], now)}),
   swept |-> now]

\* Mutant: the cap is checked one session late.
FullLate(t) == Cardinality(DOMAIN t.known) > MaxSessions

Full(t) == Cardinality(DOMAIN t.known) >= MaxSessions

\* The longest-idle sessions, of which a full tracker forgets one.
Evictable(t) ==
  LET idle == {id \in DOMAIN t.known : t.known[id].flight = 0}
  IN {id \in idle : \A other \in idle : t.known[id].last <= t.known[other].last}

Without(t, id) == [t EXCEPT !.known = Restrict(@, DOMAIN @ \ {id})]

\* The trackers that may have room for one more; none may have it.
Rooms(t, now) ==
  IF ~Full(t) THEN {t}
  ELSE LET s == Sweep(t, now)
       IN IF ~Full(s) \/ Evictable(s) = {} THEN {s} ELSE {Without(s, id) : id \in Evictable(s)}

\* ensure: afterwards id is known, unless every session is busy.
Ensured(t, id, now) ==
  IF Tracked(t, id) THEN {t}
  ELSE {IF Full(s) THEN s
        ELSE [s EXCEPT !.known = [x \in DOMAIN s.known \cup {id} |->
                                    IF x = id THEN Stranger(now) ELSE s.known[x]]] :
        s \in Rooms(t, now)}

\* A session with n requests under way, seen now.
Counting(s, n, now) == [s EXCEPT !.flight = n, !.last = now]

\* begin_request: the trackers it may leave.
Begun(t, id, now) ==
  {IF Tracked(s, id)
   THEN [s EXCEPT !.known[id] = Counting(@, s.known[id].flight + 1, now)] ELSE s :
   s \in Ensured(t, id, now)}

Less1(n) == IF n = 0 THEN 0 ELSE n - 1

Ended(t, id, now) ==
  LET s == IF Tracked(t, id)
           THEN [t EXCEPT !.known[id] = Counting(@, Less1(t.known[id].flight), now)] ELSE t
  IN IF now - s.swept > SweepInterval THEN Sweep(s, now) ELSE s

\* touch: the session was served by account a for bucket w.
Touched(t, id, a, w, now) ==
  {IF Tracked(s, id)
   THEN [s EXCEPT !.known[id] = [@ EXCEPT !.last = now, !.pins[w] = a]] ELSE s :
   s \in Ensured(t, id, now)}

PinnedAccount(t, id, w) == IF Tracked(t, id) THEN t.known[id].pins[w] ELSE NoAccount

\* any_pin: whichever the map yields first.
AnyPin(t, id) ==
  IF Tracked(t, id) THEN {t.known[id].pins[w] : w \in Weekly} \ {NoAccount} ELSE {}

\* remap_accounts.
Remapped(t, live) ==
  [t EXCEPT !.known = [id \in DOMAIN t.known |->
     [t.known[id] EXCEPT !.pins = [w \in Weekly |-> IF @[w] \in live THEN @[w] ELSE NoAccount]]]]

\* stats: an account's active sessions, and the requests its sessions have
\* under way, each named by its session and a number.
Of(t, a, now) == {id \in DOMAIN t.known : Recent(t.known[id], now)
                                          /\ \E w \in Weekly : t.known[id].pins[w] = a}
ActiveOn(t, a, now)  == Cardinality({id \in Of(t, a, now) : IsActive(t.known[id], now)})
UnderWay(t, a, now)  ==
  Cardinality(UNION {{id} \X (1 .. t.known[id].flight) : id \in Of(t, a, now)})

=============================================================================
