--------------------------- MODULE Routing_proofs ---------------------------
(* Proofs about Routing for any requests, sessions, accounts, configurations *)
(* and answers: that the tracker counts exactly the requests under way, that *)
(* everything has its type, that no request goes to an account while a       *)
(* better one could serve it, and that a session stays where it was served.  *)
EXTENDS Routing, FiniteSetTheorems, WellFoundedInduction, SequenceTheorems, TLAPS

-----------------------------------------------------------------------------
\* Lemmas on the tracker.

IsSession(s) == s \in [pins : {s.pins}, last : {s.last}, flight : Nat]

IsTracker(t) == /\ t \in [known : {t.known}, swept : {t.swept}]
                /\ t.known = [id \in DOMAIN t.known |-> t.known[id]]
                /\ \A id \in DOMAIN t.known : IsSession(t.known[id])

\* The requests of a session that a tracker counts.
InFlight(t, id) == IF SS!Tracked(t, id) THEN t.known[id].flight ELSE 0

SameFlights(t, u) == IsTracker(u) /\ \A id : InFlight(u, id) = InFlight(t, id)

LEMMA FlightIsNat ==
  ASSUME NEW t, IsTracker(t), NEW id
  PROVE  InFlight(t, id) \in Nat
BY DEF InFlight, IsTracker, IsSession, SS!Tracked

LEMMA NewTracker == IsTracker(SS!NoTracker) /\ \A id : InFlight(SS!NoTracker, id) = 0
BY DEF SS!NoTracker, IsTracker, InFlight, SS!Tracked

\* Forgetting sessions that have nothing under way changes no count.
LEMMA Forgetting ==
  ASSUME NEW t, IsTracker(t), NEW keep \in SUBSET DOMAIN t.known,
         \A id \in DOMAIN t.known \ keep : t.known[id].flight = 0,
         NEW u, u.known = SS!Restrict(t.known, keep), u \in [known : {u.known}, swept : {u.swept}]
  PROVE  SameFlights(t, u)
<1>1. u.known = [id \in keep |-> t.known[id]] /\ DOMAIN u.known = keep
  BY DEF SS!Restrict
<1>2. \A id \in keep : u.known[id] = t.known[id]
  BY <1>1
<1>3. IsTracker(u)
  BY <1>1, <1>2 DEF IsTracker
<1> QED BY <1>1, <1>2, <1>3 DEF SameFlights, InFlight, SS!Tracked

LEMMA SweepKeeps ==
  ASSUME NEW t, IsTracker(t), NEW at
  PROVE  SameFlights(t, SS!Sweep(t, at))
<1> DEFINE keep == {id \in DOMAIN t.known : SS!Recent(t.known[id], at)}
           u == SS!Sweep(t, at)
<1>1. u.known = SS!Restrict(t.known, keep) /\ u \in [known : {u.known}, swept : {u.swept}]
  BY DEF SS!Sweep
<1>2. \A id \in DOMAIN t.known \ keep : t.known[id].flight = 0
  BY DEF SS!Recent, IsTracker, IsSession
<1> HIDE DEF u
<1>3. keep \in SUBSET DOMAIN t.known
  OBVIOUS
<1> HIDE DEF keep
<1> QED BY <1>1, <1>2, <1>3, Forgetting DEF u

LEMMA RoomsKeep ==
  ASSUME NEW t, IsTracker(t), NEW at, NEW u \in SS!Rooms(t, at)
  PROVE  SameFlights(t, u)
<1> DEFINE s == SS!Sweep(t, at)
<1>1. SameFlights(t, t)
  BY DEF SameFlights
<1>2. SameFlights(t, s)
  BY SweepKeeps
<1>3. u = t \/ u = s \/ \E id \in SS!Evictable(s) : u = SS!Without(s, id)
  BY DEF SS!Rooms
<1> HIDE DEF s
<1>4. ASSUME NEW id \in SS!Evictable(s), u = SS!Without(s, id) PROVE SameFlights(t, u)
  <2>1. id \in DOMAIN s.known /\ s.known[id].flight = 0
    BY <1>4 DEF SS!Evictable
  <2>2. u = [s EXCEPT !.known = SS!Restrict(s.known, DOMAIN s.known \ {id})]
    BY <1>4 DEF SS!Without
  <2>3. /\ u.known = SS!Restrict(s.known, DOMAIN s.known \ {id})
        /\ u \in [known : {u.known}, swept : {u.swept}]
    BY <1>2, <2>2 DEF SameFlights, IsTracker
  <2>4. SameFlights(s, u)
    BY <1>2, <2>1, <2>3, Forgetting DEF SameFlights
  <2> QED BY <1>2, <2>4 DEF SameFlights
<1> QED BY <1>1, <1>2, <1>3, <1>4

LEMMA EnsuredKeeps ==
  ASSUME NEW t, IsTracker(t), NEW id, NEW at, NEW u \in SS!Ensured(t, id, at)
  PROVE  SameFlights(t, u)
<1>1. CASE SS!Tracked(t, id)
  BY <1>1 DEF SS!Ensured, SameFlights
<1>2. CASE ~SS!Tracked(t, id)
  <2>1. PICK s \in SS!Rooms(t, at) :
          u = IF SS!Full(s) THEN s
              ELSE [s EXCEPT !.known = [x \in DOMAIN s.known \cup {id} |->
                                          IF x = id THEN SS!Stranger(at) ELSE s.known[x]]]
    BY <1>2 DEF SS!Ensured
  <2>2. SameFlights(t, s)
    BY RoomsKeep
  <2>3. InFlight(s, id) = 0
    BY <1>2, <2>2 DEF SameFlights, InFlight
  <2>4. CASE SS!Full(s)
    BY <2>1, <2>2, <2>4
  <2>5. CASE ~SS!Full(s)
    <3>1. u = [s EXCEPT !.known = [x \in DOMAIN s.known \cup {id} |->
                                     IF x = id THEN SS!Stranger(at) ELSE s.known[x]]]
      BY <2>1, <2>5
    <3>2. /\ u.known = [x \in DOMAIN s.known \cup {id} |-> IF x = id THEN SS!Stranger(at) ELSE s.known[x]]
          /\ u \in [known : {u.known}, swept : {u.swept}]
      BY <2>2, <3>1 DEF SameFlights, IsTracker
    <3>3. IsSession(SS!Stranger(at)) /\ SS!Stranger(at).flight = 0
      BY DEF SS!Stranger, IsSession
    <3>4. IsTracker(u)
      BY <2>2, <3>2, <3>3 DEF SameFlights, IsTracker
    <3>5. \A x : InFlight(u, x) = InFlight(s, x)
      BY <2>3, <3>2, <3>3 DEF InFlight, SS!Tracked
    <3> QED BY <2>2, <3>4, <3>5 DEF SameFlights
  <2> QED BY <2>4, <2>5
<1> QED BY <1>1, <1>2

\* One more for id where it is tracked, none for the others.
LEMMA BegunDoes ==
  ASSUME NEW t, IsTracker(t), NEW id, NEW at, NEW u \in SS!Begun(t, id, at)
  PROVE  /\ IsTracker(u) /\ \A x : x # id => InFlight(u, x) = InFlight(t, x)
         /\ SS!Tracked(u, id) => InFlight(u, id) = InFlight(t, id) + 1
<1>1. PICK s \in SS!Ensured(t, id, at) :
        u = IF SS!Tracked(s, id)
            THEN [s EXCEPT !.known[id] = [s.known[id] EXCEPT !.flight = s.known[id].flight + 1, !.last = at]]
            ELSE s
  BY DEF SS!Begun, SS!Counting
<1>2. SameFlights(t, s)
  BY EnsuredKeeps
<1>3. CASE ~SS!Tracked(s, id)
  BY <1>1, <1>2, <1>3 DEF SameFlights
<1>4. CASE SS!Tracked(s, id)
  <2> DEFINE n == s.known[id].flight + 1
             e == [s.known[id] EXCEPT !.flight = n, !.last = at]
  <2>1. IsSession(s.known[id]) /\ s.known = [x \in DOMAIN s.known |-> s.known[x]]
    BY <1>2, <1>4 DEF SameFlights, IsTracker, SS!Tracked
  <2>2. n \in Nat
    BY <2>1 DEF IsSession
  <2> HIDE DEF n
  <2>8. IsSession(e) /\ e.flight = n
    BY <2>1, <2>2 DEF IsSession
  <2>3. u = [s EXCEPT !.known[id] = e]
    BY <1>1, <1>4 DEF n
  <2> HIDE DEF e
  <2>4. u.known = [s.known EXCEPT ![id] = e] /\ u \in [known : {u.known}, swept : {u.swept}]
    BY <1>2, <2>3 DEF SameFlights, IsTracker
  <2>5. /\ u.known = [x \in DOMAIN s.known |-> u.known[x]] /\ DOMAIN u.known = DOMAIN s.known
        /\ u.known[id] = e /\ \A x \in DOMAIN s.known \ {id} : u.known[x] = s.known[x]
    BY <1>4, <2>1, <2>4 DEF SS!Tracked
  <2>6. IsTracker(u)
    BY <1>2, <2>4, <2>5, <2>8 DEF SameFlights, IsTracker
  <2>7. /\ InFlight(u, id) = InFlight(s, id) + 1
        /\ \A x : x # id => InFlight(u, x) = InFlight(s, x)
    BY <1>4, <2>5, <2>8 DEF InFlight, SS!Tracked, n
  <2> QED BY <1>2, <2>6, <2>7 DEF SameFlights
<1> QED BY <1>3, <1>4

\* One less for id, if there is one.
LEMMA EndedDoes ==
  ASSUME NEW t, IsTracker(t), NEW id, NEW at
  PROVE  /\ IsTracker(SS!Ended(t, id, at))
         /\ \A x : x # id => InFlight(SS!Ended(t, id, at), x) = InFlight(t, x)
         /\ InFlight(SS!Ended(t, id, at), id) = SS!Less1(InFlight(t, id))
<1> DEFINE s == IF SS!Tracked(t, id)
                THEN [t EXCEPT !.known[id] = [t.known[id] EXCEPT !.flight = SS!Less1(t.known[id].flight), !.last = at]]
                ELSE t
<1>1. SS!Ended(t, id, at) = IF at - s.swept > SweepInterval THEN SS!Sweep(s, at) ELSE s
  BY DEF SS!Ended, SS!Counting
<1>2. /\ IsTracker(s) /\ \A x : x # id => InFlight(s, x) = InFlight(t, x)
      /\ InFlight(s, id) = SS!Less1(InFlight(t, id))
  <2>1. CASE ~SS!Tracked(t, id)
    BY <2>1 DEF InFlight, SS!Less1
  <2>2. CASE SS!Tracked(t, id)
    <3> DEFINE n == SS!Less1(t.known[id].flight)
               e == [t.known[id] EXCEPT !.flight = n, !.last = at]
    <3>1. IsSession(t.known[id]) /\ t.known = [x \in DOMAIN t.known |-> t.known[x]] /\ id \in DOMAIN t.known
      BY <2>2 DEF IsTracker, SS!Tracked
    <3>2. n \in Nat
      BY <3>1 DEF IsSession, SS!Less1
    <3> HIDE DEF n
    <3>3. IsSession(e) /\ e.flight = n
      BY <3>1, <3>2 DEF IsSession
    <3>4. s = [t EXCEPT !.known[id] = e]
      BY <2>2 DEF n
    <3> HIDE DEF e, s
    <3>5. s.known = [t.known EXCEPT ![id] = e] /\ s \in [known : {s.known}, swept : {s.swept}]
      BY <3>4 DEF IsTracker
    <3>6. /\ s.known = [x \in DOMAIN t.known |-> s.known[x]] /\ DOMAIN s.known = DOMAIN t.known
          /\ s.known[id] = e /\ \A x \in DOMAIN t.known \ {id} : s.known[x] = t.known[x]
      BY <3>1, <3>5
    <3>7. IsTracker(s)
      BY <3>3, <3>5, <3>6 DEF IsTracker
    <3>8. /\ InFlight(s, id) = n /\ InFlight(t, id) = t.known[id].flight
          /\ \A x : x # id => InFlight(s, x) = InFlight(t, x)
      BY <3>1, <3>3, <3>6 DEF InFlight, SS!Tracked
    <3> QED BY <3>7, <3>8 DEF n
  <2> QED BY <2>1, <2>2
<1> HIDE DEF s
<1>3. SameFlights(s, SS!Sweep(s, at))
  BY <1>2, SweepKeeps
<1> QED BY <1>1, <1>2, <1>3 DEF SameFlights

LEMMA TouchedKeeps ==
  ASSUME NEW t, IsTracker(t), NEW id, NEW a, NEW w, NEW at, NEW u \in SS!Touched(t, id, a, w, at)
  PROVE  SameFlights(t, u)
<1>1. PICK s \in SS!Ensured(t, id, at) :
        u = IF SS!Tracked(s, id)
            THEN [s EXCEPT !.known[id] = [s.known[id] EXCEPT !.last = at, !.pins[w] = a]] ELSE s
  BY DEF SS!Touched
<1>2. SameFlights(t, s)
  BY EnsuredKeeps
<1>3. CASE ~SS!Tracked(s, id)
  BY <1>1, <1>2, <1>3
<1>4. CASE SS!Tracked(s, id)
  <2> DEFINE p == [s.known[id].pins EXCEPT ![w] = a]
             e == [s.known[id] EXCEPT !.last = at, !.pins = p]
  <2>1. IsSession(s.known[id]) /\ s.known = [x \in DOMAIN s.known |-> s.known[x]] /\ id \in DOMAIN s.known
    BY <1>2, <1>4 DEF SameFlights, IsTracker, SS!Tracked
  <2>2. IsSession(e) /\ e.flight = s.known[id].flight
    BY <2>1 DEF IsSession
  <2>3. u = [s EXCEPT !.known[id] = e]
    BY <1>1, <1>4
  <2> HIDE DEF e
  <2>4. u.known = [s.known EXCEPT ![id] = e] /\ u \in [known : {u.known}, swept : {u.swept}]
    BY <1>2, <2>3 DEF SameFlights, IsTracker
  <2>5. /\ u.known = [x \in DOMAIN s.known |-> u.known[x]] /\ DOMAIN u.known = DOMAIN s.known
        /\ u.known[id] = e /\ \A x \in DOMAIN s.known \ {id} : u.known[x] = s.known[x]
    BY <2>1, <2>4
  <2>6. IsTracker(u)
    BY <1>2, <2>2, <2>4, <2>5 DEF SameFlights, IsTracker
  <2>7. \A x : InFlight(u, x) = InFlight(s, x)
    BY <2>2, <2>5 DEF InFlight, SS!Tracked
  <2> QED BY <1>2, <2>6, <2>7 DEF SameFlights
<1> QED BY <1>3, <1>4

LEMMA RemappedKeeps ==
  ASSUME NEW t, IsTracker(t), NEW live
  PROVE  SameFlights(t, SS!Remapped(t, live))
<1> DEFINE Pins(id) == [w \in Weekly |-> IF t.known[id].pins[w] \in live THEN t.known[id].pins[w] ELSE NoAccount]
           known == [id \in DOMAIN t.known |-> [t.known[id] EXCEPT !.pins = Pins(id)]]
           u == SS!Remapped(t, live)
<1>1. u = [t EXCEPT !.known = known]
  BY DEF SS!Remapped
<1> HIDE DEF u
<1>2. \A id \in DOMAIN t.known : IsSession(known[id]) /\ known[id].flight = t.known[id].flight
  BY DEF IsTracker, IsSession
<1> HIDE DEF known
<1>3. u.known = known /\ u \in [known : {u.known}, swept : {u.swept}]
  BY <1>1 DEF IsTracker
<1>4. DOMAIN known = DOMAIN t.known /\ known = [id \in DOMAIN known |-> known[id]]
  BY DEF known
<1>5. IsTracker(u)
  BY <1>2, <1>3, <1>4 DEF IsTracker
<1>6. \A x : InFlight(u, x) = InFlight(t, x)
  BY <1>2, <1>3, <1>4 DEF InFlight, SS!Tracked
<1> QED BY <1>5, <1>6 DEF SameFlights, u

-----------------------------------------------------------------------------
\* The requests under way.

IsRequest(q) == q \in [pc : {"idle", "asking", "sent", "body"}, kind : {q.kind}, at : {q.at}, tried : {q.tried},
                       counted : BOOLEAN]

Busy(q)        == q.pc \in {"asking", "sent"}
Running(rq, s) == {r \in Requests : Busy(rq[r]) /\ rq[r].kind.session = s}

\* A request of a session is counted, or the session is one the full tracker
\* once refused.
Noticed(q, rf) == LET s == q.kind.session
                  IN /\ s \in Sessions \cup {NoSession}
                     /\ \/ s = NoSession /\ ~q.counted
                        \/ s # NoSession /\ q.counted
                        \/ s \in rf

Matched(rq, t, lk, s) == InFlight(t, s) = lk[s] + Cardinality(Running(rq, s))

CountsOf(rq, t, lk, rf) ==
  /\ rq = [r \in Requests |-> rq[r]] /\ \A r \in Requests : IsRequest(rq[r])
  /\ lk \in [Sessions -> Nat] /\ rf \subseteq Sessions
  /\ \A r \in Requests : Busy(rq[r]) => Noticed(rq[r], rf)
  /\ IsTracker(t)
  /\ \A s \in Sessions \ rf : Matched(rq, t, lk, s)

Counts == CountsOf(req, tracker, leaked, refused)

LEMMA RunningIs ==
  ASSUME NEW rq, NEW s
  PROVE  IsFiniteSet(Running(rq, s)) /\ Cardinality(Running(rq, s)) \in Nat
<1>1. Running(rq, s) \subseteq Requests
  BY DEF Running
<1> QED BY <1>1, RequestsAssumption, FS_Subset, FS_CardinalityType

LEMMA IdleIs == IsRequest(Idle) /\ Idle.pc = "idle" /\ ~Idle.counted
BY DEF Idle, IsRequest

LEMMA InitCounts ==
  ASSUME Init
  PROVE  Counts
<1>1. req = [r \in Requests |-> Idle] /\ tracker = SS!NoTracker /\ leaked = [s \in Sessions |-> 0] /\ refused = {}
  BY DEF Init
<1>2. \A r \in Requests : IsRequest(req[r]) /\ ~Busy(req[r])
  BY <1>1, IdleIs DEF Busy
<1>3. \A s \in Sessions : Running(req, s) = {}
  BY <1>2 DEF Running
<1>4. IsTracker(tracker) /\ \A s \in Sessions : Matched(req, tracker, leaked, s)
  BY <1>1, <1>3, NewTracker, FS_EmptySet DEF Matched
<1> QED BY <1>1, <1>2, <1>4 DEF Counts, CountsOf

\* How the requests become those of new, of which only r moved.
Moves(rq, new, r) == /\ new = [q \in Requests |-> new[q]] /\ \A q \in Requests \ {r} : new[q] = rq[q]
                     /\ IsRequest(new[r])

LEMMA GoesDoes ==
  ASSUME Counts, NEW r \in Requests, NEW q, IsRequest(q), Goes(r, q)
  PROVE  req'[r] = q /\ Moves(req, req', r)
BY DEF Goes, Counts, CountsOf, Moves

\* How many run when one begins or ends.
LEMMA OneMoreRuns ==
  ASSUME NEW rq, NEW new, NEW r \in Requests, Moves(rq, new, r),
         ~Busy(rq[r]), Busy(new[r]), NEW k, k = new[r].kind.session
  PROVE  /\ Cardinality(Running(new, k)) = Cardinality(Running(rq, k)) + 1
         /\ \A s : s # k => Running(new, s) = Running(rq, s)
<1>1. Running(new, k) = Running(rq, k) \cup {r} /\ r \notin Running(rq, k)
  BY DEF Running, Moves
<1>2. Cardinality(Running(rq, k) \cup {r}) = Cardinality(Running(rq, k)) + 1
  BY <1>1, RunningIs, FS_AddElement
<1>3. \A s : s # k => Running(new, s) = Running(rq, s)
  BY DEF Running, Moves
<1> QED BY <1>1, <1>2, <1>3

LEMMA OneLessRuns ==
  ASSUME NEW rq, NEW new, NEW r \in Requests, Moves(rq, new, r),
         Busy(rq[r]), ~Busy(new[r]), NEW k, k = rq[r].kind.session
  PROVE  /\ Cardinality(Running(rq, k)) = Cardinality(Running(new, k)) + 1
         /\ \A s : s # k => Running(new, s) = Running(rq, s)
<1>1. Running(rq, k) = Running(new, k) \cup {r} /\ r \notin Running(new, k)
  BY DEF Running, Moves
<1>2. Cardinality(Running(new, k) \cup {r}) = Cardinality(Running(new, k)) + 1
  BY <1>1, RunningIs, FS_AddElement
<1>3. \A s : s # k => Running(new, s) = Running(rq, s)
  BY DEF Running, Moves
<1> QED BY <1>1, <1>2, <1>3

LEMMA SameRuns ==
  ASSUME NEW rq, NEW new, NEW r \in Requests, Moves(rq, new, r),
         Busy(rq[r]) <=> Busy(new[r]), Busy(new[r]) => new[r].kind = rq[r].kind
  PROVE  \A s : Running(new, s) = Running(rq, s)
BY DEF Running, Moves

-----------------------------------------------------------------------------
\* What a step of one request does to the counts.

LEMMA TypedMove ==
  ASSUME NEW rq, NEW t, NEW lk, NEW rf, CountsOf(rq, t, lk, rf), NEW new, NEW r \in Requests, Moves(rq, new, r)
  PROVE  /\ new = [q \in Requests |-> new[q]] /\ \A q \in Requests : IsRequest(new[q])
         /\ \A q \in Requests \ {r} : Busy(new[q]) => Noticed(new[q], rf)
BY DEF CountsOf, Moves

\* A request goes on, or a body ends: nothing is counted.
LEMMA GoesOn ==
  ASSUME NEW rq, NEW t, NEW lk, NEW rf, CountsOf(rq, t, lk, rf), NEW new, NEW r \in Requests, Moves(rq, new, r),
         Busy(rq[r]) <=> Busy(new[r]),
         Busy(new[r]) => new[r].kind = rq[r].kind /\ new[r].counted = rq[r].counted
  PROVE  CountsOf(new, t, lk, rf)
<1>1. \A s : Running(new, s) = Running(rq, s)
  BY SameRuns
<1>2. \A s \in Sessions \ rf : Matched(new, t, lk, s)
  BY <1>1 DEF Matched, CountsOf
<1>3. Busy(new[r]) => Noticed(new[r], rf)
  BY DEF Noticed, CountsOf
<1> QED BY <1>2, <1>3, TypedMove DEF CountsOf

\* The tracker moves, and no count with it.
LEMMA TrackerMoves ==
  ASSUME NEW rq, NEW t, NEW lk, NEW rf, CountsOf(rq, t, lk, rf), NEW u, SameFlights(t, u)
  PROVE  CountsOf(rq, u, lk, rf)
<1>1. \A s \in Sessions \ rf : Matched(rq, u, lk, s)
  BY DEF Matched, CountsOf, SameFlights
<1> QED BY <1>1 DEF CountsOf, SameFlights

\* A request begins: the tracker counts it, or refuses its session.
LEMMA Begins ==
  ASSUME NEW rq, NEW t, NEW lk, NEW rf, CountsOf(rq, t, lk, rf), NEW new, NEW r \in Requests, Moves(rq, new, r),
         ~Busy(rq[r]), Busy(new[r]), NEW k, k = new[r].kind.session, k \in Sessions \cup {NoSession},
         NEW u, NEW at, u \in IF k = NoSession THEN {t} ELSE SS!Begun(t, k, at),
         new[r].counted = (k # NoSession /\ SS!Tracked(u, k)),
         NEW nf, nf = IF k # NoSession /\ ~new[r].counted THEN rf \cup {k} ELSE rf
  PROVE  CountsOf(new, u, lk, nf)
<1>1. /\ Cardinality(Running(new, k)) = Cardinality(Running(rq, k)) + 1
      /\ \A s : s # k => Running(new, s) = Running(rq, s)
  BY OneMoreRuns
<1>2. /\ rf \subseteq Sessions /\ IsTracker(t) /\ lk \in [Sessions -> Nat]
      /\ \A s \in Sessions \ rf : Matched(rq, t, lk, s)
  BY DEF CountsOf
<1>3. nf \subseteq Sessions /\ rf \subseteq nf
  BY <1>2
<1>4. \A q \in Requests : Busy(new[q]) => Noticed(new[q], nf)
  <2>1. Noticed(new[r], nf)
    BY DEF Noticed, Moves, IsRequest
  <2>2. \A q \in Requests \ {r} : Busy(new[q]) => Noticed(new[q], rf)
    BY TypedMove
  <2>3. \A q : Noticed(q, rf) => Noticed(q, nf)
    BY <1>3 DEF Noticed
  <2> QED BY <2>1, <2>2, <2>3
<1>5. IsTracker(u) /\ \A x : x # k => InFlight(u, x) = InFlight(t, x)
  BY <1>2, BegunDoes
<1>6. ASSUME k \in Sessions \ nf
      PROVE  Matched(new, u, lk, k)
  <2>1. SS!Tracked(u, k) /\ u \in SS!Begun(t, k, at)
    BY <1>6, RequestsAssumption
  <2>2. InFlight(u, k) = InFlight(t, k) + 1
    BY <1>2, <2>1, BegunDoes
  <2>3. InFlight(t, k) = lk[k] + Cardinality(Running(rq, k))
    BY <1>2, <1>3, <1>6 DEF Matched
  <2>4. lk[k] \in Nat /\ Cardinality(Running(rq, k)) \in Nat
    BY <1>2, <1>6, RunningIs
  <2> QED BY <1>1, <2>2, <2>3, <2>4 DEF Matched
<1>7. \A s \in Sessions \ nf : s # k => Matched(new, u, lk, s)
  BY <1>1, <1>2, <1>3, <1>5 DEF Matched
<1> QED BY <1>2, <1>3, <1>4, <1>5, <1>6, <1>7, TypedMove DEF CountsOf

\* A request has its answer: the tracker counts one less.
LEMMA Ends ==
  ASSUME NEW rq, NEW t, NEW lk, NEW rf, CountsOf(rq, t, lk, rf), NEW new, NEW r \in Requests, Moves(rq, new, r),
         Busy(rq[r]), ~Busy(new[r]), NEW k, k = rq[r].kind.session,
         NEW u, NEW at, u = IF k = NoSession THEN t ELSE SS!Ended(t, k, at)
  PROVE  CountsOf(new, u, lk, rf)
<1>1. /\ Cardinality(Running(rq, k)) = Cardinality(Running(new, k)) + 1
      /\ \A s : s # k => Running(new, s) = Running(rq, s)
  BY OneLessRuns
<1>2. /\ IsTracker(t) /\ lk \in [Sessions -> Nat]
      /\ \A s \in Sessions \ rf : Matched(rq, t, lk, s)
  BY DEF CountsOf
<1>3. IsTracker(u) /\ \A x : x # k => InFlight(u, x) = InFlight(t, x)
  BY <1>2, EndedDoes
<1>4. ASSUME k \in Sessions \ rf
      PROVE  Matched(new, u, lk, k)
  <2>1. InFlight(u, k) = SS!Less1(InFlight(t, k))
    BY <1>2, <1>4, EndedDoes, RequestsAssumption
  <2>2. InFlight(t, k) = lk[k] + Cardinality(Running(rq, k))
    BY <1>2, <1>4 DEF Matched
  <2>3. lk[k] \in Nat /\ Cardinality(Running(new, k)) \in Nat
    BY <1>2, <1>4, RunningIs
  <2> QED BY <1>1, <2>1, <2>2, <2>3 DEF Matched, SS!Less1
<1>5. \A s \in Sessions \ rf : s # k => Matched(new, u, lk, s)
  BY <1>1, <1>2, <1>3 DEF Matched
<1>6. \A q \in Requests : Busy(new[q]) => Noticed(new[q], rf)
  BY TypedMove
<1> QED BY <1>3, <1>4, <1>5, <1>6, TypedMove DEF CountsOf

\* A client hangs up: the tracker keeps the count of its request.
LEMMA Leaves ==
  ASSUME NEW rq, NEW t, NEW lk, NEW rf, CountsOf(rq, t, lk, rf), NEW new, NEW r \in Requests, Moves(rq, new, r),
         Busy(rq[r]), ~Busy(new[r]), NEW k, k = rq[r].kind.session,
         NEW nk, nk = IF rq[r].counted THEN [lk EXCEPT ![k] = lk[k] + 1] ELSE lk
  PROVE  CountsOf(new, t, nk, rf)
<1>1. /\ Cardinality(Running(rq, k)) = Cardinality(Running(new, k)) + 1
      /\ \A s : s # k => Running(new, s) = Running(rq, s)
  BY OneLessRuns
<1>2. /\ IsTracker(t) /\ lk \in [Sessions -> Nat] /\ Noticed(rq[r], rf)
      /\ \A s \in Sessions \ rf : Matched(rq, t, lk, s)
  BY DEF CountsOf
<1>3. nk \in [Sessions -> Nat] /\ \A s \in Sessions : s # k => nk[s] = lk[s]
  <2>1. CASE rq[r].counted
    <3>1. k \in Sessions
      BY <1>2, <2>1 DEF CountsOf, Noticed
    <3>2. lk[k] + 1 \in Nat
      BY <1>2, <3>1
    <3> QED BY <1>2, <2>1, <3>2
  <2> QED BY <1>2, <2>1
<1>4. ASSUME k \in Sessions \ rf
      PROVE  Matched(new, t, nk, k)
  <2>1. nk[k] = lk[k] + 1
    BY <1>2, <1>4, RequestsAssumption DEF Noticed
  <2>2. InFlight(t, k) = lk[k] + Cardinality(Running(rq, k))
    BY <1>2, <1>4 DEF Matched
  <2>3. lk[k] \in Nat /\ Cardinality(Running(new, k)) \in Nat
    BY <1>2, <1>4, RunningIs
  <2> QED BY <1>1, <2>1, <2>2, <2>3 DEF Matched
<1>5. \A s \in Sessions \ rf : s # k => Matched(new, t, nk, s)
  BY <1>1, <1>2, <1>3 DEF Matched
<1>6. \A q \in Requests : Busy(new[q]) => Noticed(new[q], rf)
  BY TypedMove
<1>7. rf \subseteq Sessions
  BY DEF CountsOf
<1> QED BY <1>2, <1>3, <1>4, <1>5, <1>6, <1>7, TypedMove DEF CountsOf

-----------------------------------------------------------------------------
\* Every step keeps the counts.

CountsStay == CountsOf(req', tracker', leaked', refused')

LEMMA BeginCounts ==
  ASSUME Counts, NEW r \in Requests, NEW k \in Kinds, Begin(r, k)
  PROVE  CountsStay
<1>1. PICK t \in IF k.session = NoSession THEN {tracker} ELSE SS!Begun(tracker, k.session, now) :
        LET counted == k.session # NoSession /\ SS!Tracked(t, k.session)
        IN /\ Tracks(t, served)
           /\ Goes(r, [Idle EXCEPT !.pc = "asking", !.kind = k, !.counted = counted])
           /\ refused' = IF k.session # NoSession /\ ~counted THEN refused \cup {k.session} ELSE refused
  BY DEF Begin
<1> DEFINE counted == k.session # NoSession /\ SS!Tracked(t, k.session)
           q == [Idle EXCEPT !.pc = "asking", !.kind = k, !.counted = counted]
<1>2. IsRequest(q) /\ q.pc = "asking" /\ q.kind = k /\ q.counted = counted
  BY IdleIs DEF IsRequest
<1>3. Goes(r, q) /\ tracker' = t /\ refused' = IF k.session # NoSession /\ ~counted THEN refused \cup {k.session} ELSE refused
  BY <1>1 DEF Tracks
<1>4. ~Busy(req[r]) /\ leaked' = leaked /\ k.session \in Sessions \cup {NoSession}
  BY RequestsAssumption DEF Begin, Busy
<1> HIDE DEF q
<1>5. req'[r] = q /\ Moves(req, req', r)
  BY <1>2, <1>3, GoesDoes
<1>6. Busy(req'[r]) /\ k.session = req'[r].kind.session /\ req'[r].counted = counted
  BY <1>2, <1>5 DEF Busy
<1>7. CountsOf(req, tracker, leaked, refused)
  BY DEF Counts
<1>8. CountsOf(req', t, leaked, refused')
  BY <1>1, <1>3, <1>4, <1>5, <1>6, <1>7, Begins
<1> QED BY <1>3, <1>4, <1>8 DEF CountsStay

LEMMA FailsCounts ==
  ASSUME Counts, NEW r \in Requests, Busy(req[r]), Fails(r), leaked' = leaked, refused' = refused
  PROVE  CountsStay
<1>1. Moves(req, req', r) /\ ~Busy(req'[r])
  BY IdleIs, GoesDoes DEF Fails, Busy
<1>2. tracker' = IF Session(r) = NoSession THEN tracker ELSE SS!Ended(tracker, Session(r), now)
  BY DEF Fails, Tracks, Over1
<1>3. CountsOf(req, tracker, leaked, refused) /\ Session(r) = req[r].kind.session
  BY DEF Counts, Session
<1>4. CountsOf(req', tracker', leaked, refused)
  BY <1>1, <1>2, <1>3, Ends
<1> QED BY <1>4 DEF CountsStay

LEMMA GoesOnCounts ==
  ASSUME Counts, NEW r \in Requests, NEW q, IsRequest(q), Goes(r, q), Busy(req[r]) <=> Busy(q),
         Busy(q) => q.kind = req[r].kind /\ q.counted = req[r].counted,
         tracker' = tracker, leaked' = leaked, refused' = refused
  PROVE  CountsStay
<1>1. Moves(req, req', r) /\ req'[r] = q
  BY GoesDoes
<1>2. CountsOf(req', tracker, leaked, refused)
  BY <1>1, GoesOn DEF Counts
<1> QED BY <1>2 DEF CountsStay

LEMMA AskCounts ==
  ASSUME Counts, NEW r \in Requests, Ask(r)
  PROVE  CountsStay
<1>1. PICK at : \/ Fails(r)
                \/ /\ Goes(r, [req[r] EXCEPT !.pc = "sent", !.at = at])
                   /\ UNCHANGED <<tracker, served>>
  BY DEF Ask
<1>2. Busy(req[r]) /\ IsRequest(req[r]) /\ leaked' = leaked /\ refused' = refused
  BY DEF Ask, Busy, Counts, CountsOf
<1>3. CASE Fails(r)
  BY <1>2, <1>3, FailsCounts
<1>4. CASE Goes(r, [req[r] EXCEPT !.pc = "sent", !.at = at]) /\ UNCHANGED <<tracker, served>>
  <2> DEFINE q == [req[r] EXCEPT !.pc = "sent", !.at = at]
  <2>1. IsRequest(q) /\ Busy(q) /\ q.kind = req[r].kind /\ q.counted = req[r].counted
    BY <1>2 DEF IsRequest, Busy
  <2>2. Goes(r, q) /\ tracker' = tracker
    BY <1>4
  <2> HIDE DEF q
  <2> QED BY <1>2, <2>1, <2>2, GoesOnCounts
<1> QED BY <1>1, <1>3, <1>4

LEMMA ServeCounts ==
  ASSUME Counts, NEW r \in Requests, NEW class, NEW h, Serve(r, class, h)
  PROVE  CountsStay
<1> DEFINE q == [Idle EXCEPT !.pc = "body", !.at = req[r].at]
           w == WeeklyBucketFor(req[r].kind.model)
<1>1. PICK t \in TouchedBy(tracker, r) : Tracks(Over1(t, r), Serving(r))
  BY DEF Serve
<1>2. Goes(r, q) /\ leaked' = leaked /\ refused' = refused /\ Busy(req[r])
  BY DEF Serve, Busy
<1>3. IsRequest(q) /\ q.pc = "body"
  BY IdleIs DEF IsRequest
<1>4. CountsOf(req, tracker, leaked, refused) /\ IsTracker(tracker) /\ Session(r) = req[r].kind.session
  BY DEF Counts, CountsOf, Session
<1> HIDE DEF q
<1>5. Moves(req, req', r) /\ ~Busy(req'[r])
  BY <1>2, <1>3, GoesDoes DEF Busy
<1>6. t \in IF Session(r) = NoSession THEN {tracker} ELSE SS!Touched(tracker, Session(r), req[r].at, w, now)
  BY <1>1 DEF TouchedBy
<1> HIDE DEF w
<1>7. SameFlights(tracker, t)
  <2>1. CASE Session(r) = NoSession
    BY <1>4, <1>6, <2>1 DEF SameFlights
  <2>2. CASE Session(r) # NoSession
    BY <1>4, <1>6, <2>2, TouchedKeeps
  <2> QED BY <2>1, <2>2
<1>8. CountsOf(req, t, leaked, refused)
  BY <1>4, <1>7, TrackerMoves
<1>9. tracker' = IF Session(r) = NoSession THEN t ELSE SS!Ended(t, Session(r), now)
  BY <1>1 DEF Tracks, Over1
<1>10. CountsOf(req', tracker', leaked, refused)
  BY <1>2, <1>4, <1>5, <1>8, <1>9, Ends
<1> QED BY <1>2, <1>10 DEF CountsStay

LEMMA TurnAwayCounts ==
  ASSUME Counts, NEW r \in Requests, NEW class, NEW h, TurnAway(r, class, h)
  PROVE  CountsStay
<1> DEFINE q == [req[r] EXCEPT !.pc = "asking", !.at = NoAccount, !.tried = req[r].tried \cup {req[r].at}]
<1>1. \/ Fails(r)
      \/ Goes(r, q) /\ UNCHANGED <<tracker, served>>
  BY DEF TurnAway
<1>2. Busy(req[r]) /\ IsRequest(req[r]) /\ leaked' = leaked /\ refused' = refused
  BY DEF TurnAway, Busy, Counts, CountsOf
<1>3. IsRequest(q) /\ Busy(q) /\ q.kind = req[r].kind /\ q.counted = req[r].counted
  BY <1>2 DEF IsRequest, Busy
<1> HIDE DEF q
<1> QED BY <1>1, <1>2, <1>3, FailsCounts, GoesOnCounts

LEMMA EndOfBodyCounts ==
  ASSUME Counts, NEW r \in Requests, EndOfBody(r)
  PROVE  CountsStay
<1>1. ~Busy(req[r]) /\ Goes(r, Idle) /\ tracker' = tracker /\ leaked' = leaked /\ refused' = refused
  BY DEF EndOfBody, Busy
<1>2. IsRequest(Idle) /\ ~Busy(Idle)
  BY IdleIs DEF Busy
<1> QED BY <1>1, <1>2, GoesOnCounts

LEMMA HangUpCounts ==
  ASSUME Counts, NEW r \in Requests, HangUp(r)
  PROVE  CountsStay
<1>1. /\ Busy(req[r]) /\ Goes(r, Idle) /\ tracker' = tracker /\ refused' = refused
      /\ leaked' = IF req[r].counted THEN [leaked EXCEPT ![Session(r)] = leaked[Session(r)] + 1] ELSE leaked
  BY DEF HangUp, Busy
<1>2. Moves(req, req', r) /\ ~Busy(req'[r])
  BY <1>1, IdleIs, GoesDoes DEF Busy
<1>3. CountsOf(req, tracker, leaked, refused) /\ Session(r) = req[r].kind.session
  BY DEF Counts, Session
<1>4. CountsOf(req', tracker, leaked', refused)
  BY <1>1, <1>2, <1>3, Leaves
<1> QED BY <1>1, <1>4 DEF CountsStay

LEMMA ReloadCounts ==
  ASSUME Counts, NEW c \in Configs, NEW back, Reload(c, back)
  PROVE  CountsStay
<1> DEFINE live == {c.order[i] : i \in DOMAIN c.order}
<1>1. tracker' = SS!Remapped(tracker, live) /\ req' = req /\ leaked' = leaked /\ refused' = refused
  BY DEF Reload
<1>2. CountsOf(req, tracker, leaked, refused) /\ IsTracker(tracker)
  BY DEF Counts, CountsOf
<1> HIDE DEF live
<1>3. SameFlights(tracker, tracker')
  BY <1>1, <1>2, RemappedKeeps
<1>4. CountsOf(req, tracker', leaked, refused)
  BY <1>2, <1>3, TrackerMoves
<1> QED BY <1>1, <1>4 DEF CountsStay

LEMMA StepCounts ==
  ASSUME Counts, [Next]_vars
  PROVE  Counts'
<1>1. ASSUME UNCHANGED <<req, tracker, leaked, refused>>
      PROVE  CountsStay
  BY <1>1 DEF CountsStay, Counts
<1>2. ASSUME NEW r \in Requests, NEW k \in Kinds, Begin(r, k)
      PROVE  CountsStay
  BY <1>2, BeginCounts
<1>3. ASSUME NEW r \in Requests, Ask(r) \/ EndOfBody(r) \/ HangUp(r)
      PROVE  CountsStay
  BY <1>3, AskCounts, EndOfBodyCounts, HangUpCounts
<1>4. ASSUME NEW r \in Requests, NEW y \in Replies, Serve(r, y[1], y[2]) \/ TurnAway(r, y[1], y[2])
      PROVE  CountsStay
  BY <1>4, ServeCounts, TurnAwayCounts
<1>5. ASSUME NEW a \in Accounts, (\E u \in Payloads : UsageRead(a, u)) \/ SwitchTo(a)
      PROVE  CountsStay
  BY <1>1, <1>5 DEF UsageRead, SwitchTo
<1>6. ASSUME NEW n, (\E a : LookUpPin(n, a) \/ SetRoutePin(n, a)) \/ Unpin(n)
      PROVE  CountsStay
  BY <1>1, <1>6 DEF LookUpPin, SetRoutePin, Unpin
<1>7. ASSUME NEW c \in Configs, NEW back, Reload(c, back)
      PROVE  CountsStay
  BY <1>7, ReloadCounts
<1>8. ASSUME Tick
      PROVE  CountsStay
  BY <1>1, <1>8 DEF Tick
<1>9. ASSUME UNCHANGED vars
      PROVE  CountsStay
  BY <1>1, <1>9 DEF vars
<1>10. ASSUME Next
       PROVE  CountsStay
  BY <1>2, <1>3, <1>4, <1>5, <1>6, <1>7, <1>8, <1>10 DEF Next
<1>11. CountsStay
  BY <1>9, <1>10
<1> QED BY <1>11 DEF CountsStay, Counts

\* The requests of a session that run, or that a client left, are exactly the
\* ones the tracker counts, however many sessions and requests there are:
\* a sweep, an eviction at the cap, a touch and a reload forget no session
\* that has a request under way (session.rs:85-125, server.rs:527-529).
THEOREM SessionsAreCounted == Spec => []SessionsCounted
<1>1. Init => Counts
  BY InitCounts
<1>2. Counts /\ [Next]_vars => Counts'
  BY StepCounts
<1>3. Counts => SessionsCounted
  BY DEF Counts, CountsOf, Matched, InFlight, Running, Busy, SessionsCounted, Session
<1> QED BY <1>1, <1>2, <1>3, PTL DEF Spec

-----------------------------------------------------------------------------
\* Least elements, and the order of tuples.

LEMMA LeastNumber ==
  ASSUME NEW S, S \subseteq Nat, S # {}
  PROVE  \E x \in S : \A y \in S : x <= y
<1>1. PICK x \in S : \A y \in S : ~(<<y, x>> \in OpToRel(<, Nat))
  BY NatLessThanWellFounded, WFMin
<1>2. \A y \in S : ~(y < x)
  BY <1>1 DEF OpToRel
<1> QED BY <1>2

LEMMA LeastIsOne ==
  ASSUME NEW S, S \subseteq Nat, S # {}
  PROVE  Min(S) \in S
<1>1. \E x \in S : \A y \in S : x <= y
  BY LeastNumber
<1> QED BY <1>1 DEF Min

\* A finite set has a minimal element of any strict order: one with the
\* fewest elements below it.
LEMMA MinimalExists ==
  ASSUME NEW S, IsFiniteSet(S), S # {}, NEW R,
         \A x \in S : <<x, x>> \notin R,
         \A x, y, z \in S : <<x, y>> \in R /\ <<y, z>> \in R => <<x, z>> \in R
  PROVE  \E x \in S : \A y \in S : <<y, x>> \notin R
<1> DEFINE Below(x) == {y \in S : <<y, x>> \in R}
           sizes    == {Cardinality(Below(x)) : x \in S}
<1>1. \A x : IsFiniteSet(Below(x)) /\ Cardinality(Below(x)) \in Nat
  <2> TAKE x
  <2>1. Below(x) \subseteq S
    OBVIOUS
  <2> HIDE DEF Below
  <2> QED BY <2>1, FS_Subset, FS_CardinalityType
<1>2. PICK x \in S : \A y \in S : Cardinality(Below(x)) <= Cardinality(Below(y))
  <2> HIDE DEF Below
  <2>1. sizes \subseteq Nat /\ sizes # {}
    BY <1>1
  <2>2. PICK n \in sizes : \A k \in sizes : n <= k
    <3> HIDE DEF sizes
    <3> QED BY <2>1, LeastNumber
  <2> QED BY <2>2
<1>3. ASSUME NEW y \in S, <<y, x>> \in R PROVE FALSE
  <2>1. Below(y) \subseteq Below(x) /\ y \in Below(x) /\ y \notin Below(y)
    BY <1>3
  <2> HIDE DEF Below
  <2>2. Cardinality(Below(y)) <= Cardinality(Below(x)) /\ Cardinality(Below(y)) # Cardinality(Below(x))
    BY <1>1, <2>1, FS_Subset
  <2> QED BY <1>1, <1>2, <2>2
<1> QED BY <1>3

LEMMA FirstDifference ==
  ASSUME NEW n \in Nat, NEW s \in [1 .. n -> Int], NEW t \in [1 .. n -> Int], s # t
  PROVE  \E i \in 1 .. n : s[i] # t[i] /\ \A j \in 1 .. i - 1 : s[j] = t[j]
<1> DEFINE D == {i \in 1 .. n : s[i] # t[i]}
<1>1. D \subseteq Nat /\ D # {}
  OBVIOUS
<1>2. PICK i \in D : \A j \in D : i <= j
  <2> HIDE DEF D
  <2> QED BY <1>1, LeastNumber
<1> QED BY <1>2

LEMMA LexTotal ==
  ASSUME NEW n \in Nat, NEW s \in [1 .. n -> Int], NEW t \in [1 .. n -> Int], s # t
  PROVE  LexLess(s, t) \/ LexLess(t, s)
<1>1. PICK i \in 1 .. n : s[i] # t[i] /\ \A j \in 1 .. i - 1 : s[j] = t[j]
  BY FirstDifference
<1>2. s[i] \in Int /\ t[i] \in Int /\ DOMAIN s = 1 .. n /\ DOMAIN t = 1 .. n
  OBVIOUS
<1>3. s[i] < t[i] \/ t[i] < s[i]
  BY <1>1, <1>2
<1> QED BY <1>1, <1>2, <1>3 DEF LexLess

LEMMA LexTransitive ==
  ASSUME NEW n \in Nat, NEW s \in [1 .. n -> Int], NEW t \in [1 .. n -> Int], NEW u \in [1 .. n -> Int],
         LexLess(s, t), LexLess(t, u)
  PROVE  LexLess(s, u)
<1>1. PICK i \in 1 .. n : s[i] < t[i] /\ \A k \in 1 .. i - 1 : s[k] = t[k]
  BY DEF LexLess
<1>2. PICK j \in 1 .. n : t[j] < u[j] /\ \A k \in 1 .. j - 1 : t[k] = u[k]
  BY DEF LexLess
<1>3. CASE i <= j
  <2>1. s[i] < u[i] /\ \A k \in 1 .. i - 1 : s[k] = u[k]
    BY <1>1, <1>2, <1>3
  <2> QED BY <2>1 DEF LexLess
<1>4. CASE j < i
  <2>1. s[j] < u[j] /\ \A k \in 1 .. j - 1 : s[k] = u[k]
    BY <1>1, <1>2, <1>4
  <2> QED BY <2>1 DEF LexLess
<1> QED BY <1>3, <1>4

LEMMA LexAsymmetric ==
  ASSUME NEW n \in Nat, NEW s \in [1 .. n -> Int], NEW t \in [1 .. n -> Int], LexLess(s, t)
  PROVE  ~LexLess(t, s)
<1>1. PICK i \in 1 .. n : s[i] < t[i] /\ \A k \in 1 .. i - 1 : s[k] = t[k]
  BY DEF LexLess
<1>2. ASSUME NEW j \in 1 .. n, t[j] < s[j], \A k \in 1 .. j - 1 : t[k] = s[k] PROVE FALSE
  <2>1. i < j \/ i = j \/ j < i
    OBVIOUS
  <2> QED BY <1>1, <1>2, <2>1
<1> QED BY <1>2 DEF LexLess

\* Of finitely many things with different tuples one has the least.
LEMMA LeastOfTuples ==
  ASSUME NEW S, IsFiniteSet(S), S # {}, NEW n \in Nat, NEW rank \in [S -> [1 .. n -> Int]],
         \A a, b \in S : rank[a] = rank[b] => a = b
  PROVE  \E a \in S : \A b \in S \ {a} : LexLess(rank[a], rank[b])
<1> DEFINE R == {p \in S \X S : LexLess(rank[p[1]], rank[p[2]])}
<1>1. \A a, b \in S : <<a, b>> \in R <=> LexLess(rank[a], rank[b])
  OBVIOUS
<1> HIDE DEF R
<1>2. \A a \in S : rank[a] \in [1 .. n -> Int]
  OBVIOUS
<1>3. \A a \in S : <<a, a>> \notin R
  BY <1>1, <1>2, LexAsymmetric
<1>4. \A a, b, c \in S : <<a, b>> \in R /\ <<b, c>> \in R => <<a, c>> \in R
  BY <1>1, <1>2, LexTransitive
<1>5. PICK a \in S : \A b \in S : <<b, a>> \notin R
  BY <1>3, <1>4, MinimalExists
<1>6. ASSUME NEW b \in S \ {a} PROVE LexLess(rank[a], rank[b])
  <2>1. ~LexLess(rank[b], rank[a]) /\ rank[a] # rank[b]
    BY <1>1, <1>5
  <2> QED BY <1>2, <2>1, LexTotal
<1> QED BY <1>6

-----------------------------------------------------------------------------
\* What the ranking is computed from.

IsAccount(x) ==
  x \in [quota : [Keys -> Bucket(Times, Utils)], status : {"active", "throttled", "error"},
         until : {x.until}, hold : {x.hold}, denied : {x.denied}, probed : {x.probed},
         baseline : {x.baseline}, probing : {x.probing}, requalify : {x.requalify},
         flight : Nat, open : Nat]

IsFleet(F) == F = [a \in Accounts |-> F[a]] /\ \A a \in Accounts : IsAccount(F[a])

\* G differs from F in nothing that a ranking or a reason looks at.
SameAccount(x, y) ==
  /\ IsAccount(y) /\ y.quota = x.quota /\ y.status = x.status /\ y.until = x.until
  /\ y.denied = x.denied /\ y.flight = x.flight /\ y.open = x.open
SameFleet(F, G) == G = [a \in Accounts |-> G[a]] /\ \A a \in Accounts : SameAccount(F[a], G[a])

Ready == /\ cfg \in Configs /\ now \in Times
         /\ IsTracker(tracker) /\ IsFiniteSet(DOMAIN tracker.known)

IsModel(m) == m \in Models \cup {NoModel}

LEMMA ReadingsAreNumbers ==
  ASSUME NEW x, IsAccount(x), NEW k \in Keys
  PROVE  x.quota[k].util \in Int /\ x.quota[k].reset \in Int /\ x.quota[k] \in Bucket(Times, Utils)
<1>1. Times \subseteq Int /\ Utils \subseteq Int /\ Unknown \in Int
  BY TimesAssumption DEF Times, Utils, Unknown
<1>2. x.quota[k] \in Bucket(Times, Utils)
  BY DEF IsAccount
<1> QED BY <1>1, <1>2 DEF Bucket

LEMMA NowIsNumber ==
  ASSUME Ready
  PROVE  now \in Nat
BY TimesAssumption DEF Ready, Times

LEMMA WeeklyIsKey == Weekly \subseteq Keys /\ "5h" \in Keys /\ "7d" \in Weekly
BY DEF Weekly, Keys, Windows, Shared

LEMMA BucketsAreWeekly ==
  ASSUME Ready, NEW m, IsModel(m)
  PROVE  WeeklyBucketFor(m) \in Weekly /\ WeeklyKeyFor(m) \in Weekly
<1>1. WeeklyBucketFor(m) \in Weekly
  BY WeeklyIsKey, ConfigsAssumption DEF WeeklyBucketFor, IsModel
<1>2. CASE m # NoModel /\ RoutesFor(m) # {} /\ RouteFor(m).bucket # "none"
  <2>1. RoutesFor(m) \subseteq DOMAIN cfg.routes /\ RoutesFor(m) \subseteq Nat
    BY ConfigsAssumption DEF RoutesFor, Ready
  <2>2. Min(RoutesFor(m)) \in DOMAIN cfg.routes
    BY <1>2, <2>1, LeastIsOne
  <2>3. RouteFor(m).bucket \in Weekly \cup {"none"}
    BY <2>2, ConfigsAssumption DEF RouteFor, Ready
  <2> QED BY <1>1, <1>2, <2>3 DEF WeeklyKeyFor
<1>3. CASE ~(m # NoModel /\ RoutesFor(m) # {} /\ RouteFor(m).bucket # "none")
  BY <1>1, <1>3 DEF WeeklyKeyFor
<1> QED BY <1>1, <1>2, <1>3

\* The pool is finite, and the file gives every account a place of its own.
LEMMA MembersHavePlaces ==
  ASSUME Ready
  PROVE  /\ Members \subseteq Accounts /\ IsFiniteSet(Members)
         /\ \A a \in Members : Place(a) \in Nat /\ cfg.prio[a] \in Int
         /\ \A a, b \in Members : Place(a) = Place(b) => a = b
<1>1. cfg.order \in Seq(Accounts) /\ cfg.prio \in [Accounts -> Int]
  BY ConfigsAssumption DEF Ready
<1>2. DOMAIN cfg.order = 1 .. Len(cfg.order) /\ Len(cfg.order) \in Nat
  BY <1>1
<1>3. Members \subseteq Accounts
  BY <1>1 DEF Members
<1>4. \A a \in Members : Place(a) \in DOMAIN cfg.order /\ cfg.order[Place(a)] = a
  BY DEF Members, Place
<1>5. IsFiniteSet(Members)
  <2> DEFINE f == [i \in DOMAIN cfg.order |-> cfg.order[i]]
             n == Len(cfg.order)
  <2>1. f \in Surjection(1 .. n, Members)
    BY <1>2 DEF Members, Surjection
  <2>2. n \in Int
    BY <1>2
  <2> HIDE DEF n
  <2>3. IsFiniteSet(1 .. n)
    BY <2>2, FS_Interval
  <2> QED BY <2>1, <2>3, FS_Surjection
<1> QED BY <1>1, <1>2, <1>3, <1>4, <1>5

LEMMA AvailableIs ==
  ASSUME Ready, NEW F, NEW q, NEW tried
  PROVE  /\ Available(F, q, tried) \subseteq Members /\ IsFiniteSet(Available(F, q, tried))
<1>1. Available(F, q, tried) \subseteq Members
  BY DEF Available
<1> QED BY <1>1, MembersHavePlaces, FS_Subset

LEMMA SameReasons ==
  ASSUME Ready, NEW F, NEW G, SameFleet(F, G), NEW q, NEW a \in Accounts
  PROVE  Reason(G, a, q) = Reason(F, a, q)
<1>1. /\ G[a].quota = F[a].quota /\ G[a].status = F[a].status /\ G[a].until = F[a].until
      /\ G[a].denied = F[a].denied /\ G[a].open = F[a].open
  BY DEF SameFleet, SameAccount
<1>2. \A m : (Capped(G, a, m) <=> Capped(F, a, m)) /\ (NearQuota(G, a, m) <=> NearQuota(F, a, m))
  BY <1>1 DEF Capped, NearQuota
<1> QED BY <1>1, <1>2 DEF Reason

LEMMA SameAvailable ==
  ASSUME Ready, NEW F, NEW G, SameFleet(F, G), NEW q, NEW tried
  PROVE  /\ Available(G, q, tried) = Available(F, q, tried)
         /\ \A a : Serves(G, a, q) <=> Serves(F, a, q)
BY SameReasons, MembersHavePlaces DEF Available, Serves

\* What an account is ranked by are numbers.
LEMMA ResetsAreNumbers ==
  ASSUME Ready, NEW F, IsFleet(F), NEW a \in Accounts, NEW m, IsModel(m)
  PROVE  /\ WeeklyResetFor(F, a, m) \in Int /\ OrNever(WeeklyResetFor(F, a, m)) \in Int
         /\ WeeklyResetKey(F, a, m) \in Int /\ FiveHourDeadline(F, a) \in Int
<1>1. \A k \in Keys : F[a].quota[k].reset \in Int
  BY ReadingsAreNumbers DEF IsFleet
<1>2. WeeklyResetFor(F, a, m) \in Int
  BY <1>1, BucketsAreWeekly, WeeklyIsKey DEF WeeklyResetFor
<1>3. Never \in Int /\ now \in Int /\ FiveWindow \in Int
  BY TimesAssumption, NowIsNumber
<1> QED BY <1>1, <1>2, <1>3, WeeklyIsKey DEF OrNever, WeeklyResetKey, FiveHourDeadline

LEMMA GoverningIs ==
  ASSUME Ready, NEW F, IsFleet(F), NEW a \in Accounts, NEW m, IsModel(m)
  PROVE  LET b == Governing(F, a, m) IN b.util \in Int /\ b.reset \in Int
BY BucketsAreWeekly, WeeklyIsKey, ReadingsAreNumbers DEF Governing, IsFleet

LEMMA LesserOfTwo ==
  ASSUME NEW m \in Int, NEW n \in Int
  PROVE  Min({m, n}) = IF m <= n THEN m ELSE n
<1> DEFINE M == IF m <= n THEN m ELSE n
<1>1. M \in {m, n} /\ \A y \in {m, n} : M <= y
  OBVIOUS
<1>2. \A x \in {m, n} : (\A y \in {m, n} : x <= y) => x = M
  OBVIOUS
<1> HIDE DEF M
<1>3. Min({m, n}) = M
  BY <1>1, <1>2 DEF Min
<1> QED BY <1>3 DEF M

LEMMA ShareIsNat ==
  ASSUME NEW n \in Nat, NEW d \in Nat \ {0}
  PROVE  n \div d \in Nat
OBVIOUS

LEMMA PressureIsNat ==
  ASSUME Ready, NEW b, b.util \in Int, b.reset \in Int
  PROVE  Pressure(b) \in Nat
<1>1. Spendable(b) \in Nat
  BY TimesAssumption, LesserOfTwo DEF Spendable
<1>2. Spendable(b) * Unit \in Nat
  <2> HIDE DEF Spendable
  <2> QED BY <1>1, TimesAssumption
<1>3. b.reset > now => b.reset - now \in Nat \ {0}
  BY NowIsNumber
<1>4. WeekWindow \in Nat \ {0}
  BY TimesAssumption
<1> DEFINE n == Spendable(b) * Unit
<1>5. n \in Nat
  BY <1>2
<1> HIDE DEF n
<1>6. n \div WeekWindow \in Nat /\ (b.reset > now => n \div (b.reset - now) \in Nat)
  BY <1>3, <1>4, <1>5, ShareIsNat
<1> QED BY <1>6 DEF Pressure, n

-----------------------------------------------------------------------------
\* A rank is a tuple of numbers, as long for one account as for another.

LEMMA Joined ==
  ASSUME NEW m \in Nat, NEW n \in Nat, NEW s \in [1 .. m -> Int], NEW t \in [1 .. n -> Int],
         NEW k, k = m + n
  PROVE  /\ s \o t \in [1 .. k -> Int]
         /\ \A i \in 1 .. m : (s \o t)[i] = s[i]
         /\ \A i \in 1 .. n : (s \o t)[m + i] = t[i]
<1>1. s \in Seq(Int) /\ t \in Seq(Int) /\ Len(s) = m /\ Len(t) = n
  BY SeqDef
<1>2. /\ s \o t \in Seq(Int) /\ Len(s \o t) = m + n
      /\ \A i \in 1 .. m + n : (s \o t)[i] = IF i <= m THEN s[i] ELSE t[i - m]
  BY <1>1, ConcatProperties
<1>3. s \o t \in [1 .. m + n -> Int]
  BY <1>2, LenProperties
<1>4. \A i \in 1 .. m : (s \o t)[i] = s[i]
  BY <1>2
<1>5. ASSUME NEW i \in 1 .. n PROVE (s \o t)[m + i] = t[i]
  <2>1. m + i \in 1 .. m + n /\ ~(m + i <= m) /\ (m + i) - m = i
    OBVIOUS
  <2> QED BY <1>2, <2>1
<1> QED BY <1>3, <1>4, <1>5

\* Sessions has the library's operators under names of its own.
LEMMA SameCardinality == \A S : SS!Cardinality(S) = Cardinality(S)
BY DEF SS!Cardinality, Cardinality

LEMMA LoadIs ==
  ASSUME Ready, NEW F, IsFleet(F), NEW a \in Accounts
  PROVE  Load(F, a) \in [1 .. 2 -> Int]
<1> DEFINE of    == SS!Of(tracker, a, now)
           each(id) == {id} \X (1 .. tracker.known[id].flight)
<1>1. of \subseteq DOMAIN tracker.known /\ IsFiniteSet(of)
  <2>1. of \subseteq DOMAIN tracker.known
    BY DEF SS!Of
  <2> HIDE DEF of
  <2> QED BY <2>1, FS_Subset DEF Ready
<1>2. SS!ActiveOn(tracker, a, now) \in Nat
  <2> DEFINE active == {id \in of : SS!IsActive(tracker.known[id], now)}
  <2>1. active \subseteq of
    OBVIOUS
  <2>2. SS!ActiveOn(tracker, a, now) = Cardinality(active)
    BY SameCardinality DEF SS!ActiveOn
  <2> HIDE DEF active, of
  <2> QED BY <1>1, <2>1, <2>2, FS_Subset, FS_CardinalityType
<1>3. SS!UnderWay(tracker, a, now) \in Nat
  <2> DEFINE all == {each(id) : id \in of}
  <2>1. \A id \in of : IsFiniteSet(each(id))
    <3> TAKE id \in of
    <3> DEFINE n == tracker.known[id].flight
    <3>1. n \in Int
      BY <1>1 DEF Ready, IsTracker, IsSession
    <3> HIDE DEF n
    <3>2. IsFiniteSet({id}) /\ IsFiniteSet(1 .. n)
      <4>1. IsFiniteSet(1 .. n)
        BY <3>1, FS_Interval
      <4> QED BY <4>1, FS_Singleton
    <3>3. IsFiniteSet({id} \X (1 .. n))
      BY <3>2, FS_Product
    <3> QED BY <3>3 DEF n
  <2>2. IsFiniteSet(all)
    <3> DEFINE f == [id \in of |-> each(id)]
    <3>1. f \in Surjection(of, all)
      BY DEF Surjection
    <3> HIDE DEF of, all, f
    <3> QED BY <1>1, <3>1, FS_Surjection
  <2>3. \A x \in all : IsFiniteSet(x)
    <3> HIDE DEF each, of
    <3> QED BY <2>1
  <2>4. SS!UnderWay(tracker, a, now) = Cardinality(UNION all)
    BY SameCardinality DEF SS!UnderWay
  <2> HIDE DEF all
  <2>5. IsFiniteSet(UNION all)
    BY <2>2, <2>3, FS_UNION
  <2> QED BY <2>4, <2>5, FS_CardinalityType
<1>4. F[a].flight \in Nat
  BY DEF IsFleet, IsAccount
<1>5. SS!UnderWay(tracker, a, now) + F[a].flight \in Int
  BY <1>3, <1>4
<1> QED BY <1>2, <1>5 DEF Load

LEMMA LeastOfNumbers ==
  ASSUME NEW S, IsFiniteSet(S), S # {}, S \subseteq Int
  PROVE  Min(S) \in S /\ \A y \in S : Min(S) <= y
<1> DEFINE R == {p \in S \X S : p[1] < p[2]}
<1>1. \A x, y \in S : <<x, y>> \in R <=> x < y
  OBVIOUS
<1> HIDE DEF R
<1>2. \A x \in S : <<x, x>> \notin R
  BY <1>1
<1>3. \A x, y, z \in S : <<x, y>> \in R /\ <<y, z>> \in R => <<x, z>> \in R
  BY <1>1
<1>4. PICK x \in S : \A y \in S : <<y, x>> \notin R
  BY <1>2, <1>3, MinimalExists
<1>5. \A y \in S : x <= y
  <2> TAKE y \in S
  <2>1. ~(y < x)
    BY <1>1, <1>4
  <2>2. x \in Int /\ y \in Int
    OBVIOUS
  <2> QED BY <2>1, <2>2
<1> QED BY <1>5 DEF Min

LEMMA GreatestOfNumbers ==
  ASSUME NEW S, IsFiniteSet(S), S # {}, S \subseteq Int
  PROVE  Max(S) \in S /\ \A y \in S : y <= Max(S)
<1> DEFINE R == {p \in S \X S : p[2] < p[1]}
<1>1. \A x, y \in S : <<x, y>> \in R <=> y < x
  OBVIOUS
<1> HIDE DEF R
<1>2. \A x \in S : <<x, x>> \notin R
  BY <1>1
<1>3. \A x, y, z \in S : <<x, y>> \in R /\ <<y, z>> \in R => <<x, z>> \in R
  BY <1>1
<1>4. PICK x \in S : \A y \in S : <<y, x>> \notin R
  BY <1>2, <1>3, MinimalExists
<1>5. \A y \in S : x >= y
  <2> TAKE y \in S
  <2>1. ~(x < y)
    BY <1>1, <1>4
  <2>2. x \in Int /\ y \in Int
    OBVIOUS
  <2> QED BY <2>1, <2>2
<1> QED BY <1>5 DEF Max

\* The images of a finite set.
LEMMA ImageIsFinite ==
  ASSUME NEW S, IsFiniteSet(S), NEW f, DOMAIN f = S
  PROVE  IsFiniteSet({f[x] : x \in S})
<1> DEFINE T == {f[x] : x \in S}
           g == [x \in S |-> f[x]]
<1>1. g \in Surjection(S, T)
  BY DEF Surjection
<1> HIDE DEF g, T
<1>2. IsFiniteSet(T)
  BY <1>1, FS_Surjection
<1> QED BY <1>2 DEF T

LEMMA StepsIsNumber ==
  ASSUME NEW t \in Int, NEW from \in Int, NEW width \in Nat \ {0}
  PROVE  Steps(t, from, width) \in Int
<1>1. t - from \in Int
  OBVIOUS
<1>2. (t - from) \div width \in Int
  BY <1>1
<1> QED BY <1>2, TimesAssumption DEF Steps

LEMMA WeekBandIs ==
  ASSUME Ready, NEW F, IsFleet(F), NEW V, V \subseteq Members, IsFiniteSet(V), NEW a \in V, NEW m, IsModel(m)
  PROVE  WeekBandOf(F, V, a, m) \in Int
<1> DEFINE tier == {b \in V : Prio(b) = Prio(a)}
           f    == [b \in tier |-> WeeklyResetKey(F, b, m)]
           S    == {f[b] : b \in tier}
<1>1. V \subseteq Accounts
  BY MembersHavePlaces
<1>2. tier \subseteq V /\ a \in tier
  OBVIOUS
<1>3. \A b \in tier : WeeklyResetKey(F, b, m) \in Int
  BY <1>1, <1>2, ResetsAreNumbers
<1>4. S = {WeeklyResetKey(F, b, m) : b \in tier}
  OBVIOUS
<1>5. IsFiniteSet(S)
  <2> HIDE DEF tier
  <2>1. IsFiniteSet(tier) /\ DOMAIN f = tier
    BY <1>2, FS_Subset
  <2> HIDE DEF f
  <2> QED BY <2>1, ImageIsFinite
<1>6. S \subseteq Int /\ S # {}
  <2> HIDE DEF tier
  <2> QED BY <1>2, <1>3
<1>7. Min(S) \in Int
  <2> HIDE DEF S
  <2> QED BY <1>5, <1>6, LeastOfNumbers
<1>8. WeekBandOf(F, V, a, m) = Steps(WeeklyResetKey(F, a, m), Min(S), WeekBand)
  BY <1>4 DEF WeekBandOf
<1>9. WeeklyResetKey(F, a, m) \in Int
  BY <1>2, <1>3
<1> HIDE DEF S
<1> QED BY <1>7, <1>8, <1>9, StepsIsNumber, TimesAssumption

LEMMA BandsIs ==
  ASSUME Ready, NEW F, IsFleet(F), NEW V, V \subseteq Members, IsFiniteSet(V), NEW a \in V, NEW m, IsModel(m)
  PROVE  Bands(F, V, a, m) \in [1 .. 3 -> Int] /\ Bands(F, V, a, m)[1] = Prio(a)
<1> DEFINE peers == {b \in V : Prio(b) = Prio(a) /\ WeekBandOf(F, V, b, m) = WeekBandOf(F, V, a, m)}
           f     == [b \in peers |-> FiveHourDeadline(F, b)]
           S     == {f[b] : b \in peers}
           five  == Steps(FiveHourDeadline(F, a), Min(S), FiveBand)
<1>1. V \subseteq Accounts /\ Prio(a) \in Int
  BY MembersHavePlaces DEF Prio
<1>2. peers \subseteq V /\ a \in peers
  OBVIOUS
<1>3. \A b \in peers : FiveHourDeadline(F, b) \in Int
  BY <1>1, <1>2, ResetsAreNumbers
<1>4. S = {FiveHourDeadline(F, b) : b \in peers}
  OBVIOUS
<1>5. IsFiniteSet(S)
  <2> HIDE DEF peers
  <2>1. IsFiniteSet(peers) /\ DOMAIN f = peers
    BY <1>2, FS_Subset
  <2> HIDE DEF f
  <2> QED BY <2>1, ImageIsFinite
<1>6. S \subseteq Int /\ S # {}
  <2> HIDE DEF peers
  <2> QED BY <1>2, <1>3
<1>7. five \in Int
  <2>1. FiveHourDeadline(F, a) \in Int
    BY <1>2, <1>3
  <2> HIDE DEF S
  <2> QED BY <1>5, <1>6, <2>1, LeastOfNumbers, StepsIsNumber, TimesAssumption
<1>8. Bands(F, V, a, m) = <<Prio(a), WeekBandOf(F, V, a, m), five>>
  BY <1>4 DEF Bands
<1>9. WeekBandOf(F, V, a, m) \in Int
  BY WeekBandIs
<1> HIDE DEF five
<1> QED BY <1>1, <1>7, <1>8, <1>9

LEMMA ThreeJoined ==
  ASSUME NEW b \in [1 .. 3 -> Int], NEW l \in [1 .. 2 -> Int], NEW e \in [1 .. 2 -> Int]
  PROVE  /\ b \o l \o e \in [1 .. 7 -> Int]
         /\ \A i \in 1 .. 3 : (b \o l \o e)[i] = b[i]
<1> DEFINE bl == b \o l
<1>1. bl \in [1 .. 5 -> Int] /\ \A i \in 1 .. 3 : bl[i] = b[i]
  <2>1. 3 \in Nat /\ 2 \in Nat /\ 5 = 3 + 2
    OBVIOUS
  <2> QED BY <2>1, Joined, ZenonT(60)
<1> HIDE DEF bl
<1>2. bl \o e \in [1 .. 7 -> Int] /\ \A i \in 1 .. 5 : (bl \o e)[i] = bl[i]
  <2>1. 5 \in Nat /\ 2 \in Nat /\ 7 = 5 + 2
    OBVIOUS
  <2> QED BY <1>1, <2>1, Joined, ZenonT(60)
<1>3. \A i \in 1 .. 3 : (bl \o e)[i] = b[i]
  <2>1. \A i \in 1 .. 3 : i \in 1 .. 5
    OBVIOUS
  <2> QED BY <1>1, <1>2, <2>1, Zenon
<1> QED BY <1>2, <1>3 DEF bl

LEMMA SoonestIs ==
  ASSUME Ready, cfg.soonest, NEW F, IsFleet(F), NEW V, V \subseteq Members, IsFiniteSet(V), NEW a \in V, NEW m, IsModel(m)
  PROVE  /\ SoonestRank(F, V, a, m) \in [1 .. 7 -> Int]
         /\ \A i \in 1 .. 3 : SoonestRank(F, V, a, m)[i] = Bands(F, V, a, m)[i]
<1> DEFINE b == Bands(F, V, a, m)
           l == Load(F, a)
           e == <<WeeklyResetKey(F, a, m), FiveHourDeadline(F, a)>>
<1>1. a \in Accounts
  BY MembersHavePlaces
<1>2. b \in [1 .. 3 -> Int] /\ l \in [1 .. 2 -> Int]
  BY <1>1, BandsIs, LoadIs
<1>3. e \in [1 .. 2 -> Int]
  <2>1. WeeklyResetKey(F, a, m) \in Int /\ FiveHourDeadline(F, a) \in Int
    BY <1>1, ResetsAreNumbers
  <2> QED BY <2>1
<1>4. SoonestRank(F, V, a, m) = b \o l \o e
  BY DEF SoonestRank
<1> HIDE DEF b, l, e
<1>5. b \o l \o e \in [1 .. 7 -> Int] /\ \A i \in 1 .. 3 : (b \o l \o e)[i] = b[i]
  BY <1>2, <1>3, ThreeJoined
<1>6. Bands(F, V, a, m) = b
  BY DEF b
<1> HIDE DEF b
<1> QED BY <1>4, <1>5, <1>6

LEMMA DefaultIs ==
  ASSUME Ready, NEW F, IsFleet(F), NEW a \in Members, NEW m, IsModel(m)
  PROVE  DefaultRank(F, a, m) \in [1 .. 4 -> Int] /\ DefaultRank(F, a, m)[1] = Prio(a)
<1> DEFINE p == <<Prio(a)>>
           l == Load(F, a)
           e == <<OrNever(WeeklyResetFor(F, a, m))>>
           pl == p \o l
<1>1. a \in Accounts /\ Prio(a) \in Int
  BY MembersHavePlaces DEF Prio
<1>2. l \in [1 .. 2 -> Int]
  BY <1>1, LoadIs
<1>3. p \in [1 .. 1 -> Int] /\ p[1] = Prio(a)
  BY <1>1
<1>4. e \in [1 .. 1 -> Int]
  <2>1. OrNever(WeeklyResetFor(F, a, m)) \in Int
    BY <1>1, ResetsAreNumbers
  <2> QED BY <2>1
<1>5. DefaultRank(F, a, m) = pl \o e
  BY DEF DefaultRank
<1> HIDE DEF p, l, e
<1>6. p \o l \in [1 .. 3 -> Int] /\ \A i \in 1 .. 1 : (p \o l)[i] = p[i]
  <2>1. 1 \in Nat /\ 2 \in Nat /\ 3 = 1 + 2
    OBVIOUS
  <2> QED BY <1>2, <1>3, <2>1, Joined, ZenonT(60)
<1>7. pl \in [1 .. 3 -> Int] /\ pl[1] = Prio(a)
  BY <1>3, <1>6
<1> HIDE DEF pl
<1>8. pl \o e \in [1 .. 4 -> Int] /\ \A i \in 1 .. 3 : (pl \o e)[i] = pl[i]
  <2>1. 3 \in Nat /\ 1 \in Nat /\ 4 = 3 + 1
    OBVIOUS
  <2> QED BY <1>4, <1>7, <2>1, Joined, ZenonT(60)
<1> QED BY <1>5, <1>7, <1>8

\* How many numbers the band and the default order contribute.
MiddleLength(F, all, m) ==
  IF cfg.expiry THEN IF Cardinality(all) <= 1 \/ Pressures(F, all, m) = {} THEN 0 ELSE 2
                ELSE 4
FrontLength == IF cfg.soonest THEN 7 ELSE 0
RankLength(F, all, m) == (FrontLength + MiddleLength(F, all, m)) + 1

LEMMA LengthsAre ==
  ASSUME NEW F, NEW all, NEW m
  PROVE  FrontLength \in Nat /\ MiddleLength(F, all, m) \in Nat /\ RankLength(F, all, m) \in Nat
<1>1. FrontLength \in Nat
  BY DEF FrontLength
<1>2. MiddleLength(F, all, m) \in Nat
  BY DEF MiddleLength
<1> QED BY <1>1, <1>2 DEF RankLength

LEMMA BandRankIs ==
  ASSUME Ready, cfg.expiry, NEW F, IsFleet(F), NEW all, NEW a \in Members, NEW m, IsModel(m)
  PROVE  BandRank(F, all, a, m) \in [1 .. MiddleLength(F, all, m) -> Int]
<1> DEFINE b == Governing(F, a, m)
           second == IF Known(b.util) THEN -Pressure(b) ELSE -Never * Unit
<1>1. Prio(a) \in Int /\ a \in Accounts
  BY MembersHavePlaces DEF Prio
<1>2. Pressure(b) \in Nat
  BY <1>1, GoverningIs, PressureIsNat
<1>3. -Never * Unit \in Int
  BY TimesAssumption
<1>4. second \in Int
  <2> HIDE DEF b
  <2> QED BY <1>2, <1>3
<1>5. CASE Cardinality(all) <= 1 \/ Pressures(F, all, m) = {}
  BY <1>5 DEF BandRank, MiddleLength
<1>6. CASE ~(Cardinality(all) <= 1 \/ Pressures(F, all, m) = {})
  <2>1. BandRank(F, all, a, m) = <<Prio(a), second>> /\ MiddleLength(F, all, m) = 2
    BY <1>6 DEF BandRank, MiddleLength
  <2> HIDE DEF second
  <2> QED BY <1>1, <1>4, <2>1
<1> QED BY <1>5, <1>6

LEMMA RankIs ==
  ASSUME Ready, NEW F, IsFleet(F), NEW all, NEW V, V \subseteq Members, IsFiniteSet(V), NEW a \in V,
         NEW m, IsModel(m), NEW r, r = Rank(F, all, V, a, m), NEW n, n = RankLength(F, all, m)
  PROVE  /\ n \in Nat /\ r \in [1 .. n -> Int] /\ r[n] = Place(a)
         /\ cfg.soonest => n > 3 /\ \A i \in 1 .. 3 : r[i] = Bands(F, V, a, m)[i]
         /\ ~cfg.expiry \/ cfg.soonest => n > 1 /\ r[1] = Prio(a)
<1> DEFINE f == SoonestRank(F, V, a, m)
           e == IF cfg.expiry THEN BandRank(F, all, a, m) ELSE DefaultRank(F, a, m)
           k == FrontLength
           j == MiddleLength(F, all, m)
           p == <<Place(a)>>
           fe == f \o e
<1>1. k \in Nat /\ j \in Nat /\ n = (k + j) + 1 /\ n \in Nat
  BY LengthsAre DEF RankLength
<1>2. f \in [1 .. k -> Int]
  <2>1. CASE cfg.soonest
    BY <2>1, SoonestIs DEF FrontLength
  <2>2. CASE ~cfg.soonest
    BY <2>2 DEF SoonestRank, FrontLength
  <2> QED BY <2>1, <2>2
<1>3. e \in [1 .. j -> Int]
  <2>1. CASE cfg.expiry
    BY <2>1, BandRankIs
  <2>2. CASE ~cfg.expiry
    BY <2>2, DefaultIs DEF MiddleLength
  <2> QED BY <2>1, <2>2
<1>4. p \in [1 .. 1 -> Int] /\ p[1] = Place(a)
  <2>1. Place(a) \in Int
    BY MembersHavePlaces
  <2> QED BY <2>1
<1>5. r = fe \o p
  BY DEF Rank
<1>6. cfg.soonest => k = 7 /\ \A i \in 1 .. 3 : f[i] = Bands(F, V, a, m)[i]
  BY SoonestIs DEF FrontLength
<1>7. ~cfg.soonest /\ ~cfg.expiry => k = 0 /\ j = 4 /\ e[1] = Prio(a)
  BY DefaultIs DEF FrontLength, MiddleLength
<1> HIDE DEF f, e, k, j, p
<1>8. fe \in [1 .. k + j -> Int] /\ (\A i \in 1 .. k : fe[i] = f[i]) /\ \A i \in 1 .. j : fe[k + i] = e[i]
  BY <1>1, <1>2, <1>3, Joined
<1> HIDE DEF fe
<1>9. /\ r \in [1 .. (k + j) + 1 -> Int] /\ (\A i \in 1 .. k + j : r[i] = fe[i])
      /\ \A i \in 1 .. 1 : r[(k + j) + i] = p[i]
  <2> DEFINE l == k + j
  <2>1. l \in Nat /\ 1 \in Nat
    BY <1>1
  <2>2. fe \in [1 .. l -> Int]
    BY <1>8
  <2> HIDE DEF l
  <2>3. /\ fe \o p \in [1 .. l + 1 -> Int] /\ (\A i \in 1 .. l : (fe \o p)[i] = fe[i])
        /\ \A i \in 1 .. 1 : (fe \o p)[l + i] = p[i]
    BY <1>4, <2>1, <2>2, Joined, ZenonT(60)
  <2> QED BY <1>5, <2>3 DEF l
<1>10. r \in [1 .. n -> Int] /\ r[n] = Place(a)
  BY <1>1, <1>4, <1>9
<1>11. ASSUME cfg.soonest
       PROVE  n > 3 /\ \A i \in 1 .. 3 : r[i] = Bands(F, V, a, m)[i]
  <2>1. \A i \in 1 .. 3 : i \in 1 .. k /\ i \in 1 .. k + j
    BY <1>1, <1>6, <1>11
  <2>2. \A i \in 1 .. 3 : r[i] = f[i]
    BY <1>8, <1>9, <2>1
  <2> QED BY <1>1, <1>6, <1>11, <2>2
<1>12. ASSUME ~cfg.soonest, ~cfg.expiry
       PROVE  n > 1 /\ r[1] = Prio(a)
  <2>1. fe[0 + 1] = e[1] /\ r[1] = fe[1] /\ n = 5
    BY <1>1, <1>7, <1>8, <1>9, <1>12
  <2> QED BY <1>7, <1>12, <2>1
<1>13. cfg.soonest => r[1] = Prio(a)
  BY <1>11, BandsIs
<1> QED BY <1>1, <1>10, <1>11, <1>12, <1>13

-----------------------------------------------------------------------------
\* The best account.

LEMMA LeastRanked ==
  ASSUME Ready, NEW F, IsFleet(F), NEW all, NEW V, V \subseteq Members, IsFiniteSet(V), V # {},
         NEW m, IsModel(m)
  PROVE  \E a \in V : \A b \in V \ {a} : LexLess(Rank(F, all, V, a, m), Rank(F, all, V, b, m))
<1> DEFINE rank == [a \in V |-> Rank(F, all, V, a, m)]
           n    == RankLength(F, all, m)
<1>1. n \in Nat
  BY LengthsAre
<1>2. \A a \in V : rank[a] \in [1 .. n -> Int] /\ rank[a][n] = Place(a)
  BY RankIs
<1>3. \A a, b \in V : rank[a] = rank[b] => a = b
  BY <1>2, MembersHavePlaces
<1>4. rank \in [V -> [1 .. n -> Int]]
  BY <1>2
<1>5. \A a \in V : rank[a] = Rank(F, all, V, a, m)
  OBVIOUS
<1> HIDE DEF rank, n
<1>6. \E a \in V : \A b \in V \ {a} : LexLess(rank[a], rank[b])
  BY <1>1, <1>3, <1>4, LeastOfTuples
<1> QED BY <1>5, <1>6

\* Some account has the best priority of all.
LEMMA TopTierIs ==
  ASSUME Ready, NEW V, V \subseteq Members, IsFiniteSet(V), V # {}
  PROVE  TopTier(V) # {} /\ TopTier(V) \subseteq V /\ IsFiniteSet(TopTier(V))
<1> DEFINE f == [a \in V |-> Prio(a)]
           S == {f[a] : a \in V}
<1>1. \A a \in V : f[a] = Prio(a) /\ f[a] \in Int
  BY MembersHavePlaces DEF Prio
<1>2. IsFiniteSet(S)
  <2>1. DOMAIN f = V
    OBVIOUS
  <2> HIDE DEF f
  <2> QED BY <2>1, ImageIsFinite
<1>3. S \subseteq Int /\ S # {}
  BY <1>1
<1>4. Min(S) \in S /\ \A y \in S : Min(S) <= y
  <2> HIDE DEF S
  <2> QED BY <1>2, <1>3, LeastOfNumbers
<1>5. PICK a \in V : Min(S) = f[a]
  BY <1>4
<1>6. \A b \in V : Prio(a) <= Prio(b)
  BY <1>1, <1>4, <1>5
<1> QED BY <1>6, FS_Subset DEF TopTier

\* The band leaves accounts of the best priority in.
LEMMA KeptIs ==
  ASSUME Ready, NEW F, IsFleet(F), NEW V, V \subseteq Members, IsFiniteSet(V), NEW m, IsModel(m)
  PROVE  /\ Kept(F, V, m) \subseteq V
         /\ V # {} => \E a \in Kept(F, V, m) : a \in TopTier(V)
<1> DEFINE read == {x \in TopTier(V) : Measured(Governing(F, x, m))}
           f    == [a \in read |-> Pressure(Governing(F, a, m))]
           P    == Pressures(F, V, m)
           Near(a) == LET b == Governing(F, a, m)
                      IN ~Known(b.util) \/ Pressure(b) * cfg.tolerance >= Max(P)
<1>1. Kept(F, V, m) = IF Cardinality(V) <= 1 \/ P = {} THEN V ELSE {a \in V : a \in TopTier(V) => Near(a)}
  BY DEF Kept
<1>2. Kept(F, V, m) \subseteq V
  <2> HIDE DEF P, Near
  <2> QED BY <1>1
<1>3. ASSUME V # {}, ~(Cardinality(V) <= 1 \/ P = {})
      PROVE  \E a \in Kept(F, V, m) : a \in TopTier(V)
  <2>1. TopTier(V) \subseteq V /\ IsFiniteSet(TopTier(V))
    BY <1>3, TopTierIs
  <2>2. \A a \in TopTier(V) : Pressure(Governing(F, a, m)) \in Nat
    BY <2>1, MembersHavePlaces, GoverningIs, PressureIsNat
  <2>3. P = {f[a] : a \in read}
    BY DEF Pressures
  <2>4. IsFiniteSet(P) /\ P \subseteq Int /\ P # {}
    <3>1. IsFiniteSet(read) /\ DOMAIN f = read
      BY <2>1, FS_Subset
    <3>2. P \subseteq Int
      BY <2>2, <2>3
    <3> HIDE DEF f, read, P
    <3> QED BY <1>3, <2>3, <3>1, <3>2, ImageIsFinite
  <2>5. Max(P) \in P
    <3> HIDE DEF P
    <3> QED BY <2>4, GreatestOfNumbers
  <2>6. PICK a \in TopTier(V) : Max(P) = Pressure(Governing(F, a, m))
    BY <2>3, <2>5
  <2>7. cfg.tolerance \in Nat \ {0}
    BY ConfigsAssumption DEF Ready
  <2> DEFINE p == Pressure(Governing(F, a, m))
  <2>8. p \in Nat
    BY <2>2
  <2>9. p * cfg.tolerance >= p
    <3> DEFINE t == cfg.tolerance
    <3>1. t \in Nat /\ t >= 1
      BY <2>7
    <3> HIDE DEF p, t
    <3> QED BY <2>8, <3>1 DEF t
  <2>10. Near(a)
    <3> HIDE DEF P
    <3> QED BY <2>6, <2>9
  <2>11. a \in V
    BY <2>1
  <2> HIDE DEF P, Near
  <2>12. a \in Kept(F, V, m)
    BY <1>1, <1>3, <2>10, <2>11
  <2> QED BY <2>12
<1>4. ASSUME V # {}, Cardinality(V) <= 1 \/ P = {}
      PROVE  \E a \in Kept(F, V, m) : a \in TopTier(V)
  <2>1. Kept(F, V, m) = V
    <3> HIDE DEF P, Near
    <3> QED BY <1>1, <1>4
  <2> QED BY <1>4, <2>1, TopTierIs
<1> QED BY <1>2, <1>3, <1>4

LEMMA BestIs ==
  ASSUME Ready, NEW F, IsFleet(F), NEW q, IsModel(q.model), NEW tried,
         NEW A, A = Available(F, q, tried), NEW best, best = Best(F, q, tried)
  PROVE  /\ A = {} => best = NoAccount
         /\ A # {} => best \in A
         /\ A # {} /\ (~cfg.expiry \/ cfg.soonest) => \A b \in A : Prio(best) <= Prio(b)
         /\ A # {} /\ cfg.soonest /\ ~cfg.expiry =>
              \A b \in A : ~LexLess(Bands(F, A, b, q.model), Bands(F, A, best, q.model))
<1> DEFINE m == q.model
           V == IF cfg.expiry THEN Kept(F, A, m) ELSE A
           R(a) == Rank(F, A, V, a, m)
           n == RankLength(F, A, m)
<1>1. A \subseteq Members /\ IsFiniteSet(A)
  BY AvailableIs
<1>2. /\ V \subseteq A /\ IsFiniteSet(V)
      /\ A # {} => \E a \in V : a \in TopTier(A)
  <2>1. /\ Kept(F, A, m) \subseteq A
        /\ A # {} => \E a \in Kept(F, A, m) : a \in TopTier(A)
    BY <1>1, KeptIs
  <2>2. A # {} => \E a \in A : a \in TopTier(A)
    BY <1>1, TopTierIs
  <2>3. V \subseteq A /\ (A # {} => \E a \in V : a \in TopTier(A))
    BY <2>1, <2>2
  <2> HIDE DEF V
  <2> QED BY <1>1, <2>3, FS_Subset
<1>3. best = IF V = {} THEN NoAccount
             ELSE CHOOSE a \in V : \A b \in V \ {a} : LexLess(R(a), R(b))
  BY DEF Best
<1>4. V # {} => \E a \in V : \A b \in V \ {a} : LexLess(R(a), R(b))
  <2> HIDE DEF V
  <2> QED BY <1>1, <1>2, LeastRanked
<1> HIDE DEF V
<1>5. V # {} => best \in V /\ \A b \in V \ {best} : LexLess(R(best), R(b))
  <2> HIDE DEF R
  <2> QED BY <1>3, <1>4
<1>6. A = {} => best = NoAccount
  BY <1>2, <1>3
<1>7. A # {} => best \in A
  BY <1>2, <1>5
<1>8. n \in Nat
  BY LengthsAre
<1>9. \A a \in V : /\ R(a) \in [1 .. n -> Int]
                   /\ cfg.soonest => n > 3 /\ \A i \in 1 .. 3 : R(a)[i] = Bands(F, V, a, m)[i]
                   /\ ~cfg.expiry \/ cfg.soonest => n > 1 /\ R(a)[1] = Prio(a)
  <2> TAKE a \in V
  <2> DEFINE r == R(a)
  <2>1. r = Rank(F, A, V, a, m) /\ V \subseteq Members /\ n = RankLength(F, A, m)
    BY <1>1, <1>2
  <2> HIDE DEF r, n
  <2>2. /\ r \in [1 .. n -> Int]
        /\ cfg.soonest => n > 3 /\ \A i \in 1 .. 3 : r[i] = Bands(F, V, a, m)[i]
        /\ ~cfg.expiry \/ cfg.soonest => n > 1 /\ r[1] = Prio(a)
    BY <1>2, <2>1, RankIs
  <2> QED BY <2>2 DEF r
<1> HIDE DEF R, n
<1>10. ASSUME A # {}, ~cfg.expiry \/ cfg.soonest, NEW b \in A
       PROVE  Prio(best) <= Prio(b)
  <2>1. PICK t \in V : t \in TopTier(A)
    BY <1>2, <1>10
  <2>2. best \in V /\ (t # best => LexLess(R(best), R(t)))
    BY <1>5, <2>1
  <2>3. Prio(best) \in Int /\ Prio(t) \in Int /\ Prio(b) \in Int /\ Prio(t) <= Prio(b)
    BY <1>1, <1>2, <2>1, <2>2, MembersHavePlaces DEF TopTier, Prio
  <2>4. /\ R(best) \in [1 .. n -> Int] /\ R(t) \in [1 .. n -> Int] /\ n > 1
        /\ R(best)[1] = Prio(best) /\ R(t)[1] = Prio(t)
    BY <1>9, <1>10, <2>1, <2>2
  <2>5. ASSUME t # best PROVE R(best)[1] <= R(t)[1]
    <3>1. PICK i \in 1 .. n : R(best)[i] < R(t)[i] /\ \A j \in 1 .. i - 1 : R(best)[j] = R(t)[j]
      BY <2>2, <2>4, <2>5 DEF LexLess
    <3>2. i = 1 \/ 1 \in 1 .. i - 1
      BY <1>8
    <3> QED BY <2>3, <2>4, <3>1, <3>2
  <2> QED BY <2>3, <2>4, <2>5
<1>11. ASSUME A # {}, cfg.soonest, ~cfg.expiry, NEW b \in A,
              LexLess(Bands(F, A, b, m), Bands(F, A, best, m))
       PROVE  FALSE
  <2>1. V = A
    BY <1>11 DEF V
  <2>2. /\ R(best) \in [1 .. n -> Int] /\ R(b) \in [1 .. n -> Int] /\ n > 3
        /\ \A i \in 1 .. 3 : R(best)[i] = Bands(F, A, best, m)[i] /\ R(b)[i] = Bands(F, A, b, m)[i]
    BY <1>7, <1>9, <1>11, <2>1
  <2>3. Bands(F, A, b, m) \in [1 .. 3 -> Int]
    BY <1>1, <1>11, BandsIs
  <2>4. PICK i \in 1 .. 3 : /\ Bands(F, A, b, m)[i] < Bands(F, A, best, m)[i]
                            /\ \A j \in 1 .. i - 1 : Bands(F, A, b, m)[j] = Bands(F, A, best, m)[j]
    BY <1>11, <2>3 DEF LexLess
  <2>5. \A j \in 1 .. i - 1 : j \in 1 .. 3
    OBVIOUS
  <2>6. R(b)[i] < R(best)[i] /\ (\A j \in 1 .. i - 1 : R(b)[j] = R(best)[j]) /\ i \in 1 .. n
    BY <1>8, <2>2, <2>4, <2>5
  <2>7. LexLess(R(b), R(best))
    BY <2>2, <2>6 DEF LexLess
  <2>8. ~LexLess(R(best), R(b))
    BY <1>8, <2>2, <2>7, LexAsymmetric
  <2>9. b = best
    BY <1>5, <1>11, <2>1, <2>8
  <2> QED BY <1>8, <2>2, <2>7, <2>8, <2>9
<1> QED BY <1>6, <1>7, <1>10, <1>11

-----------------------------------------------------------------------------
\* What select changes of the accounts.

LEMMA BlankIs == Blank \in Bucket(Times, Utils)
BY DEF Blank, Bucket

LEMMA ClearedIs ==
  ASSUME NEW q \in [Keys -> Bucket(Times, Utils)], NEW limit, NEW at
  PROVE  ClearExpired(q, limit, at) \in [Keys -> Bucket(Times, Utils)]
BY BlankIs DEF ClearExpired

LEMMA ExpiredIs ==
  ASSUME IsFleet(acct)
  PROVE  /\ IsFleet(Expired)
         /\ \A a \in Accounts : Expired[a].flight = acct[a].flight /\ Expired[a].open = acct[a].open
<1>1. ASSUME NEW a \in Accounts
      PROVE  IsAccount(Expired[a]) /\ Expired[a].flight = acct[a].flight /\ Expired[a].open = acct[a].open
  <2> DEFINE x == acct[a]
             y == Lapsed(x)
             c == ClearExpired(y.quota, cfg.threshold, now)
  <2>1. IsAccount(x)
    BY DEF IsFleet
  <2>2. IsAccount(y) /\ y.flight = x.flight /\ y.open = x.open
    <3> HIDE DEF x
    <3>1. CASE Known(x.until) /\ x.until <= now
      BY <2>1, <3>1 DEF Lapsed, IsAccount
    <3>2. CASE ~(Known(x.until) /\ x.until <= now)
      BY <2>1, <3>2 DEF Lapsed, IsAccount
    <3> QED BY <3>1, <3>2
  <2>3. c \in [Keys -> Bucket(Times, Utils)]
    BY <2>2, ClearedIs DEF IsAccount
  <2>4. Expired[a] = IF a \in Members THEN [y EXCEPT !.quota = c] ELSE x
    BY DEF Expired
  <2> HIDE DEF c, y, x
  <2>5. LET z == [y EXCEPT !.quota = c] IN IsAccount(z) /\ z.flight = y.flight /\ z.open = y.open
    BY <2>2, <2>3 DEF IsAccount
  <2> QED BY <2>1, <2>2, <2>4, <2>5 DEF x
<1>2. Expired = [a \in Accounts |-> Expired[a]]
  BY DEF Expired
<1> QED BY <1>1, <1>2 DEF IsFleet

LEMMA OneTouched ==
  ASSUME NEW F, IsFleet(F), NEW a, NEW y, a \in Accounts => SameAccount(F[a], y)
  PROVE  SameFleet(F, [F EXCEPT ![a] = y])
<1>1. F = [b \in Accounts |-> F[b]] /\ \A b \in Accounts : SameAccount(F[b], F[b])
  BY DEF IsFleet, SameAccount
<1> DEFINE G == [F EXCEPT ![a] = y]
<1>2. G = [b \in Accounts |-> IF b = a THEN y ELSE F[b]]
  BY <1>1
<1> HIDE DEF G
<1>3. SameFleet(F, G)
  BY <1>1, <1>2 DEF SameFleet
<1> QED BY <1>3 DEF G

LEMMA SameIsFleet ==
  ASSUME NEW F, NEW G, SameFleet(F, G)
  PROVE  IsFleet(G)
BY DEF SameFleet, SameAccount, IsFleet

LEMMA SameSame ==
  ASSUME NEW F, NEW G, NEW H, SameFleet(F, G), SameFleet(G, H)
  PROVE  SameFleet(F, H)
BY DEF SameFleet, SameAccount

LEMMA NothingTouched ==
  ASSUME NEW F, IsFleet(F)
  PROVE  SameFleet(F, F)
BY DEF SameFleet, SameAccount, IsFleet

LEMMA TakenIs ==
  ASSUME NEW F, IsFleet(F)
  PROVE  SameFleet(F, Taken(F))
<1> DEFINE y == [F[current] EXCEPT !.requalify = FALSE]
<1>1. current \in Accounts => SameAccount(F[current], y)
  BY DEF IsFleet, IsAccount, SameAccount
<1>2. Taken(F) = F \/ Taken(F) = [F EXCEPT ![current] = y]
  BY DEF Taken
<1> HIDE DEF y
<1> QED BY <1>1, <1>2, OneTouched, NothingTouched

LEMMA LandedIs ==
  ASSUME NEW F, IsFleet(F), NEW a
  PROVE  SameFleet(F, Landed(F, a))
<1> DEFINE v == ~Known(F[a].quota["7d"].reset)
           y == [F[a] EXCEPT !.probing = v]
<1>1. a \in Accounts => SameAccount(F[a], y)
  <2> HIDE DEF v
  <2> QED BY DEF IsFleet, IsAccount, SameAccount
<1>2. Landed(F, a) = F \/ Landed(F, a) = [F EXCEPT ![a] = y]
  BY DEF Landed
<1> HIDE DEF y
<1> QED BY <1>1, <1>2, OneTouched, NothingTouched

LEMMA NotedIs ==
  ASSUME NEW F, IsFleet(F), NEW a, NEW m
  PROVE  SameFleet(F, Noted(F, a, m))
<1> DEFINE w == WeeklyKeyFor(m)
           b == [F[a].baseline EXCEPT ![w] = F[a].quota[w].reset]
           y == [F[a] EXCEPT !.baseline = b]
<1>1. a \in Accounts => SameAccount(F[a], y)
  <2> HIDE DEF b
  <2> QED BY DEF IsFleet, IsAccount, SameAccount
<1>2. Noted(F, a, m) = F \/ Noted(F, a, m) = [F EXCEPT ![a] = y]
  BY DEF Noted
<1> HIDE DEF y
<1> QED BY <1>1, <1>2, OneTouched, NothingTouched

LEMMA ProbedIs ==
  ASSUME NEW F, IsFleet(F), NEW a
  PROVE  SameFleet(F, [F EXCEPT ![a].probed = now])
<1> DEFINE y == [F[a] EXCEPT !.probed = now]
<1>1. a \in Accounts => SameAccount(F[a], y)
  BY DEF IsFleet, IsAccount, SameAccount
<1>2. [F EXCEPT ![a].probed = now] = [F EXCEPT ![a] = y]
  OBVIOUS
<1> HIDE DEF y
<1> QED BY <1>1, <1>2, OneTouched

\* Neither does what an account is ranked by change.
LEMMA SameBands ==
  ASSUME Ready, NEW F, NEW G, SameFleet(F, G), NEW V, V \subseteq Members, NEW a \in V, NEW m
  PROVE  Bands(G, V, a, m) = Bands(F, V, a, m)
<1>1. \A b \in V : G[b].quota = F[b].quota
  BY MembersHavePlaces DEF SameFleet, SameAccount
<1>2. \A b \in V : /\ WeeklyResetKey(G, b, m) = WeeklyResetKey(F, b, m)
                   /\ FiveHourDeadline(G, b) = FiveHourDeadline(F, b)
  BY <1>1 DEF WeeklyResetKey, WeeklyResetFor, FiveHourDeadline
<1>3. \A b \in V : WeekBandOf(G, V, b, m) = WeekBandOf(F, V, b, m)
  <2> TAKE b \in V
  <2> DEFINE tier == {c \in V : Prio(c) = Prio(b)}
  <2>1. {WeeklyResetKey(G, c, m) : c \in tier} = {WeeklyResetKey(F, c, m) : c \in tier}
    BY <1>2
  <2> QED BY <1>2, <2>1 DEF WeekBandOf
<1> DEFINE peers(H) == {b \in V : Prio(b) = Prio(a) /\ WeekBandOf(H, V, b, m) = WeekBandOf(H, V, a, m)}
           fives(H) == {FiveHourDeadline(H, b) : b \in peers(H)}
<1>4. peers(G) = peers(F)
  BY <1>3
<1>5. fives(G) = fives(F)
  BY <1>2, <1>4
<1>6. \A H : Bands(H, V, a, m) = <<Prio(a), WeekBandOf(H, V, a, m), Steps(FiveHourDeadline(H, a), Min(fives(H)), FiveBand)>>
  BY DEF Bands
<1> HIDE DEF fives
<1> QED BY <1>2, <1>3, <1>5, <1>6

-----------------------------------------------------------------------------
\* Which account select gives.

\* Of the accounts A that could serve a request, none is preferred to a.
Good(F, A, a, m) ==
  /\ a \in A
  /\ ~cfg.expiry \/ cfg.soonest => \A b \in A : Prio(a) <= Prio(b)
  /\ cfg.soonest /\ ~cfg.expiry => \A b \in A : ~LexLess(Bands(F, A, b, m), Bands(F, A, a, m))

LEMMA BestIsGood ==
  ASSUME Ready, NEW F, IsFleet(F), NEW q, IsModel(q.model), NEW tried,
         NEW best, best = Best(F, q, tried), best # NoAccount
  PROVE  Good(F, Available(F, q, tried), best, q.model)
BY BestIs DEF Good

\* An account that a request stays on is as good as the best.
LEMMA StayingIsGood ==
  ASSUME Ready, NEW F, IsFleet(F), NEW q, IsModel(q.model), NEW tried, NEW a, Stays(F, a, q, tried)
  PROVE  Good(F, Available(F, q, tried), a, q.model)
<1> DEFINE A == Available(F, q, tried)
           best == Best(F, q, tried)
           B(b) == Bands(F, A, b, q.model)
<1>1. a \in A
  BY DEF Stays, Serves, Available
<1>2. A \subseteq Members /\ IsFiniteSet(A) /\ A \subseteq Accounts
  BY AvailableIs, MembersHavePlaces
<1>3. best # NoAccount /\ Good(F, A, best, q.model)
  <2>1. best \in A
    BY <1>1, BestIs
  <2>2. best # NoAccount
    BY <1>2, <2>1, RequestsAssumption
  <2> QED BY <2>2, BestIsGood
<1>4. ~(Prio(best) < Prio(a)) /\ ~Preempts(F, best, a, q, tried)
  BY <1>3 DEF Stays, Better
<1>5. \A b \in A : Prio(b) \in Int /\ B(b) \in [1 .. 3 -> Int]
  <2> TAKE b \in A
  <2>1. B(b) \in [1 .. 3 -> Int]
    BY <1>2, BandsIs
  <2> QED BY <1>2, <2>1, MembersHavePlaces DEF Prio
<1>6. cfg.soonest => best = a \/ ~LexLess(B(best), B(a))
  BY <1>1, <1>3, <1>4 DEF Preempts, Good
<1> HIDE DEF A, best
<1>7. ASSUME ~cfg.expiry \/ cfg.soonest, NEW b \in A
      PROVE  Prio(a) <= Prio(b)
  <2>1. Prio(best) <= Prio(b) /\ best \in A
    BY <1>3, <1>7 DEF Good
  <2> QED BY <1>1, <1>4, <1>5, <2>1
<1>8. ASSUME cfg.soonest, ~cfg.expiry, NEW b \in A, LexLess(B(b), B(a))
      PROVE  FALSE
  <2>1. ~LexLess(B(b), B(best)) /\ best \in A
    BY <1>3, <1>8 DEF Good
  <2> DEFINE x == B(a)  y == B(best)  z == B(b)
  <2>2. x \in [1 .. 3 -> Int] /\ y \in [1 .. 3 -> Int] /\ z \in [1 .. 3 -> Int] /\ 3 \in Nat
    BY <1>1, <1>5, <2>1
  <2>3. LexLess(z, x) /\ ~LexLess(z, y) /\ (x = y \/ ~LexLess(y, x))
    BY <1>6, <1>8, <2>1
  <2> HIDE DEF x, y, z
  <2>4. x = y \/ LexLess(x, y)
    BY <2>2, <2>3, LexTotal, Zenon
  <2> QED BY <2>2, <2>3, <2>4, LexTransitive, Zenon
<1> QED BY <1>1, <1>7, <1>8 DEF Good, A

LEMMA SameGood ==
  ASSUME Ready, NEW F, NEW G, SameFleet(F, G), NEW A, A \subseteq Members, NEW a, NEW m, Good(G, A, a, m)
  PROVE  Good(F, A, a, m)
<1>1. \A b \in A : Bands(G, A, b, m) = Bands(F, A, b, m)
  BY SameBands
<1> QED BY <1>1 DEF Good

LEMMA ToProbeIs ==
  ASSUME Ready, NEW F, IsFleet(F), NEW q, IsModel(q.model), NEW tried, Soft(F, q, tried) # {}
  PROVE  ToProbe(F, q, tried) \in Members
<1> DEFINE S    == Soft(F, q, tried)
           W(a) == LET w == WeeklyResetFor(F, a, q.model)
                   IN IF Known(w) THEN w ELSE OrNever(F[a].quota["5h"].reset)
           R(a) == <<W(a), Place(a)>>
           f    == [a \in S |-> R(a)]
<1>1. S \subseteq Members
  BY DEF Soft
<1>2. IsFiniteSet(S)
  <2> HIDE DEF S
  <2> QED BY <1>1, MembersHavePlaces, FS_Subset
<1>3. \A a \in S : R(a) \in [1 .. 2 -> Int] /\ R(a)[2] = Place(a)
  <2> TAKE a \in S
  <2>1. a \in Accounts /\ Place(a) \in Int
    BY <1>1, MembersHavePlaces
  <2>2. WeeklyResetFor(F, a, q.model) \in Int /\ F[a].quota["5h"].reset \in Int /\ Never \in Int
    BY <2>1, ResetsAreNumbers, ReadingsAreNumbers, WeeklyIsKey, TimesAssumption DEF IsFleet
  <2>3. W(a) \in Int
    BY <2>2 DEF OrNever
  <2> HIDE DEF W
  <2> QED BY <2>1, <2>3
<1>4. ToProbe(F, q, tried) = CHOOSE a \in S : \A b \in S \ {a} : LexLess(R(a), R(b))
  BY DEF ToProbe
<1>5. \A a \in S : f[a] = R(a)
  OBVIOUS
<1> HIDE DEF S, R
<1>6. f \in [S -> [1 .. 2 -> Int]] /\ \A a, b \in S : f[a] = f[b] => a = b
  BY <1>1, <1>3, MembersHavePlaces
<1>7. S # {} /\ 2 \in Nat
  BY DEF S
<1> HIDE DEF f
<1>8. \E a \in S : \A b \in S \ {a} : LexLess(f[a], f[b])
  BY <1>2, <1>6, <1>7, LeastOfTuples, Zenon
<1>9. \E a \in S : \A b \in S \ {a} : LexLess(R(a), R(b))
  BY <1>5, <1>8
<1>10. ToProbe(F, q, tried) \in S
  BY <1>4, <1>9
<1> QED BY <1>1, <1>10

\* A path that applies has one outcome.
LEMMA FirstOf ==
  ASSUME NEW applies, NEW x, NEW out \in When(applies, x)
  PROVE  applies /\ out = x
BY DEF When

IsAnswer(F, q, tried, out) ==
  /\ SameFleet(F, out.fleet)
  /\ out.at \in Members \cup {NoAccount} /\ out.cursor \in Members \cup {NoAccount}
  /\ LET A == Available(F, q, tried)
     IN A # {} /\ Free(q) => Good(F, A, out.at, q.model)

\* Whichever path answers, nothing an account is ranked by changes, the request
\* is given to a member of the pool, and, when nobody pinned it, to one as good
\* as the best.
LEMMA SelectIs ==
  ASSUME Ready, NEW F, IsFleet(F), current \in Members \cup {NoAccount},
         NEW q, IsModel(q.model), NEW tried, NEW seat, NEW out, out = SelectIn(F, q, tried, seat)
  PROVE  /\ IsAnswer(F, q, tried, out)
         /\ Free(q) /\ seat # NoAccount /\ Stays(F, seat, q, tried) => out.at = seat
<1> DEFINE T    == Taken(F)
           best == Best(F, q, tried)
           A    == Available(F, q, tried)
           m    == q.model
           P1 == PinPath(F, q)
           P2 == RoutePinPath(F, q, tried)
           P3 == SeatPath(F, q, tried, seat)
           P4 == SpreadPath(F, q, best)
           P5 == RequalifyPath(F, q, best)
           P6 == CursorPath(T, q, tried)
           P7 == DivertPath(T, q, tried, best)
           P8 == BestPath(T, q, best)
           P9 == ProbePath(T, q, tried)
           none == On("exhausted", NoAccount, T)
<1>1. SameFleet(F, T) /\ IsFleet(T)
  BY TakenIs, SameIsFleet
<1>2. /\ A \subseteq Members /\ Members \subseteq Accounts /\ NoAccount \notin Members
      /\ best # NoAccount => best \in Members /\ Good(F, A, best, m)
      /\ A # {} => best # NoAccount
  <2>1. A \subseteq Members /\ Members \subseteq Accounts /\ NoAccount \notin Members
    BY AvailableIs, MembersHavePlaces, RequestsAssumption
  <2>2. best # NoAccount => Good(F, A, best, m)
    BY BestIsGood
  <2>3. A # {} => best \in A
    BY BestIs
  <2> HIDE DEF A, best
  <2> QED BY <2>1, <2>2, <2>3 DEF Good
<1>3. \/ out \in P1
      \/ P1 = {} /\ out \in P2
      \/ P1 = {} /\ P2 = {} /\ out \in P3
      \/ P1 = {} /\ P2 = {} /\ P3 = {} /\ \/ out \in P4 \cup P5 \cup P6 \cup P7 \cup P8
                                          \/ P8 = {} /\ out \in P9 \cup {none}
  <2> DEFINE E == Else(P1, Else(P2, Else(P3, Else(P4, Else(P5, Else(P6, Else(P7, Else(P8,
                  Else(P9, {none})))))))))
  <2>1. out = CHOOSE o \in E : TRUE
    BY DEF SelectIn, Paths
  <2> HIDE DEF P1, P2, P3, P4, P5, P6, P7, P8, P9, none
  <2>2. E # {}
    BY DEF Else
  <2> HIDE DEF E
  <2>3. out \in E
    BY <2>1, <2>2
  <2> QED BY <2>3 DEF E, Else
<1>4. Free(q) => P1 = {} /\ P2 = {}
  BY DEF Free, PinPath, RoutePinPath, When, Serves
<1>5. \A via, a, G : /\ On(via, a, G).at = a /\ On(via, a, G).fleet = G /\ On(via, a, G).cursor = current
                     /\ Moving(via, a, G).at = a /\ Moving(via, a, G).fleet = G /\ Moving(via, a, G).cursor = a
  BY DEF On, Moving
\* What an answer is when the account it gives is good.
<1>6. ASSUME NEW G, SameFleet(F, G), NEW a, a \in Members, Good(F, A, a, m), NEW via,
             out = On(via, a, G) \/ out = Moving(via, a, G)
      PROVE  IsAnswer(F, q, tried, out)
  <2>1. out.fleet = G /\ out.at = a /\ out.cursor \in {current, a}
    BY <1>5, <1>6
  <2> QED BY <1>6, <2>1 DEF IsAnswer
<1>7. ASSUME out \in P1 \/ out \in P2 PROVE IsAnswer(F, q, tried, out) /\ ~Free(q)
  <2>1. ~Free(q)
    BY <1>4, <1>7
  <2>2. SameFleet(F, F)
    BY NothingTouched
  <2>3. out.at \in Members \cup {NoAccount} /\ out.fleet = F /\ out.cursor = current
    <3>1. CASE out \in P1
      BY <1>5, <3>1, FirstOf DEF PinPath
    <3>2. CASE out \in P2
      <4> DEFINE a == RoutePinned(q)
      <4>1. Serves(F, a, q) /\ out = On("routePin", a, F)
        BY <3>2, FirstOf DEF RoutePinPath
      <4>2. a \in Members
        BY <4>1 DEF Serves
      <4> HIDE DEF a
      <4> QED BY <1>5, <4>1, <4>2
    <3> QED BY <1>7, <3>1, <3>2
  <2> QED BY <2>1, <2>2, <2>3 DEF IsAnswer
<1>8. ASSUME out \in P3 PROVE IsAnswer(F, q, tried, out) /\ out.at = seat
  <2>1. Stays(F, seat, q, tried) /\ out = On("seat", seat, Noted(F, seat, m))
    BY <1>8, FirstOf DEF SeatPath
  <2>2. Good(F, A, seat, m) /\ SameFleet(F, Noted(F, seat, m))
    BY <2>1, StayingIsGood, NotedIs
  <2>3. seat \in Members
    BY <1>2, <2>2 DEF Good
  <2> HIDE DEF A
  <2> QED BY <1>5, <1>6, <2>1, <2>2, <2>3
<1>9. ASSUME out \in P4 \cup P5 \cup P7 \cup P8 PROVE IsAnswer(F, q, tried, out)
  <2>1. \A G : SameFleet(F, G) => SameFleet(F, Landed(G, best)) /\ SameFleet(F, Noted(G, best, m))
    BY SameIsFleet, LandedIs, NotedIs, SameSame
  <2>2. SameFleet(F, F)
    BY NothingTouched
  <2>3. /\ best # NoAccount
        /\ \E via, G : SameFleet(F, G) /\ (out = On(via, best, G) \/ out = Moving(via, best, G))
    <3> HIDE DEF best, T, A
    <3>1. CASE out \in P4
      <4>1. /\ best # NoAccount
            /\ \/ out = On("spread", best, F)
               \/ out = Moving("spread", best, Landed(F, best))
        <5> DEFINE x == IF CursorServes(F, q) THEN On("spread", best, F)
                                              ELSE Moving("spread", best, Landed(F, best))
        <5>1. best # NoAccount /\ out = x
          <6> HIDE DEF x
          <6> QED BY <3>1, FirstOf DEF SpreadPath, x
        <5> QED BY <5>1
      <4> QED BY <2>1, <2>2, <4>1
    <3>2. CASE out \in P5
      <4>1. best # NoAccount /\ out = Moving("requalified", best, Noted(Landed(T, best), best, m))
        BY <3>2, FirstOf DEF RequalifyPath, T
      <4> QED BY <1>1, <2>1, <4>1
    <3>3. CASE out \in P7
      <4>1. /\ best # NoAccount
            /\ \/ out = On("diverted", best, Landed(T, best))
               \/ out = Moving("failedOver", best, Landed(T, best))
        <5> DEFINE x == IF current \notin tried /\ CursorServes(T, q)
                        THEN On("diverted", best, Landed(T, best))
                        ELSE Moving("failedOver", best, Landed(T, best))
        <5>1. best # NoAccount /\ out = x
          <6> HIDE DEF x
          <6> QED BY <3>3, FirstOf DEF DivertPath, x
        <5> QED BY <5>1
      <4> QED BY <1>1, <2>1, <4>1
    <3>4. CASE out \in P8
      <4>1. best # NoAccount /\ out = Moving("best", best, Noted(Landed(T, best), best, m))
        BY <3>4, FirstOf DEF BestPath
      <4> QED BY <1>1, <2>1, <4>1
    <3> QED BY <1>9, <3>1, <3>2, <3>3, <3>4
  <2> HIDE DEF best, A
  <2> QED BY <1>2, <1>6, <2>3
<1>10. ASSUME out \in P6 PROVE IsAnswer(F, q, tried, out)
  <2>1. Stays(T, current, q, tried) /\ out = On("cursor", current, Noted(T, current, m))
    BY <1>10, FirstOf DEF CursorPath
  <2>2. Available(T, q, tried) = A
    BY <1>1, SameAvailable
  <2>3. Good(T, A, current, m)
    BY <1>1, <2>1, <2>2, StayingIsGood
  <2>4. Good(F, A, current, m) /\ current \in Members
    BY <1>1, <1>2, <2>3, SameGood DEF Good
  <2>5. SameFleet(F, Noted(T, current, m))
    BY <1>1, NotedIs, SameSame
  <2> HIDE DEF A, T
  <2> QED BY <1>6, <2>1, <2>4, <2>5
<1>11. ASSUME P8 = {}, out \in P9 \cup {none} PROVE IsAnswer(F, q, tried, out)
  <2>1. A = {}
    BY <1>2, <1>11 DEF BestPath, When
  <2>2. CASE out \in P9
    <3>1. /\ Soft(T, q, tried) # {}
          /\ out = On("probe", ToProbe(T, q, tried), [T EXCEPT ![ToProbe(T, q, tried)].probed = now])
      BY <2>2, FirstOf DEF ProbePath
    <3> DEFINE a == ToProbe(T, q, tried)
               G == [T EXCEPT ![a].probed = now]
    <3>2. a \in Members /\ SameFleet(T, G)
      BY <1>1, <3>1, ToProbeIs, ProbedIs
    <3>3. SameFleet(F, G)
      BY <1>1, <3>2, SameSame
    <3>4. out.fleet = G /\ out.at = a /\ out.cursor = current
      BY <1>5, <3>1
    <3> HIDE DEF a, G, A, T
    <3> QED BY <2>1, <3>2, <3>3, <3>4 DEF IsAnswer, A
  <2>3. CASE out = none
    BY <1>1, <1>5, <2>1, <2>3 DEF IsAnswer
  <2> QED BY <1>11, <2>2, <2>3
<1>12. Free(q) /\ seat # NoAccount /\ Stays(F, seat, q, tried) => P3 # {}
  BY DEF SeatPath, When
<1> HIDE DEF P1, P2, P3, P4, P5, P6, P7, P8, P9, none
<1> QED BY <1>3, <1>4, <1>7, <1>8, <1>9, <1>10, <1>11, <1>12

-----------------------------------------------------------------------------
\* What answers, readings and reloads make of an account.

IsQuota(q) == q \in [Keys -> Bucket(Times, Utils)]

LEMMA NewAccountIs ==
  /\ IsAccount(NewAccount) /\ NewAccount.flight = 0 /\ NewAccount.open = 0
<1>1. IsQuota(NoQuota)
  BY BlankIs DEF NoQuota, IsQuota
<1> QED BY <1>1 DEF NewAccount, IsAccount, IsQuota

LEMMA NowIsReading ==
  ASSUME now \in 0 .. MaxTime
  PROVE  now \in Times
BY TimesAssumption DEF Times

LEMMA BucketIs ==
  ASSUME NEW u, NEW r, NEW s
  PROVE  [util |-> u, reset |-> r, seen |-> s] \in Bucket(Times, Utils)
           <=> u \in Utils \cup {Unknown} /\ r \in Times \cup {Unknown} /\ s \in Times \cup {Unknown}
BY DEF Bucket

LEMMA FieldsAre ==
  ASSUME NEW b \in Bucket(Times, Utils)
  PROVE  b.util \in Utils \cup {Unknown} /\ b.reset \in Times \cup {Unknown} /\ b.seen \in Times \cup {Unknown}
BY DEF Bucket

LEMMA HeadersAre ==
  ASSUME NEW q, IsQuota(q), NEW h, IsQuota(h), NEW at \in Times
  PROVE  IsQuota(ApplyHeaders(q, h, at)) /\ IsQuota(ApplyCodexHeaders(q, h, at))
<1>1. \A k \in Keys : q[k] \in Bucket(Times, Utils) /\ h[k] \in Bucket(Times, Utils)
  BY DEF IsQuota
<1>2. ASSUME NEW k \in Keys
      PROVE  /\ ApplyHeaders(q, h, at)[k] \in Bucket(Times, Utils)
             /\ ApplyCodexHeaders(q, h, at)[k] \in Bucket(Times, Utils)
  <2>1. /\ q[k].util \in Utils \cup {Unknown} /\ h[k].util \in Utils \cup {Unknown}
        /\ q[k].reset \in Times \cup {Unknown} /\ h[k].reset \in Times \cup {Unknown}
        /\ q[k].seen \in Times \cup {Unknown}
    BY <1>1, FieldsAre
  <2> DEFINE u == IF Known(h[k].util) THEN h[k].util ELSE q[k].util
             r == IF Known(h[k].reset) THEN h[k].reset ELSE q[k].reset
             s == IF Known(h[k].util) THEN at ELSE q[k].seen
  <2>2. u \in Utils \cup {Unknown} /\ r \in Times \cup {Unknown} /\ s \in Times \cup {Unknown}
    BY <2>1
  <2>3. ApplyHeaders(q, h, at)[k] = [util |-> u, reset |-> r, seen |-> s]
    BY DEF ApplyHeaders
  <2>4. \/ ApplyCodexHeaders(q, h, at)[k] = [util |-> h[k].util, reset |-> h[k].reset, seen |-> at]
        \/ ApplyCodexHeaders(q, h, at)[k] = q[k]
    BY DEF ApplyCodexHeaders
  <2> HIDE DEF u, r, s
  <2>5. [util |-> u, reset |-> r, seen |-> s] \in Bucket(Times, Utils)
    BY <2>2, BucketIs
  <2>6. [util |-> h[k].util, reset |-> h[k].reset, seen |-> at] \in Bucket(Times, Utils)
    BY <2>1, BucketIs
  <2> QED BY <1>1, <2>3, <2>4, <2>5, <2>6
<1>3. /\ ApplyHeaders(q, h, at) = [k \in Keys |-> ApplyHeaders(q, h, at)[k]]
      /\ ApplyCodexHeaders(q, h, at) = [k \in Keys |-> ApplyCodexHeaders(q, h, at)[k]]
  BY DEF ApplyHeaders, ApplyCodexHeaders
<1> DEFINE A == ApplyHeaders(q, h, at)
           C == ApplyCodexHeaders(q, h, at)
<1> HIDE DEF A, C
<1>4. A \in [Keys -> Bucket(Times, Utils)] /\ C \in [Keys -> Bucket(Times, Utils)]
  BY <1>2, <1>3 DEF A, C
<1> QED BY <1>4 DEF IsQuota, A, C

LEMMA UsageIs ==
  ASSUME NEW q, IsQuota(q), NEW u \in Payloads, NEW at \in Times
  PROVE  IsQuota(ApplyUsage(q, u, at))
<1> DEFINE A == ApplyUsage(q, u, at)
<1>1. ASSUME NEW k \in Keys PROVE A[k] \in Bucket(Times, Utils)
  <2>1. q[k] \in Bucket(Times, Utils)
    BY DEF IsQuota
  <2>2. A[k] = CASE k \in DOMAIN u.of -> Take(q[k], u.of[k], at)
                 [] k \in Families /\ u.listed /\ k \notin DOMAIN u.of -> Blank
                 [] OTHER -> q[k]
    BY DEF ApplyUsage
  <2>3. CASE k \in DOMAIN u.of
    <3> DEFINE b == q[k]  c == u.of[k]
               x == IF Known(c.util) THEN c.util ELSE b.util
               s == IF Known(c.util) THEN at ELSE b.seen
    <3>1. c \in Bucket(Times, Utils)
      BY <2>3, ReadingsAssumption
    <3>2. /\ x \in Utils \cup {Unknown} /\ c.reset \in Times \cup {Unknown} /\ s \in Times \cup {Unknown}
      BY <2>1, <3>1, FieldsAre
    <3>3. Take(b, c, at) = b \/ Take(b, c, at) = [util |-> x, reset |-> c.reset, seen |-> s]
      BY DEF Take
    <3>4. A[k] = Take(b, c, at)
      BY <2>2, <2>3
    <3> HIDE DEF x, s, b, c, A
    <3>5. [util |-> x, reset |-> c.reset, seen |-> s] \in Bucket(Times, Utils)
      BY <3>2, BucketIs
    <3> QED BY <2>1, <3>3, <3>4, <3>5 DEF b
  <2>4. CASE k \notin DOMAIN u.of
    BY <2>1, <2>2, <2>4, BlankIs
  <2> QED BY <2>3, <2>4
<1>2. A = [k \in Keys |-> A[k]]
  BY DEF ApplyUsage
<1> HIDE DEF A
<1>3. A \in [Keys -> Bucket(Times, Utils)]
  BY <1>1, <1>2
<1> QED BY <1>3 DEF IsQuota, A

\* y is an account with the counts of x.
Keeps(x, y) == IsAccount(y) /\ y.flight = x.flight /\ y.open = x.open

LEMMA ReadIs ==
  ASSUME now \in Times, NEW x, IsAccount(x), NEW a, NEW h, IsQuota(h)
  PROVE  Keeps(x, Read(x, a, h))
<1> DEFINE q == IF ProviderOf[a] = "codex" THEN ApplyCodexHeaders(x.quota, h, now)
                                           ELSE ApplyHeaders(x.quota, h, now)
           c == ClearExpired(q, cfg.threshold, now)
           p == x.probing /\ ~(x.probing /\ Known(q["7d"].reset))
           f == x.requalify \/ (x.probing /\ Known(q["7d"].reset))
<1>1. IsQuota(x.quota)
  BY DEF IsAccount, IsQuota
<1>2. IsQuota(q)
  BY <1>1, HeadersAre
<1>3. Read(x, a, h) = [x EXCEPT !.quota = c, !.probing = p, !.requalify = f]
  BY DEF Read
<1> HIDE DEF q
<1>4. c \in [Keys -> Bucket(Times, Utils)]
  BY <1>2, ClearedIs DEF IsQuota
<1> HIDE DEF c, p, f
<1> QED BY <1>3, <1>4 DEF IsAccount, Keeps

LEMMA UnheldIs ==
  ASSUME NEW x, IsAccount(x)
  PROVE  Keeps(x, Unheld(x))
BY DEF IsAccount, Unheld, Keeps

LEMMA AfterIs ==
  ASSUME NEW x, IsAccount(x), NEW class \in {"ok", "failed", "limited", "spent", "dead", "denied"}
  PROVE  Keeps(x, After(x, class))
<1>1. Keeps(x, Unheld(x)) /\ Keeps(x, Held(x, FALSE)) /\ Keeps(x, Held(x, TRUE))
  <2>1. \A b : Keeps(x, Held(x, b))
    BY DEF IsAccount, Held, Keeps
  <2> QED BY <2>1, UnheldIs
<1>2. Keeps(x, [Unheld(x) EXCEPT !.status = "error"])
  BY <1>1 DEF IsAccount, Keeps
<1>3. Keeps(x, [Unheld(x) EXCEPT !.denied = now + DeniedTicks])
  <2> DEFINE d == now + DeniedTicks
  <2> HIDE DEF d
  <2>1. Keeps(x, [Unheld(x) EXCEPT !.denied = d])
    BY <1>1 DEF IsAccount, Keeps
  <2> QED BY <2>1 DEF d
<1> QED BY <1>1, <1>2, <1>3 DEF After

LEMMA Less1Is ==
  ASSUME NEW n \in Nat
  PROVE  /\ SS!Less1(n) \in Nat
         /\ \A m \in Nat : n <= m + 1 => SS!Less1(n) <= m
BY DEF SS!Less1

LEMMA AnsweredIs ==
  ASSUME NEW x, IsAccount(x)
  PROVE  /\ IsAccount(Answered(x)) /\ Answered(x).flight = SS!Less1(x.flight) /\ Answered(x).open = x.open
         /\ IsAccount(Closed(x)) /\ Closed(x).flight = x.flight /\ Closed(x).open = SS!Less1(x.open)
<1> DEFINE n == SS!Less1(x.flight)
           o == SS!Less1(x.open)
<1>1. n \in Nat /\ o \in Nat
  BY Less1Is DEF IsAccount
<1>2. Answered(x) = [x EXCEPT !.flight = n] /\ Closed(x) = [x EXCEPT !.open = o]
  BY DEF Answered, Closed
<1> HIDE DEF n, o
<1>3. /\ IsAccount(Answered(x)) /\ Answered(x).flight = n /\ Answered(x).open = x.open
      /\ IsAccount(Closed(x)) /\ Closed(x).flight = x.flight /\ Closed(x).open = o
  BY <1>1, <1>2 DEF IsAccount
<1> QED BY <1>3 DEF n, o

-----------------------------------------------------------------------------
\* Everything has its type: an account has no more requests under way than
\* there are requests at it, which is what its counters being bounded rests on.

SentTo(rq, a)   == {r \in Requests : rq[r].pc = "sent" /\ rq[r].at = a}
OpenedAt(rq, a) == {r \in Requests : rq[r].pc \in {"sent", "body"} /\ rq[r].at = a}

Carries(x, rq, a) == /\ x.flight <= Cardinality(SentTo(rq, a))
                     /\ x.open <= Cardinality(OpenedAt(rq, a))

\* The accounts F of a pool whose members are M, under the requests rq.
FleetFits(F, M, rq) ==
  /\ IsFleet(F)
  /\ \A a \in Accounts : /\ Carries(F[a], rq, a)
                         /\ a \notin M => F[a].flight = 0 /\ F[a].open = 0

RoomFor(t) == /\ IsFiniteSet(DOMAIN t.known) /\ DOMAIN t.known \subseteq Sessions
              /\ Cardinality(DOMAIN t.known) <= MaxSessions

Asked(q) == /\ q.kind \in Kinds /\ q.tried \subseteq Accounts
            /\ q.pc \in {"sent", "body"} => q.at \in Accounts

Typed ==
  /\ Counts /\ now \in 0 .. MaxTime /\ cfg \in Configs
  /\ FleetFits(acct, Members, req)
  /\ current \in Members \cup {NoAccount}
  /\ routePin \in [Routes -> Accounts \cup {NoAccount}] /\ pinning \subseteq Routes \X Accounts
  /\ RoomFor(tracker)
  /\ \A r \in Requests : Asked(req[r])

LEMMA TypedIsReady ==
  ASSUME Typed
  PROVE  Ready /\ IsFleet(acct) /\ Members \subseteq Accounts
<1>1. Ready
  BY NowIsReading DEF Typed, Ready, Counts, CountsOf, RoomFor
<1> QED BY <1>1, MembersHavePlaces DEF Typed, FleetFits

LEMMA AtAccountIs ==
  ASSUME NEW rq, NEW a
  PROVE  /\ IsFiniteSet(SentTo(rq, a)) /\ Cardinality(SentTo(rq, a)) \in 0 .. Cardinality(Requests)
         /\ IsFiniteSet(OpenedAt(rq, a)) /\ Cardinality(OpenedAt(rq, a)) \in 0 .. Cardinality(Requests)
<1>1. \A S : S \subseteq Requests => IsFiniteSet(S) /\ Cardinality(S) \in 0 .. Cardinality(Requests)
  <2> TAKE S
  <2> HAVE S \subseteq Requests
  <2>1. IsFiniteSet(S) /\ Cardinality(S) <= Cardinality(Requests)
    BY RequestsAssumption, FS_Subset
  <2>2. Cardinality(S) \in Nat /\ Cardinality(Requests) \in Nat
    BY <2>1, RequestsAssumption, FS_CardinalityType
  <2> QED BY <2>1, <2>2
<1>2. SentTo(rq, a) \subseteq Requests /\ OpenedAt(rq, a) \subseteq Requests
  BY DEF SentTo, OpenedAt
<1> QED BY <1>1, <1>2

LEMMA TypedIsTyped ==
  ASSUME Typed
  PROVE  TypeOK
<1>1. ASSUME NEW a \in Accounts
      PROVE  /\ \A k \in Keys : acct[a].quota[k] \in Bucket(Times, Utils)
             /\ acct[a].status \in {"active", "throttled", "error"}
             /\ {acct[a].flight, acct[a].open} \subseteq 0 .. Cardinality(Requests)
  <2>1. IsAccount(acct[a]) /\ Carries(acct[a], req, a)
    BY DEF Typed, FleetFits, IsFleet
  <2>2. acct[a].flight \in Nat /\ acct[a].open \in Nat
    BY <2>1 DEF IsAccount
  <2> DEFINE n == Cardinality(SentTo(req, a))
             o == Cardinality(OpenedAt(req, a))
             c == Cardinality(Requests)
  <2>3. n \in 0 .. c /\ o \in 0 .. c /\ c \in Nat
    BY AtAccountIs, RequestsAssumption, FS_CardinalityType
  <2>4. acct[a].flight <= n /\ acct[a].open <= o
    BY <2>1 DEF Carries
  <2> HIDE DEF n, o, c
  <2>5. acct[a].flight \in 0 .. c /\ acct[a].open \in 0 .. c
    BY <2>2, <2>3, <2>4
  <2> QED BY <2>1, <2>5 DEF IsAccount, c
<1> QED BY <1>1 DEF Typed, TypeOK, RoomFor, Asked

LEMMA InitTyped ==
  ASSUME Init
  PROVE  Typed
<1>1. Counts
  BY InitCounts
<1>2. now \in 0 .. MaxTime /\ cfg \in Configs
  BY TimesAssumption DEF Init, Start
<1>3. FleetFits(acct, Members, req)
  <2>1. acct = [a \in Accounts |-> NewAccount]
    BY DEF Init
  <2>2. IsFleet(acct)
    BY <2>1, NewAccountIs DEF IsFleet
  <2>3. \A a \in Accounts : acct[a].flight = 0 /\ acct[a].open = 0
    BY <2>1, NewAccountIs
  <2>4. \A a \in Accounts : Carries(acct[a], req, a)
    <3> TAKE a \in Accounts
    <3>1. Cardinality(SentTo(req, a)) >= 0 /\ Cardinality(OpenedAt(req, a)) >= 0
      BY AtAccountIs
    <3> QED BY <2>3, <3>1 DEF Carries
  <2> QED BY <2>2, <2>3, <2>4 DEF FleetFits
<1>4. /\ routePin \in [Routes -> Accounts \cup {NoAccount}] /\ pinning \subseteq Routes \X Accounts
      /\ current \in Members \cup {NoAccount}
  BY DEF Init
<1>5. RoomFor(tracker)
  <2>1. DOMAIN tracker.known = {}
    BY DEF Init, SS!NoTracker
  <2> QED BY <2>1, FS_EmptySet, TimesAssumption DEF RoomFor
<1>6. \A r \in Requests : Asked(req[r])
  <2>1. Asked(Idle)
    BY RequestsAssumption DEF Asked, Idle
  <2> QED BY <2>1 DEF Init
<1> QED BY <1>1, <1>2, <1>3, <1>4, <1>5, <1>6 DEF Typed

\* Only the account a moved, and no other request but r.
LEMMA OneAccountMoves ==
  ASSUME NEW F, NEW M, NEW rq, FleetFits(F, M, rq), NEW a \in Accounts, NEW G,
         G = [b \in Accounts |-> G[b]], \A b \in Accounts \ {a} : Keeps(F[b], G[b]),
         NEW new, NEW r \in Requests, Moves(rq, new, r),
         rq[r].pc \in {"sent", "body"} => rq[r].at = a, new[r].pc \in {"sent", "body"} => new[r].at = a,
         IsAccount(G[a]), Carries(G[a], new, a), a \notin M => G[a].flight = 0 /\ G[a].open = 0
  PROVE  FleetFits(G, M, new)
<1>1. \A b : b # a => SentTo(new, b) = SentTo(rq, b) /\ OpenedAt(new, b) = OpenedAt(rq, b)
  BY DEF SentTo, OpenedAt, Moves
<1>2. IsFleet(G)
  BY DEF IsFleet, Keeps
<1>3. ASSUME NEW b \in Accounts
      PROVE  /\ Carries(G[b], new, b)
             /\ b \notin M => G[b].flight = 0 /\ G[b].open = 0
  <2>1. CASE b # a
    BY <1>1, <2>1 DEF Carries, FleetFits, Keeps
  <2> QED BY <2>1
<1> QED BY <1>2, <1>3 DEF FleetFits

\* No account is given or left.
LEMMA NoneMoves ==
  ASSUME NEW F, NEW M, NEW rq, FleetFits(F, M, rq), NEW G,
         G = [b \in Accounts |-> G[b]], \A b \in Accounts : Keeps(F[b], G[b]),
         NEW new, \A b : SentTo(new, b) = SentTo(rq, b) /\ OpenedAt(new, b) = OpenedAt(rq, b)
  PROVE  FleetFits(G, M, new)
BY DEF FleetFits, IsFleet, Keeps, Carries

LEMMA GivenTo ==
  ASSUME NEW rq, NEW new, NEW r \in Requests, Moves(rq, new, r), NEW a,
         rq[r].pc = "asking", new[r].pc = "sent", new[r].at = a
  PROVE  /\ Cardinality(SentTo(new, a)) = Cardinality(SentTo(rq, a)) + 1
         /\ Cardinality(OpenedAt(new, a)) = Cardinality(OpenedAt(rq, a)) + 1
<1> DEFINE S == SentTo(rq, a)
           O == OpenedAt(rq, a)
<1>1. SentTo(new, a) = S \cup {r} /\ r \notin S
  BY DEF SentTo, Moves
<1>2. OpenedAt(new, a) = O \cup {r} /\ r \notin O
  BY DEF OpenedAt, Moves
<1>3. IsFiniteSet(S) /\ IsFiniteSet(O)
  BY AtAccountIs
<1> HIDE DEF S, O
<1>4. Cardinality(S \cup {r}) = Cardinality(S) + 1
  BY <1>1, <1>3, FS_AddElement
<1>5. Cardinality(O \cup {r}) = Cardinality(O) + 1
  BY <1>2, <1>3, FS_AddElement
<1> QED BY <1>1, <1>2, <1>4, <1>5 DEF S, O

LEMMA AnsweredBy ==
  ASSUME NEW rq, NEW new, NEW r \in Requests, Moves(rq, new, r), NEW a,
         rq[r].pc = "sent", rq[r].at = a, new[r].pc # "sent"
  PROVE  Cardinality(SentTo(rq, a)) = Cardinality(SentTo(new, a)) + 1
<1>1. SentTo(rq, a) = SentTo(new, a) \cup {r} /\ r \notin SentTo(new, a)
  BY DEF SentTo, Moves
<1> QED BY <1>1, AtAccountIs, FS_AddElement

LEMMA ClosedAt ==
  ASSUME NEW rq, NEW new, NEW r \in Requests, Moves(rq, new, r), NEW a,
         rq[r].pc \in {"sent", "body"}, rq[r].at = a, new[r].pc \notin {"sent", "body"}
  PROVE  Cardinality(OpenedAt(rq, a)) = Cardinality(OpenedAt(new, a)) + 1
<1>1. OpenedAt(rq, a) = OpenedAt(new, a) \cup {r} /\ r \notin OpenedAt(new, a)
  BY DEF OpenedAt, Moves
<1> QED BY <1>1, AtAccountIs, FS_AddElement

-----------------------------------------------------------------------------
\* The tracker never holds more sessions than its cap.

LEMMA SmallerRoom ==
  ASSUME NEW t, RoomFor(t), NEW u, DOMAIN u.known \subseteq DOMAIN t.known
  PROVE  RoomFor(u)
<1> DEFINE n == Cardinality(DOMAIN u.known)
           m == Cardinality(DOMAIN t.known)
<1>1. IsFiniteSet(DOMAIN u.known) /\ n <= m
  BY FS_Subset DEF RoomFor
<1>2. n \in Nat /\ m \in Nat /\ MaxSessions \in Nat /\ m <= MaxSessions
  BY <1>1, FS_CardinalityType, TimesAssumption DEF RoomFor
<1> HIDE DEF n, m
<1>3. n <= MaxSessions
  BY <1>1, <1>2
<1> QED BY <1>1, <1>3 DEF RoomFor, n

\* u knows nobody that t does not, and has the pins of those it knows.
Fewer(t, u) == /\ DOMAIN u.known \subseteq DOMAIN t.known
               /\ \A x \in DOMAIN u.known : u.known[x].pins = t.known[x].pins

LEMMA FewerIsLess ==
  ASSUME NEW t, NEW u, NEW v, Fewer(t, u), Fewer(u, v)
  PROVE  Fewer(t, v)
BY DEF Fewer

LEMMA SweepForgets ==
  ASSUME NEW t, IsTracker(t), NEW at
  PROVE  Fewer(t, SS!Sweep(t, at))
BY DEF SS!Sweep, SS!Restrict, Fewer

LEMMA RoomsForget ==
  ASSUME NEW t, IsTracker(t), NEW at, NEW u \in SS!Rooms(t, at)
  PROVE  Fewer(t, u)
<1> DEFINE s == SS!Sweep(t, at)
<1>1. Fewer(t, s) /\ Fewer(t, t) /\ IsTracker(s)
  BY SweepForgets, SweepKeeps DEF Fewer, SameFlights
<1>2. u = t \/ u = s \/ \E id \in SS!Evictable(s) : u = SS!Without(s, id)
  BY DEF SS!Rooms
<1> HIDE DEF s
<1>3. ASSUME NEW id, u = SS!Without(s, id) PROVE Fewer(s, u)
  <2>1. u.known = SS!Restrict(s.known, DOMAIN s.known \ {id})
    BY <1>1, <1>3 DEF SS!Without, IsTracker
  <2> QED BY <2>1 DEF SS!Restrict, Fewer
<1> QED BY <1>1, <1>2, <1>3, FewerIsLess

\* Of the sessions u knows, only id may be new, and then it has no pin.
Known1(t, u, id) ==
  /\ DOMAIN u.known \subseteq DOMAIN t.known \cup {id}
  /\ \A x \in DOMAIN u.known : x \in DOMAIN t.known => u.known[x].pins = t.known[x].pins
  /\ id \in DOMAIN u.known \ DOMAIN t.known => u.known[id].pins = [w \in Weekly |-> NoAccount]

LEMMA EnsuredRooms ==
  ASSUME NEW t, IsTracker(t), RoomFor(t), NEW id \in Sessions, NEW at, NEW u \in SS!Ensured(t, id, at)
  PROVE  RoomFor(u) /\ Known1(t, u, id)
<1>1. CASE SS!Tracked(t, id)
  BY <1>1 DEF SS!Ensured, Known1, SS!Tracked
<1>2. CASE ~SS!Tracked(t, id)
  <2>1. PICK s \in SS!Rooms(t, at) :
          u = IF SS!Full(s) THEN s
              ELSE [s EXCEPT !.known = [x \in DOMAIN s.known \cup {id} |->
                                          IF x = id THEN SS!Stranger(at) ELSE s.known[x]]]
    BY <1>2 DEF SS!Ensured
  <2>2. Fewer(t, s) /\ RoomFor(s) /\ IsTracker(s)
    BY RoomsForget, SmallerRoom, RoomsKeep DEF Fewer, SameFlights
  <2>3. id \notin DOMAIN t.known /\ id \notin DOMAIN s.known
    BY <1>2, <2>2 DEF SS!Tracked, Fewer
  <2>4. CASE SS!Full(s)
    BY <2>1, <2>2, <2>3, <2>4 DEF Fewer, Known1
  <2>5. CASE ~SS!Full(s)
    <3>1. u.known = [x \in DOMAIN s.known \cup {id} |-> IF x = id THEN SS!Stranger(at) ELSE s.known[x]]
      BY <2>1, <2>2, <2>5 DEF IsTracker
    <3>2. SS!Stranger(at).pins = [w \in Weekly |-> NoAccount]
      BY DEF SS!Stranger
    <3>3. Known1(t, u, id)
      BY <2>2, <2>3, <3>1, <3>2 DEF Fewer, Known1
    <3>4. RoomFor(u)
      <4> DEFINE D == DOMAIN s.known
      <4>1. IsFiniteSet(D) /\ D \subseteq Sessions /\ id \notin D
        BY <2>2, <2>3 DEF RoomFor
      <4>2. Cardinality(D) \in Nat /\ ~(Cardinality(D) >= MaxSessions) /\ MaxSessions \in Nat
        BY <2>5, <4>1, SameCardinality, FS_CardinalityType, TimesAssumption DEF SS!Full
      <4>3. DOMAIN u.known = D \cup {id}
        BY <3>1
      <4> HIDE DEF D
      <4>4. IsFiniteSet(D \cup {id}) /\ Cardinality(D \cup {id}) = Cardinality(D) + 1
        BY <4>1, FS_AddElement
      <4>5. Cardinality(D \cup {id}) <= MaxSessions
        BY <4>2, <4>4
      <4> QED BY <4>1, <4>3, <4>4, <4>5 DEF RoomFor
    <3> QED BY <3>3, <3>4
  <2> QED BY <2>4, <2>5
<1> QED BY <1>1, <1>2

LEMMA BegunRooms ==
  ASSUME NEW t, IsTracker(t), RoomFor(t), NEW id \in Sessions, NEW at, NEW u \in SS!Begun(t, id, at)
  PROVE  RoomFor(u) /\ Known1(t, u, id)
<1>1. PICK s \in SS!Ensured(t, id, at) :
        u = IF SS!Tracked(s, id)
            THEN [s EXCEPT !.known[id] = [s.known[id] EXCEPT !.flight = s.known[id].flight + 1, !.last = at]]
            ELSE s
  BY DEF SS!Begun, SS!Counting
<1>2. RoomFor(s) /\ Known1(t, s, id) /\ IsTracker(s)
  BY EnsuredRooms, EnsuredKeeps DEF SameFlights
<1>3. CASE SS!Tracked(s, id)
  <2> DEFINE n == s.known[id].flight + 1
             e == [s.known[id] EXCEPT !.flight = n, !.last = at]
  <2>1. IsSession(s.known[id]) /\ id \in DOMAIN s.known
    BY <1>2, <1>3 DEF IsTracker, SS!Tracked
  <2> HIDE DEF n
  <2>2. e.pins = s.known[id].pins
    BY <2>1 DEF IsSession
  <2>3. u = [s EXCEPT !.known[id] = e]
    BY <1>1, <1>3 DEF n
  <2> HIDE DEF e
  <2>4. u.known = [s.known EXCEPT ![id] = e]
    BY <1>2, <2>3 DEF IsTracker
  <2>5. DOMAIN u.known = DOMAIN s.known /\ \A x \in DOMAIN u.known : u.known[x].pins = s.known[x].pins
    BY <2>1, <2>2, <2>4
  <2>6. RoomFor(u)
    BY <1>2, <2>5, SmallerRoom
  <2> QED BY <1>2, <2>5, <2>6 DEF Known1
<1>4. CASE ~SS!Tracked(s, id)
  BY <1>1, <1>2, <1>4
<1> QED BY <1>3, <1>4

LEMMA EndedRooms ==
  ASSUME NEW t, IsTracker(t), RoomFor(t), NEW id, NEW at
  PROVE  RoomFor(SS!Ended(t, id, at)) /\ Fewer(t, SS!Ended(t, id, at))
<1> DEFINE s == IF SS!Tracked(t, id)
                THEN [t EXCEPT !.known[id] = [t.known[id] EXCEPT !.flight = SS!Less1(t.known[id].flight), !.last = at]]
                ELSE t
           u == SS!Ended(t, id, at)
<1>1. u = IF at - s.swept > SweepInterval THEN SS!Sweep(s, at) ELSE s
  BY DEF SS!Ended, SS!Counting
<1>2. DOMAIN s.known = DOMAIN t.known /\ \A x \in DOMAIN t.known : s.known[x].pins = t.known[x].pins
  <2>1. CASE SS!Tracked(t, id)
    <3> DEFINE n == SS!Less1(t.known[id].flight)
               e == [t.known[id] EXCEPT !.flight = n, !.last = at]
    <3>1. IsSession(t.known[id]) /\ id \in DOMAIN t.known
      BY <2>1 DEF IsTracker, SS!Tracked
    <3> HIDE DEF n
    <3>2. e.pins = t.known[id].pins
      BY <3>1 DEF IsSession
    <3>3. s = [t EXCEPT !.known[id] = e]
      BY <2>1 DEF n
    <3> HIDE DEF e, s
    <3>4. s.known = [t.known EXCEPT ![id] = e]
      BY <3>3 DEF IsTracker
    <3> QED BY <3>1, <3>2, <3>4
  <2> QED BY <2>1
<1> HIDE DEF s, u
<1>3. Fewer(t, s)
  BY <1>2 DEF Fewer
<1>4. Fewer(s, SS!Sweep(s, at))
  BY DEF SS!Sweep, SS!Restrict, Fewer
<1>5. Fewer(t, u)
  BY <1>1, <1>3, <1>4, FewerIsLess
<1>6. RoomFor(u)
  BY <1>5, SmallerRoom DEF Fewer
<1> QED BY <1>5, <1>6 DEF u

\* The session served is pinned to the account, if the tracker has room for it.
PinsOf(t, id) == IF id \in DOMAIN t.known THEN t.known[id].pins ELSE [w \in Weekly |-> NoAccount]

OtherPins(t, u, id) == \A x \in DOMAIN u.known \ {id} : u.known[x].pins = t.known[x].pins

TouchedAs(t, u, id, a, b) ==
  /\ RoomFor(u) /\ DOMAIN u.known \subseteq DOMAIN t.known \cup {id}
  /\ OtherPins(t, u, id)
  /\ id \in DOMAIN u.known => u.known[id].pins = [PinsOf(t, id) EXCEPT ![b] = a]

LEMMA TouchedRooms ==
  ASSUME NEW t, IsTracker(t), RoomFor(t), NEW id \in Sessions, NEW a, NEW b, NEW at,
         NEW u \in SS!Touched(t, id, a, b, at)
  PROVE  TouchedAs(t, u, id, a, b)
<1>1. PICK s \in SS!Ensured(t, id, at) :
        u = IF SS!Tracked(s, id)
            THEN [s EXCEPT !.known[id] = [s.known[id] EXCEPT !.last = at, !.pins[b] = a]] ELSE s
  BY DEF SS!Touched
<1>2. RoomFor(s) /\ Known1(t, s, id) /\ IsTracker(s)
  BY EnsuredRooms, EnsuredKeeps DEF SameFlights
<1>3. CASE SS!Tracked(s, id)
  <2> DEFINE p == [s.known[id].pins EXCEPT ![b] = a]
             e == [s.known[id] EXCEPT !.last = at, !.pins = p]
  <2>1. IsSession(s.known[id]) /\ id \in DOMAIN s.known
    BY <1>2, <1>3 DEF IsTracker, SS!Tracked
  <2>2. s.known[id].pins = PinsOf(t, id)
    BY <1>2, <2>1 DEF Known1, PinsOf
  <2>3. u = [s EXCEPT !.known[id] = e]
    BY <1>1, <1>3
  <2>4. p = [PinsOf(t, id) EXCEPT ![b] = a]
    BY <2>2
  <2> HIDE DEF p
  <2>5. e.pins = p
    BY <2>1 DEF IsSession
  <2> HIDE DEF e
  <2>6. u.known = [s.known EXCEPT ![id] = e]
    BY <1>2, <2>3 DEF IsTracker
  <2>7. /\ DOMAIN u.known = DOMAIN s.known /\ u.known[id] = e
        /\ \A x \in DOMAIN u.known \ {id} : u.known[x] = s.known[x]
    BY <2>1, <2>6
  <2>8. RoomFor(u)
    BY <1>2, <2>7, SmallerRoom
  <2> QED BY <1>2, <2>4, <2>5, <2>7, <2>8 DEF Known1, OtherPins, TouchedAs
<1>4. CASE ~SS!Tracked(s, id)
  BY <1>1, <1>2, <1>4 DEF SS!Tracked, Known1, OtherPins, TouchedAs
<1> QED BY <1>3, <1>4

LEMMA RemappedRooms ==
  ASSUME NEW t, IsTracker(t), RoomFor(t), NEW live
  PROVE  /\ RoomFor(SS!Remapped(t, live)) /\ DOMAIN SS!Remapped(t, live).known = DOMAIN t.known
         /\ \A id \in DOMAIN t.known :
              SS!Remapped(t, live).known[id].pins
                = [w \in Weekly |-> IF t.known[id].pins[w] \in live THEN t.known[id].pins[w] ELSE NoAccount]
<1> DEFINE Pins(id) == [w \in Weekly |-> IF t.known[id].pins[w] \in live THEN t.known[id].pins[w] ELSE NoAccount]
           known == [id \in DOMAIN t.known |-> [t.known[id] EXCEPT !.pins = Pins(id)]]
           u == SS!Remapped(t, live)
<1>1. u = [t EXCEPT !.known = known]
  BY DEF SS!Remapped
<1> HIDE DEF u, Pins
<1>2. \A id \in DOMAIN t.known : known[id].pins = Pins(id)
  BY DEF IsTracker, IsSession
<1>3. DOMAIN known = DOMAIN t.known
  OBVIOUS
<1> HIDE DEF known
<1>4. u.known = known
  BY <1>1 DEF IsTracker
<1>5. RoomFor(u)
  BY <1>3, <1>4, SmallerRoom
<1> QED BY <1>2, <1>3, <1>4, <1>5 DEF u, Pins

-----------------------------------------------------------------------------
\* Every step keeps the types.

LEMMA KindIs ==
  ASSUME Typed, NEW r \in Requests
  PROVE  /\ IsModel(req[r].kind.model) /\ req[r].kind.session \in Sessions \cup {NoSession}
         /\ req[r].kind \in Kinds /\ req[r].tried \subseteq Accounts /\ IsRequest(req[r])
BY RequestsAssumption DEF Typed, Asked, IsModel, Counts, CountsOf

LEMMA RequestStep ==
  ASSUME Typed, [Next]_vars, UNCHANGED <<now, cfg, pins>>, NEW r \in Requests, Moves(req, req', r),
         Asked(req'[r]), current' \in Members \cup {NoAccount}, RoomFor(tracker'),
         FleetFits(acct', Members, req')
  PROVE  Typed'
<1>1. Counts'
  BY StepCounts DEF Typed
<1>2. Members' = Members
  BY DEF Members
<1>3. \A q \in Requests : Asked(req'[q])
  BY DEF Typed, Moves
<1> QED BY <1>1, <1>2, <1>3 DEF Typed, pins

LEMMA MovesIdle ==
  ASSUME Typed, NEW r \in Requests, Goes(r, Idle)
  PROVE  req'[r] = Idle /\ Moves(req, req', r) /\ Asked(Idle) /\ Idle.pc = "idle"
<1>1. Asked(Idle)
  BY RequestsAssumption DEF Asked, Idle
<1> QED BY <1>1, IdleIs, GoesDoes DEF Typed

\* The session of r is told that its request has ended.
LEMMA OverRooms ==
  ASSUME NEW t, IsTracker(t), RoomFor(t), NEW r
  PROVE  RoomFor(Over1(t, r)) /\ Fewer(t, Over1(t, r))
<1>1. Fewer(t, t)
  BY DEF Fewer
<1> QED BY <1>1, EndedRooms DEF Over1

LEMMA TrackerIs ==
  ASSUME Typed
  PROVE  IsTracker(tracker) /\ RoomFor(tracker)
BY DEF Typed, Counts, CountsOf

LEMMA FailsIs ==
  ASSUME Typed, NEW r \in Requests, Fails(r)
  PROVE  req'[r] = Idle /\ Moves(req, req', r) /\ Asked(req'[r]) /\ RoomFor(tracker') /\ req'[r].pc = "idle"
BY MovesIdle, OverRooms, TrackerIs DEF Fails, Tracks

\* What a call of select is asked and answers.
AskedFor(r, seat, out) ==
  LET q == req[r].kind IN
  /\ seat \in IF Seats(q) = {} THEN {NoAccount} ELSE Seats(q)
  /\ IsAnswer(Expired, q, req[r].tried, out)
  /\ Free(q) /\ seat # NoAccount /\ Stays(Expired, seat, q, req[r].tried) => out.at = seat
  /\ current' = out.cursor
  /\ IF out.at = NoAccount
     THEN acct' = out.fleet /\ Fails(r)
     ELSE /\ acct' = [out.fleet EXCEPT ![out.at].flight = @ + 1, ![out.at].open = @ + 1]
          /\ Goes(r, [req[r] EXCEPT !.pc = "sent", !.at = out.at])
          /\ UNCHANGED <<tracker, served>>

LEMMA AskIs ==
  ASSUME Typed, NEW r \in Requests, Ask(r)
  PROVE  \E seat, out : AskedFor(r, seat, out)
<1> DEFINE q == req[r].kind
           tried == req[r].tried
<1>1. PICK seat \in IF Seats(q) = {} THEN {NoAccount} ELSE Seats(q) :
        \E out \in {Select(q, tried, seat)} :
          /\ current' = out.cursor
          /\ IF out.at = NoAccount
             THEN acct' = out.fleet /\ Fails(r)
             ELSE /\ acct' = [out.fleet EXCEPT ![out.at].flight = @ + 1, ![out.at].open = @ + 1]
                  /\ Goes(r, [req[r] EXCEPT !.pc = "sent", !.at = out.at])
                  /\ UNCHANGED <<tracker, served>>
  BY DEF Ask
<1> DEFINE out == SelectIn(Expired, q, tried, seat)
<1>2. /\ current' = out.cursor
      /\ IF out.at = NoAccount
         THEN acct' = out.fleet /\ Fails(r)
         ELSE /\ acct' = [out.fleet EXCEPT ![out.at].flight = @ + 1, ![out.at].open = @ + 1]
              /\ Goes(r, [req[r] EXCEPT !.pc = "sent", !.at = out.at])
              /\ UNCHANGED <<tracker, served>>
  BY <1>1 DEF Select
<1>3. Ready /\ IsFleet(Expired) /\ current \in Members \cup {NoAccount} /\ IsModel(q.model)
  BY TypedIsReady, ExpiredIs, KindIs DEF Typed
<1> DEFINE o == out
<1>4. o = SelectIn(Expired, q, tried, seat)
  OBVIOUS
<1> HIDE DEF o
<1>5. /\ IsAnswer(Expired, q, tried, o)
      /\ Free(q) /\ seat # NoAccount /\ Stays(Expired, seat, q, tried) => o.at = seat
  BY <1>3, <1>4, SelectIs
<1>6. AskedFor(r, seat, o)
  BY <1>1, <1>2, <1>5 DEF AskedFor, o
<1> QED BY <1>6

\* What select leaves counts what was counted.
LEMMA AnswerKeeps ==
  ASSUME Typed, NEW q, NEW tried, NEW out, IsAnswer(Expired, q, tried, out)
  PROVE  /\ out.fleet = [b \in Accounts |-> out.fleet[b]]
         /\ \A b \in Accounts : Keeps(acct[b], out.fleet[b])
         /\ out.at # NoAccount => out.at \in Members
         /\ out.cursor \in Members \cup {NoAccount}
<1>1. IsFleet(acct) /\ Members \subseteq Accounts
  BY TypedIsReady
<1>2. SameFleet(Expired, out.fleet)
  BY DEF IsAnswer
<1>3. \A b \in Accounts : Keeps(acct[b], out.fleet[b])
  BY <1>1, <1>2, ExpiredIs DEF SameFleet, SameAccount, Keeps
<1> QED BY <1>1, <1>2, <1>3 DEF IsAnswer, SameFleet

LEMMA AskTyped ==
  ASSUME Typed, [Next]_vars, NEW r \in Requests, Ask(r)
  PROVE  Typed'
<1>1. PICK seat, out : AskedFor(r, seat, out)
  BY AskIs
<1> DEFINE a == out.at
           G == out.fleet
<1>2. /\ G = [b \in Accounts |-> G[b]] /\ \A b \in Accounts : Keeps(acct[b], G[b])
      /\ a # NoAccount => a \in Members /\ a \in Accounts
      /\ out.cursor \in Members \cup {NoAccount}
  <2>1. IsAnswer(Expired, req[r].kind, req[r].tried, out)
    BY <1>1 DEF AskedFor
  <2>2. /\ G = [b \in Accounts |-> G[b]] /\ \A b \in Accounts : Keeps(acct[b], G[b])
        /\ a # NoAccount => a \in Members
        /\ out.cursor \in Members \cup {NoAccount}
    BY <2>1, AnswerKeeps
  <2> QED BY <2>2, TypedIsReady
<1>3. /\ current' = out.cursor /\ FleetFits(acct, Members, req) /\ req[r].pc = "asking"
      /\ UNCHANGED <<now, cfg, pins>>
  BY <1>1 DEF Typed, AskedFor, Ask
<1>4. CASE a = NoAccount
  <2>1. acct' = G /\ Fails(r)
    BY <1>1, <1>4 DEF AskedFor
  <2>2. req'[r].pc = "idle" /\ Moves(req, req', r) /\ Asked(req'[r]) /\ RoomFor(tracker')
    BY <2>1, FailsIs
  <2>3. \A b : SentTo(req', b) = SentTo(req, b) /\ OpenedAt(req', b) = OpenedAt(req, b)
    BY <1>3, <2>2 DEF Moves, SentTo, OpenedAt
  <2> HIDE DEF G
  <2>4. FleetFits(G, Members, req')
    BY <1>2, <1>3, <2>3, NoneMoves
  <2> QED BY <1>2, <1>3, <2>1, <2>2, <2>4, RequestStep
<1>5. CASE a # NoAccount
  <2> DEFINE x == [G[a] EXCEPT !.flight = @ + 1, !.open = @ + 1]
             H == [G EXCEPT ![a] = x]
             new == [req[r] EXCEPT !.pc = "sent", !.at = a]
  <2>1. acct' = [G EXCEPT ![a].flight = @ + 1, ![a].open = @ + 1] /\ Goes(r, new) /\ tracker' = tracker
    BY <1>1, <1>5 DEF AskedFor
  <2>2. a \in Members /\ a \in Accounts /\ Keeps(acct[a], G[a])
    BY <1>2, <1>5
  <2>3. acct' = H
    BY <1>2, <2>1, <2>2
  <2>4. IsAccount(x) /\ x.flight = acct[a].flight + 1 /\ x.open = acct[a].open + 1
    <3>1. IsAccount(G[a]) /\ G[a].flight = acct[a].flight /\ G[a].open = acct[a].open
      BY <2>2 DEF Keeps
    <3> DEFINE f == G[a].flight + 1
               o == G[a].open + 1
    <3>2. f \in Nat /\ o \in Nat /\ f = acct[a].flight + 1 /\ o = acct[a].open + 1
      BY <3>1 DEF IsAccount
    <3>3. x = [G[a] EXCEPT !.flight = f, !.open = o]
      OBVIOUS
    <3> HIDE DEF f, o, x, G
    <3>4. IsAccount(x) /\ x.flight = f /\ x.open = o
      BY <3>1, <3>2, <3>3 DEF IsAccount
    <3> QED BY <3>2, <3>4
  <2>5. IsRequest(req[r]) /\ Asked(req[r])
    BY KindIs DEF Typed
  <2>6. IsRequest(new) /\ Asked(new) /\ new.pc = "sent" /\ new.at = a
    BY <2>2, <2>5 DEF IsRequest, Asked
  <2> HIDE DEF new, x, G, a
  <2>7. req'[r] = new /\ Moves(req, req', r)
    BY <2>1, <2>6, GoesDoes DEF Typed
  <2>8. /\ Cardinality(SentTo(req', a)) = Cardinality(SentTo(req, a)) + 1
        /\ Cardinality(OpenedAt(req', a)) = Cardinality(OpenedAt(req, a)) + 1
    BY <1>3, <2>6, <2>7, GivenTo
  <2>9. Carries(x, req', a)
    <3>1. Carries(acct[a], req, a) /\ IsAccount(acct[a])
      BY <1>3, <2>2 DEF FleetFits, IsFleet
    <3>2. acct[a].flight \in Nat /\ acct[a].open \in Nat
      BY <3>1 DEF IsAccount
    <3>3. Cardinality(SentTo(req, a)) \in Nat /\ Cardinality(OpenedAt(req, a)) \in Nat
      BY AtAccountIs, FS_CardinalityType
    <3> QED BY <2>4, <2>8, <3>1, <3>2, <3>3 DEF Carries
  <2>10. H = [b \in Accounts |-> H[b]] /\ H[a] = x /\ \A b \in Accounts \ {a} : Keeps(acct[b], H[b])
    BY <1>2, <2>2
  <2> HIDE DEF H
  <2>11. FleetFits(H, Members, req')
    BY <1>3, <2>2, <2>4, <2>6, <2>7, <2>9, <2>10, OneAccountMoves
  <2>12. RoomFor(tracker') /\ Asked(req'[r]) /\ current' \in Members \cup {NoAccount}
    BY <1>2, <1>3, <2>1, <2>6, <2>7, TrackerIs
  <2> QED BY <1>3, <2>3, <2>7, <2>11, <2>12, RequestStep
<1> QED BY <1>4, <1>5

\* The account of r, if the pool still has it, becomes x.
LEMMA AccountLeft ==
  ASSUME Typed, NEW r \in Requests, Moves(req, req', r), NEW a, a = req[r].at,
         req[r].pc \in {"sent", "body"}, req'[r].pc \in {"sent", "body"} => req'[r].at = a,
         NEW x, a \in Members => IsAccount(x) /\ Carries(x, req', a), InFleet(a, x)
  PROVE  FleetFits(acct', Members, req')
<1>1. a \in Accounts /\ FleetFits(acct, Members, req) /\ IsFleet(acct)
  BY DEF Typed, Asked, FleetFits
<1>2. \A b \in Accounts : Keeps(acct[b], acct[b])
  BY <1>1 DEF IsFleet, Keeps
<1>3. CASE a \in Members
  <2>1. acct' = [acct EXCEPT ![a] = x]
    BY <1>3 DEF InFleet
  <2>2. acct' = [b \in Accounts |-> acct'[b]] /\ acct'[a] = x /\ \A b \in Accounts \ {a} : acct'[b] = acct[b]
    BY <1>1, <2>1 DEF IsFleet
  <2>3. \A b \in Accounts \ {a} : Keeps(acct[b], acct'[b])
    BY <1>2, <2>2
  <2> QED BY <1>1, <1>3, <2>2, <2>3, OneAccountMoves
<1>4. CASE a \notin Members
  <2>1. acct' = acct
    BY <1>4 DEF InFleet
  <2>2. acct' = [b \in Accounts |-> acct'[b]] /\ \A b \in Accounts : Keeps(acct[b], acct'[b])
    BY <1>1, <1>2, <2>1 DEF IsFleet
  <2>3. IsAccount(acct'[a]) /\ acct'[a].flight = 0 /\ acct'[a].open = 0
    BY <1>1, <1>4, <2>1 DEF IsFleet, FleetFits
  <2>4. Carries(acct'[a], req', a)
    <3>1. Cardinality(SentTo(req', a)) >= 0 /\ Cardinality(OpenedAt(req', a)) >= 0
      BY AtAccountIs
    <3> QED BY <2>3, <3>1 DEF Carries
  <2> QED BY <1>1, <2>2, <2>3, <2>4, OneAccountMoves
<1> QED BY <1>3, <1>4

\* What an account carries at an answer, and when the body is over too.
LEMMA CarriesLess ==
  ASSUME Typed, NEW r \in Requests, Moves(req, req', r), NEW a \in Accounts, a = req[r].at,
         NEW x, Keeps(acct[a], x)
  PROVE  /\ req[r].pc = "sent" /\ req'[r].pc = "body" /\ req'[r].at = a =>
              IsAccount(Answered(x)) /\ Carries(Answered(x), req', a)
         /\ req[r].pc = "sent" /\ req'[r].pc \notin {"sent", "body"} =>
              IsAccount(Closed(Answered(x))) /\ Carries(Closed(Answered(x)), req', a)
         /\ req[r].pc = "body" /\ req'[r].pc \notin {"sent", "body"} =>
              IsAccount(Closed(x)) /\ Carries(Closed(x), req', a)
<1> DEFINE n == Cardinality(SentTo(req, a))   nn == Cardinality(SentTo(req', a))
           o == Cardinality(OpenedAt(req, a)) oo == Cardinality(OpenedAt(req', a))
<1>1. n \in Nat /\ nn \in Nat /\ o \in Nat /\ oo \in Nat
  BY AtAccountIs, FS_CardinalityType
<1>2. /\ x.flight \in Nat /\ x.open \in Nat /\ x.flight <= n /\ x.open <= o /\ IsAccount(x)
  BY DEF Typed, FleetFits, Carries, Keeps, IsAccount
<1>3. /\ IsAccount(Answered(x)) /\ Answered(x).flight = SS!Less1(x.flight) /\ Answered(x).open = x.open
      /\ IsAccount(Closed(x)) /\ Closed(x).flight = x.flight /\ Closed(x).open = SS!Less1(x.open)
  BY <1>2, AnsweredIs
<1>4. /\ IsAccount(Closed(Answered(x))) /\ Closed(Answered(x)).flight = SS!Less1(x.flight)
      /\ Closed(Answered(x)).open = SS!Less1(x.open)
  BY <1>3, AnsweredIs
<1>5. ASSUME req[r].pc = "sent", req'[r].pc = "body", req'[r].at = a
      PROVE  Carries(Answered(x), req', a)
  <2>1. n = nn + 1
    BY <1>5, AnsweredBy
  <2>2. OpenedAt(req', a) = OpenedAt(req, a)
    BY <1>5 DEF OpenedAt, Moves
  <2>3. SS!Less1(x.flight) <= nn
    BY <1>1, <1>2, <2>1, Less1Is
  <2> QED BY <1>2, <1>3, <2>2, <2>3 DEF Carries
<1>6. ASSUME req[r].pc = "sent", req'[r].pc \notin {"sent", "body"}
      PROVE  Carries(Closed(Answered(x)), req', a)
  <2>1. n = nn + 1 /\ o = oo + 1
    BY <1>6, AnsweredBy, ClosedAt
  <2>2. SS!Less1(x.flight) <= nn /\ SS!Less1(x.open) <= oo
    BY <1>1, <1>2, <2>1, Less1Is
  <2> QED BY <1>4, <2>2 DEF Carries
<1>7. ASSUME req[r].pc = "body", req'[r].pc \notin {"sent", "body"}
      PROVE  Carries(Closed(x), req', a)
  <2>1. o = oo + 1
    BY <1>7, ClosedAt
  <2>2. SentTo(req', a) = SentTo(req, a)
    BY <1>7 DEF SentTo, Moves
  <2>3. SS!Less1(x.open) <= oo
    BY <1>1, <1>2, <2>1, Less1Is
  <2> QED BY <1>2, <1>3, <2>2, <2>3 DEF Carries
<1> QED BY <1>3, <1>4, <1>5, <1>6, <1>7

LEMMA AccountAt ==
  ASSUME Typed, NEW r \in Requests, req[r].pc \in {"sent", "body"}
  PROVE  /\ req[r].at \in Accounts /\ IsAccount(acct[req[r].at])
         /\ Keeps(acct[req[r].at], acct[req[r].at])
<1>1. req[r].at \in Accounts /\ IsFleet(acct)
  BY DEF Typed, Asked, FleetFits
<1> QED BY <1>1 DEF IsFleet, Keeps

LEMMA AnswerKept ==
  ASSUME Typed, NEW a \in Accounts, NEW y \in Replies
  PROVE  Keeps(acct[a], After(Read(acct[a], a, y[2]), y[1]))
<1>1. IsAccount(acct[a]) /\ now \in Times
  BY NowIsReading DEF Typed, FleetFits, IsFleet
<1>2. IsQuota(y[2]) /\ y[1] \in {"ok", "failed", "limited", "spent", "dead", "denied"}
  BY ReadingsAssumption DEF IsQuota
<1>3. Keeps(acct[a], Read(acct[a], a, y[2]))
  BY <1>1, <1>2, ReadIs
<1>4. Keeps(Read(acct[a], a, y[2]), After(Read(acct[a], a, y[2]), y[1]))
  BY <1>2, <1>3, AfterIs DEF Keeps
<1> QED BY <1>3, <1>4 DEF Keeps

LEMMA BeginTyped ==
  ASSUME Typed, [Next]_vars, NEW r \in Requests, NEW k \in Kinds, Begin(r, k)
  PROVE  Typed'
<1>1. PICK t \in IF k.session = NoSession THEN {tracker} ELSE SS!Begun(tracker, k.session, now) :
        LET counted == k.session # NoSession /\ SS!Tracked(t, k.session)
        IN /\ Tracks(t, served)
           /\ Goes(r, [Idle EXCEPT !.pc = "asking", !.kind = k, !.counted = counted])
  BY DEF Begin
<1> DEFINE counted == k.session # NoSession /\ SS!Tracked(t, k.session)
           q == [Idle EXCEPT !.pc = "asking", !.kind = k, !.counted = counted]
<1>2. IsRequest(q) /\ q.pc = "asking" /\ Asked(q)
  <2>1. IsRequest(q) /\ q.pc = "asking" /\ q.kind = k /\ q.tried = {}
    BY IdleIs DEF IsRequest, Idle
  <2> QED BY <2>1 DEF Asked
<1>3. Goes(r, q) /\ tracker' = t
  BY <1>1 DEF Tracks
<1>4. RoomFor(t)
  <2>1. k.session \in Sessions \cup {NoSession}
    BY RequestsAssumption
  <2> QED BY <1>1, <2>1, TrackerIs, BegunRooms
<1>5. /\ req[r].pc = "idle" /\ acct' = acct /\ current' = current /\ UNCHANGED <<now, cfg, pins>>
  BY DEF Begin, fleetVars
<1> HIDE DEF q
<1>6. req'[r] = q /\ Moves(req, req', r)
  BY <1>2, <1>3, GoesDoes DEF Typed
<1>7. \A a : SentTo(req', a) = SentTo(req, a) /\ OpenedAt(req', a) = OpenedAt(req, a)
  BY <1>2, <1>5, <1>6 DEF SentTo, OpenedAt, Moves
<1>8. FleetFits(acct', Members, req')
  BY <1>5, <1>7 DEF Typed, FleetFits, Carries
<1> QED BY <1>2, <1>3, <1>4, <1>5, <1>6, <1>8, RequestStep DEF Typed

LEMMA ServeTyped ==
  ASSUME Typed, [Next]_vars, NEW r \in Requests, NEW y \in Replies, Serve(r, y[1], y[2])
  PROVE  Typed'
<1> DEFINE a == req[r].at
           x == After(Read(acct[a], a, y[2]), "ok")
           q == [Idle EXCEPT !.pc = "body", !.at = a]
<1>1. /\ req[r].pc = "sent" /\ y[1] = "ok" /\ InFleet(a, Answered(x)) /\ Goes(r, q)
      /\ current' = current /\ UNCHANGED <<now, cfg, pins>>
  BY DEF Serve
<1>2. a \in Accounts /\ Keeps(acct[a], x)
  BY <1>1, AccountAt, AnswerKept
<1>3. IsRequest(q) /\ Asked(q) /\ q.pc = "body" /\ q.at = a
  <2>1. IsRequest(q) /\ q.pc = "body" /\ q.at = a /\ q.kind \in Kinds /\ q.tried = {}
    BY IdleIs, RequestsAssumption DEF IsRequest, Idle
  <2> QED BY <1>2, <2>1 DEF Asked
<1> HIDE DEF q, x
<1>4. req'[r] = q /\ Moves(req, req', r)
  BY <1>1, <1>3, GoesDoes DEF Typed
<1>5. IsAccount(Answered(x)) /\ Carries(Answered(x), req', a)
  BY <1>1, <1>2, <1>3, <1>4, CarriesLess
<1>6. FleetFits(acct', Members, req')
  <2> DEFINE z == Answered(x)
  <2>1. InFleet(a, z) /\ IsAccount(z) /\ Carries(z, req', a)
    BY <1>1, <1>5
  <2> HIDE DEF z
  <2> QED BY <1>1, <1>3, <1>4, <2>1, AccountLeft
<1>7. RoomFor(tracker')
  <2>1. PICK t \in TouchedBy(tracker, r) : tracker' = Over1(t, r)
    BY DEF Serve, Tracks
  <2>2. RoomFor(t) /\ IsTracker(t)
    <3>1. CASE Session(r) = NoSession
      BY <2>1, <3>1, TrackerIs DEF TouchedBy
    <3>2. CASE Session(r) # NoSession
      <4>1. Session(r) \in Sessions
        BY <3>2, KindIs DEF Session
      <4>2. t \in SS!Touched(tracker, Session(r), req[r].at, WeeklyBucketFor(req[r].kind.model), now)
        BY <2>1, <3>2 DEF TouchedBy
      <4>3. IsTracker(tracker) /\ RoomFor(tracker)
        BY TrackerIs
      <4>4. TouchedAs(tracker, t, Session(r), req[r].at, WeeklyBucketFor(req[r].kind.model))
        BY <4>1, <4>2, <4>3, TouchedRooms
      <4>5. IsTracker(t)
        BY <4>2, <4>3, TouchedKeeps DEF SameFlights
      <4> QED BY <4>4, <4>5 DEF TouchedAs
    <3> QED BY <3>1, <3>2
  <2> QED BY <2>1, <2>2, OverRooms
<1>8. Asked(req'[r]) /\ current' \in Members \cup {NoAccount}
  BY <1>1, <1>3, <1>4 DEF Typed
<1> QED BY <1>1, <1>4, <1>6, <1>7, <1>8, RequestStep

LEMMA TurnAwayTyped ==
  ASSUME Typed, [Next]_vars, NEW r \in Requests, NEW y \in Replies, TurnAway(r, y[1], y[2])
  PROVE  Typed'
<1> DEFINE a == req[r].at
           x == After(Read(acct[a], a, y[2]), y[1])
           q == [req[r] EXCEPT !.pc = "asking", !.at = NoAccount, !.tried = req[r].tried \cup {a}]
<1>1. /\ req[r].pc = "sent" /\ InFleet(a, Closed(Answered(x)))
      /\ current' = current /\ UNCHANGED <<now, cfg, pins>>
      /\ \/ Fails(r)
         \/ Goes(r, q) /\ tracker' = tracker
  BY DEF TurnAway
<1>2. a \in Accounts /\ Keeps(acct[a], x)
  BY <1>1, AccountAt, AnswerKept
<1>3. IsRequest(q) /\ Asked(q) /\ q.pc = "asking"
  <2>1. IsRequest(req[r]) /\ req[r].tried \subseteq Accounts /\ req[r].kind \in Kinds
    BY KindIs
  <2>2. IsRequest(q) /\ q.pc = "asking" /\ q.tried = req[r].tried \cup {a} /\ q.kind = req[r].kind
    BY <2>1 DEF IsRequest
  <2> HIDE DEF q
  <2> QED BY <1>2, <2>1, <2>2 DEF Asked
<1> HIDE DEF q, x
<1>4. /\ Moves(req, req', r) /\ Asked(req'[r]) /\ req'[r].pc \notin {"sent", "body"} /\ RoomFor(tracker')
  <2>1. CASE Fails(r)
    BY <2>1, FailsIs
  <2>2. CASE Goes(r, q) /\ tracker' = tracker
    BY <1>3, <2>2, GoesDoes, TrackerIs DEF Typed
  <2> QED BY <1>1, <2>1, <2>2
<1>5. IsAccount(Closed(Answered(x))) /\ Carries(Closed(Answered(x)), req', a)
  BY <1>1, <1>2, <1>4, CarriesLess
<1>6. FleetFits(acct', Members, req')
  <2> DEFINE z == Closed(Answered(x))
  <2>1. InFleet(a, z) /\ IsAccount(z) /\ Carries(z, req', a)
    BY <1>1, <1>5
  <2> HIDE DEF z
  <2> QED BY <1>1, <1>4, <2>1, AccountLeft
<1> QED BY <1>1, <1>4, <1>6, RequestStep DEF Typed

LEMMA EndOfBodyTyped ==
  ASSUME Typed, [Next]_vars, NEW r \in Requests, EndOfBody(r)
  PROVE  Typed'
<1> DEFINE a == req[r].at
<1>1. /\ req[r].pc = "body" /\ InFleet(a, Closed(acct[a])) /\ Goes(r, Idle)
      /\ current' = current /\ tracker' = tracker /\ UNCHANGED <<now, cfg, pins>>
  BY DEF EndOfBody
<1>2. a \in Accounts /\ Keeps(acct[a], acct[a])
  BY <1>1, AccountAt
<1>3. Moves(req, req', r) /\ Asked(req'[r]) /\ req'[r].pc = "idle"
  BY <1>1, MovesIdle
<1>4. IsAccount(Closed(acct[a])) /\ Carries(Closed(acct[a]), req', a)
  BY <1>1, <1>2, <1>3, CarriesLess
<1>5. FleetFits(acct', Members, req')
  <2> DEFINE z == Closed(acct[a])
  <2>1. InFleet(a, z) /\ IsAccount(z) /\ Carries(z, req', a)
    BY <1>1, <1>4
  <2> HIDE DEF z
  <2> QED BY <1>1, <1>3, <2>1, AccountLeft
<1> QED BY <1>1, <1>3, <1>5, TrackerIs, RequestStep DEF Typed

LEMMA HangUpTyped ==
  ASSUME Typed, [Next]_vars, NEW r \in Requests, HangUp(r)
  PROVE  Typed'
<1> DEFINE a == req[r].at
<1>1. /\ req[r].pc \in {"asking", "sent"} /\ Goes(r, Idle)
      /\ IF req[r].pc = "sent" THEN InFleet(a, Closed(Answered(acct[a]))) ELSE acct' = acct
      /\ current' = current /\ tracker' = tracker /\ UNCHANGED <<now, cfg, pins>>
  BY DEF HangUp
<1>2. Moves(req, req', r) /\ Asked(req'[r]) /\ req'[r].pc = "idle"
  BY <1>1, MovesIdle
<1>3. FleetFits(acct', Members, req')
  <2>1. CASE req[r].pc = "sent"
    <3> DEFINE z == Closed(Answered(acct[a]))
    <3>1. a \in Accounts /\ Keeps(acct[a], acct[a])
      BY <2>1, AccountAt
    <3>2. InFleet(a, z) /\ IsAccount(z) /\ Carries(z, req', a)
      BY <1>1, <1>2, <2>1, <3>1, CarriesLess
    <3> HIDE DEF z
    <3> QED BY <1>2, <2>1, <3>2, AccountLeft
  <2>2. CASE req[r].pc = "asking"
    <3>1. \A b : SentTo(req', b) = SentTo(req, b) /\ OpenedAt(req', b) = OpenedAt(req, b)
      BY <1>2, <2>2 DEF SentTo, OpenedAt, Moves
    <3> QED BY <1>1, <2>2, <3>1 DEF Typed, FleetFits, Carries
  <2> QED BY <1>1, <2>1, <2>2
<1> QED BY <1>1, <1>2, <1>3, TrackerIs, RequestStep DEF Typed

LEMMA UsageReadTyped ==
  ASSUME Typed, [Next]_vars, NEW a \in Accounts, NEW u \in Payloads, UsageRead(a, u)
  PROVE  Typed'
<1> DEFINE v == ApplyUsage(acct[a].quota, u, now)
           x == [acct[a] EXCEPT !.quota = v, !.probed = now]
           F == [acct EXCEPT ![a] = x]
           y == IF x.hold /\ Lasts(x.until) /\ ~NearQuota(F, a, NoModel) THEN Unheld(x) ELSE x
<1>1. /\ acct' = [F EXCEPT ![a] = y]
      /\ UNCHANGED <<now, cfg, current, pins, tracker, req>>
  BY DEF UsageRead
<1>2. IsAccount(acct[a]) /\ now \in Times /\ IsFleet(acct)
  BY NowIsReading DEF Typed, FleetFits, IsFleet
<1>3. v \in [Keys -> Bucket(Times, Utils)]
  BY <1>2, UsageIs DEF IsAccount, IsQuota
<1> HIDE DEF v
<1>4. Keeps(acct[a], x)
  BY <1>2, <1>3 DEF IsAccount, Keeps
<1>5. Keeps(acct[a], y)
  <2> HIDE DEF x, F
  <2>1. Keeps(x, Unheld(x))
    BY <1>4, UnheldIs DEF Keeps
  <2> QED BY <1>4, <2>1 DEF Keeps
<1> HIDE DEF y, x
<1>6. acct' = [b \in Accounts |-> acct'[b]] /\ \A b \in Accounts : Keeps(acct[b], acct'[b])
  BY <1>1, <1>2, <1>5 DEF IsFleet, Keeps
<1>7. FleetFits(acct, Members, req) /\ req' = req
  BY <1>1 DEF Typed
<1>8. FleetFits(acct', Members, req')
  <2>1. \A b : SentTo(req', b) = SentTo(req, b) /\ OpenedAt(req', b) = OpenedAt(req, b)
    BY <1>7
  <2> QED BY <1>6, <1>7, <2>1, NoneMoves
<1>9. Members' = Members /\ Counts'
  BY <1>1, StepCounts DEF Members, Typed
<1> QED BY <1>1, <1>8, <1>9 DEF Typed, pins

LEMMA ReloadTyped ==
  ASSUME Typed, [Next]_vars, NEW c \in Configs, NEW back, Reload(c, back)
  PROVE  Typed'
<1> DEFINE live == {c.order[i] : i \in DOMAIN c.order}
           s(a) == IF acct[a].status = "error" /\ a \in back THEN "active" ELSE acct[a].status
           b(a) == IF c.expiry /\ c.preempt THEN acct[a].baseline ELSE [w \in Weekly |-> Unknown]
           G(a) == [acct[a] EXCEPT !.status = s(a), !.baseline = b(a)]
<1>1. /\ cfg' = c /\ UNCHANGED <<now, req, pinning>> /\ tracker' = SS!Remapped(tracker, live)
      /\ current' = IF current \in live THEN current ELSE NoAccount
      /\ routePin' = [n \in Routes |-> IF routePin[n] \in live THEN routePin[n] ELSE NoAccount]
      /\ acct' = [a \in Accounts |-> IF a \notin live \/ a \notin Members THEN NewAccount ELSE G(a)]
  BY DEF Reload
<1>2. Members' = live
  BY <1>1 DEF Members
<1>3. ASSUME NEW a \in Accounts
      PROVE  /\ acct'[a] = IF a \notin live \/ a \notin Members THEN NewAccount ELSE G(a)
             /\ Keeps(acct[a], G(a)) /\ Carries(acct[a], req, a)
  <2>1. IsAccount(acct[a]) /\ Carries(acct[a], req, a)
    BY DEF Typed, FleetFits, IsFleet
  <2>2. s(a) \in {"active", "throttled", "error"}
    BY <2>1 DEF IsAccount
  <2> HIDE DEF s, b
  <2>3. Keeps(acct[a], G(a))
    BY <2>1, <2>2 DEF IsAccount, Keeps
  <2> QED BY <1>1, <2>1, <2>3
<1> HIDE DEF G, live
<1>4. FleetFits(acct', live, req')
  <2>1. ASSUME NEW a \in Accounts
        PROVE  /\ IsAccount(acct'[a]) /\ Carries(acct'[a], req, a)
               /\ a \notin live => acct'[a].flight = 0 /\ acct'[a].open = 0
    <3>1. CASE a \notin live \/ a \notin Members
      <4>1. IsAccount(acct'[a]) /\ acct'[a].flight = 0 /\ acct'[a].open = 0
        BY <1>3, <3>1, NewAccountIs
      <4>2. Cardinality(SentTo(req, a)) >= 0 /\ Cardinality(OpenedAt(req, a)) >= 0
        BY AtAccountIs
      <4> QED BY <4>1, <4>2 DEF Carries
    <3>2. CASE ~(a \notin live \/ a \notin Members)
      BY <1>3, <3>2 DEF Keeps, Carries
    <3> QED BY <3>1, <3>2
  <2>2. acct' = [a \in Accounts |-> acct'[a]]
    BY <1>1
  <2> QED BY <1>1, <2>1, <2>2 DEF FleetFits, IsFleet
<1>5. RoomFor(tracker')
  BY <1>1, TrackerIs, RemappedRooms
<1>6. Counts'
  BY StepCounts DEF Typed
<1>7. current' \in live \cup {NoAccount} /\ routePin' \in [Routes -> Accounts \cup {NoAccount}]
  BY <1>1 DEF Typed
<1> QED BY <1>1, <1>2, <1>4, <1>5, <1>6, <1>7 DEF Typed

LEMMA StepTyped ==
  ASSUME Typed, [Next]_vars
  PROVE  Typed'
<1>1. Counts'
  BY StepCounts DEF Typed
<1>2. ASSUME UNCHANGED <<cfg, acct, tracker, req>>, now' \in 0 .. MaxTime, current' \in Members \cup {NoAccount},
             routePin' \in [Routes -> Accounts \cup {NoAccount}], pinning' \subseteq Routes \X Accounts
      PROVE  Typed'
  <2>1. Members' = Members
    BY <1>2 DEF Members
  <2> QED BY <1>1, <1>2, <2>1 DEF Typed
<1>3. ASSUME NEW r \in Requests, NEW k \in Kinds, Begin(r, k)
      PROVE  Typed'
  BY <1>3, BeginTyped
<1>4. ASSUME NEW r \in Requests, Ask(r) \/ EndOfBody(r) \/ HangUp(r)
      PROVE  Typed'
  BY <1>4, AskTyped, EndOfBodyTyped, HangUpTyped
<1>5. ASSUME NEW r \in Requests, NEW y \in Replies, Serve(r, y[1], y[2]) \/ TurnAway(r, y[1], y[2])
      PROVE  Typed'
  BY <1>5, ServeTyped, TurnAwayTyped
<1>6. ASSUME NEW a \in Accounts, NEW u \in Payloads, UsageRead(a, u)
      PROVE  Typed'
  BY <1>6, UsageReadTyped
<1>7. ASSUME NEW a \in Accounts, SwitchTo(a)
      PROVE  Typed'
  BY <1>2, <1>7 DEF SwitchTo, Typed, pins
<1>8. ASSUME NEW n \in Routes, Unpin(n) \/ \E a \in Accounts : LookUpPin(n, a) \/ SetRoutePin(n, a)
      PROVE  Typed'
  <2>1. /\ UNCHANGED <<now, cfg, acct, current, tracker, req>>
        /\ now \in 0 .. MaxTime /\ current \in Members \cup {NoAccount}
    BY <1>8 DEF LookUpPin, SetRoutePin, Unpin, Typed, fleetVars
  <2>2. Members \subseteq Accounts
    BY TypedIsReady
  <2>3. routePin' \in [Routes -> Accounts \cup {NoAccount}]
    BY <1>8 DEF LookUpPin, SetRoutePin, Unpin, Typed
  <2>4. pinning' \subseteq Routes \X Accounts
    <3>1. pinning \subseteq Routes \X Accounts /\ \A a \in Accounts : <<n, a>> \in Routes \X Accounts
      BY DEF Typed
    <3>2. pinning' \subseteq pinning \cup {<<n, a>> : a \in Accounts}
      BY <1>8 DEF LookUpPin, SetRoutePin, Unpin
    <3> QED BY <3>1, <3>2
  <2> QED BY <1>2, <2>1, <2>3, <2>4
<1>9. ASSUME NEW c \in Configs, NEW back, Reload(c, back)
      PROVE  Typed'
  BY <1>9, ReloadTyped
<1>10. ASSUME Tick
       PROVE  Typed'
  <2>1. now' \in 0 .. MaxTime
    BY <1>10, TimesAssumption DEF Tick, Typed
  <2> QED BY <1>2, <1>10, <2>1 DEF Tick, Typed, fleetVars, pins
<1>11. CASE UNCHANGED vars
  BY <1>2, <1>11 DEF vars, Typed, pins
<1>12. CASE Next
  BY <1>3, <1>4, <1>5, <1>6, <1>7, <1>8, <1>9, <1>10, <1>12 DEF Next
<1> QED BY <1>11, <1>12

\* Whatever the requests, the accounts, the settings, the answers and their
\* order: every reading and counter has its type, an account's open requests
\* and ramp slots are never more than the requests there are - not after a
\* reload made its counters anew while requests were out - and the tracker
\* never holds more than MAX_SESSIONS (manager.rs:147-230, session.rs:24-60).
THEOREM TypesAreKept == Spec => []TypeOK
<1>1. Init => Typed
  BY InitTyped
<1>2. Typed /\ [Next]_vars => Typed'
  BY StepTyped
<1>3. Typed => TypeOK
  BY TypedIsTyped
<1> QED BY <1>1, <1>2, <1>3, PTL DEF Spec

-----------------------------------------------------------------------------
\* Where a request goes: only a call of select gives it an account.

LEMMA OnlyAsked ==
  ASSUME Typed, [Next]_vars, NEW r \in Requests, Chose(r)
  PROVE  Ask(r)
<1>1. req = [q \in Requests |-> req[q]]
  BY DEF Typed, Counts, CountsOf
<1>2. ASSUME NEW x \in Requests, NEW q, Goes(x, q), x # r \/ q.pc # "sent"
      PROVE  FALSE
  BY <1>1, <1>2 DEF Goes, Chose
<1>3. req' # req
  BY DEF Chose
<1>4. ASSUME NEW x \in Requests, NEW k \in Kinds, Begin(x, k)
      PROVE  FALSE
  <2>1. PICK c : Goes(x, [Idle EXCEPT !.pc = "asking", !.kind = k, !.counted = c])
    BY <1>4 DEF Begin
  <2>2. [Idle EXCEPT !.pc = "asking", !.kind = k, !.counted = c].pc = "asking"
    BY DEF Idle
  <2> QED BY <1>2, <2>1, <2>2
<1>5. ASSUME NEW x \in Requests, Goes(x, Idle)
      PROVE  FALSE
  BY <1>2, <1>5, IdleIs
<1>6. ASSUME NEW x \in Requests, EndOfBody(x) \/ HangUp(x) \/ Fails(x)
      PROVE  FALSE
  BY <1>5, <1>6 DEF EndOfBody, HangUp, Fails
<1>7. ASSUME NEW x \in Requests, NEW class, NEW h, Serve(x, class, h) \/ TurnAway(x, class, h)
      PROVE  FALSE
  <2>1. PICK q : Goes(x, q) /\ req[x].pc = "sent"
    BY <1>7 DEF Serve, TurnAway, Fails
  <2>2. x # r
    BY <2>1 DEF Chose
  <2> QED BY <1>2, <2>1, <2>2
<1>8. ASSUME NEW x \in Requests, Ask(x)
      PROVE  x = r
  <2>1. PICK q : Goes(x, q)
    BY <1>8 DEF Ask, Fails
  <2> QED BY <1>2, <2>1
<1>9. Next
  BY <1>3 DEF vars
<1>10. ASSUME NEW a, (\E u \in Payloads : UsageRead(a, u)) \/ SwitchTo(a) \/ \E n : LookUpPin(n, a) \/ SetRoutePin(n, a) \/ Unpin(n)
       PROVE  FALSE
  BY <1>3, <1>10 DEF UsageRead, SwitchTo, LookUpPin, SetRoutePin, Unpin
<1>11. ASSUME NEW c, NEW back, Reload(c, back) \/ Tick
       PROVE  FALSE
  BY <1>3, <1>11 DEF Reload, Tick
<1> QED BY <1>4, <1>6, <1>7, <1>8, <1>9, <1>10, <1>11 DEF Next

LEMMA Chosen ==
  ASSUME Typed, [Next]_vars, NEW r \in Requests, Chose(r)
  PROVE  \E seat, out : AskedFor(r, seat, out) /\ out.at # NoAccount /\ req'[r].at = out.at
<1>1. Ask(r) /\ req = [q \in Requests |-> req[q]] /\ IsRequest(req[r])
  BY OnlyAsked, KindIs DEF Typed, Counts, CountsOf
<1>2. PICK seat, out : AskedFor(r, seat, out)
  BY <1>1, AskIs
<1>3. out.at # NoAccount
  <2>1. ASSUME Fails(r) PROVE FALSE
    BY <2>1, FailsIs DEF Chose
  <2> QED BY <1>2, <2>1 DEF AskedFor
<1>4. Goes(r, [req[r] EXCEPT !.pc = "sent", !.at = out.at])
  BY <1>2, <1>3 DEF AskedFor
<1>5. req'[r].at = out.at
  BY <1>1, <1>4 DEF Goes, IsRequest
<1> QED BY <1>2, <1>3, <1>5

\* The account a request nobody pinned is given is as good as the best.
LEMMA ChosenIsGood ==
  ASSUME Typed, [Next]_vars, NEW r \in Requests, Chose(r), Free(req[r].kind),
         NEW b \in Available(Expired, req[r].kind, req[r].tried)
  PROVE  Good(Expired, Available(Expired, req[r].kind, req[r].tried), req'[r].at, req[r].kind.model)
<1>1. PICK seat, out : AskedFor(r, seat, out) /\ req'[r].at = out.at
  BY Chosen
<1>2. IsAnswer(Expired, req[r].kind, req[r].tried, out)
  BY <1>1 DEF AskedFor
<1> QED BY <1>1, <1>2 DEF IsAnswer

\* Whatever path of select answers - the session's seat, the spread of new
\* sessions, a cursor chosen afresh, the cursor, a diversion, a failover, the
\* best account or a revalidation - and whatever the pool, its settings and
\* the readings: a request nobody pinned is given to an account of the best
\* priority that could serve it (manager.rs:1731-1745, 1882-2067).  Left out is
\* expiry routing without soonest-reset routing, where the order of the file
\* decides while the top tier has no reading (manager.rs:1649).
THEOREM PriorityIsFirst == Spec => PriorityFirst
<1>1. Init => Typed
  BY InitTyped
<1>2. Typed /\ [Next]_vars => Typed'
  BY StepTyped
<1>3. ASSUME Typed, [Next]_vars, NEW r \in Requests, ~cfg.expiry \/ cfg.soonest
      PROVE  Prefers(r)
  <2>1. SUFFICES ASSUME Chose(r), Free(req[r].kind),
                        NEW b \in Available(Expired, req[r].kind, req[r].tried)
                 PROVE  Prio(req'[r].at) <= Prio(b)
    BY DEF Prefers
  <2>2. Good(Expired, Available(Expired, req[r].kind, req[r].tried), req'[r].at, req[r].kind.model)
    BY <1>3, <2>1, ChosenIsGood
  <2> QED BY <1>3, <2>1, <2>2 DEF Good
<1>4. Typed /\ [Next]_vars => [\A r \in Requests : ~cfg.expiry \/ cfg.soonest => Prefers(r)]_vars
  BY <1>3
<1> QED BY <1>1, <1>2, <1>4, PTL DEF Spec, PriorityFirst

\* With soonest-reset routing, expiry routing off, a request nobody pinned is given to no account
\* while another could serve it from an earlier band of the same priority: a
\* session and the cursor leave their account for it, whatever the readings
\* and the widths of the bands (manager.rs:1763-1846, 1938-1944).
THEOREM BandIsEarliest == Spec => EarliestBand
<1> DEFINE Earliest(r) ==
             LET q == req[r].kind  F == Expired  V == Available(F, q, req[r].tried)
             IN Chose(r) /\ Free(q) /\ cfg.soonest /\ ~cfg.expiry =>
                  \A b \in V : ~LexLess(Bands(F, V, b, q.model), Bands(F, V, req'[r].at, q.model))
<1>1. Init => Typed
  BY InitTyped
<1>2. Typed /\ [Next]_vars => Typed'
  BY StepTyped
<1>3. ASSUME Typed, [Next]_vars, NEW r \in Requests
      PROVE  Earliest(r)
  <2> DEFINE V == Available(Expired, req[r].kind, req[r].tried)
             B(a) == Bands(Expired, V, a, req[r].kind.model)
  <2>1. ASSUME Chose(r), Free(req[r].kind), cfg.soonest, ~cfg.expiry, NEW b \in V
        PROVE  ~LexLess(B(b), B(req'[r].at))
    <3>1. Good(Expired, V, req'[r].at, req[r].kind.model)
      BY <1>3, <2>1, ChosenIsGood
    <3> QED BY <2>1, <3>1 DEF Good
  <2> QED BY <2>1
<1>4. Typed /\ [Next]_vars => [\A r \in Requests : Earliest(r)]_vars
  BY <1>3
<1> QED BY <1>1, <1>2, <1>4, PTL DEF Spec, EarliestBand

-----------------------------------------------------------------------------
\* A session is remembered where it was served, as long as it is remembered.

\* What sv says served the sessions is what the tracker t has them pinned to.
PromiseOf(sv, t) ==
  /\ sv \in [Sessions -> [Weekly -> Accounts \cup {NoAccount}]]
  /\ \A s \in DOMAIN t.known : t.known[s].pins = [w \in Weekly |-> t.known[s].pins[w]]
  /\ \A s \in Sessions : \A w \in Weekly :
       sv[s][w] # NoAccount => s \in DOMAIN t.known /\ t.known[s].pins[w] = sv[s][w]

Promised == Typed /\ PromiseOf(served, tracker)

NoPins == [w \in Weekly |-> NoAccount]

\* The sessions that u knows are pinned to what sv says served them.
Backs(u, sv) ==
  /\ sv \in [Sessions -> [Weekly -> Accounts \cup {NoAccount}]]
  /\ \A s \in DOMAIN u.known :
       /\ u.known[s].pins = [w \in Weekly |-> u.known[s].pins[w]]
       /\ s \in Sessions =>
            \A w \in Weekly : sv[s][w] # NoAccount => u.known[s].pins[w] = sv[s][w]

LEMMA TracksPromise ==
  ASSUME NEW u, NEW sv, Backs(u, sv), Tracks(u, sv)
  PROVE  PromiseOf(served', tracker')
<1>1. /\ tracker' = u
      /\ served' = [s \in Sessions |-> IF s \in DOMAIN u.known THEN sv[s] ELSE NoPins]
  BY DEF Tracks, SS!Tracked, NoPins
<1>2. NoPins \in [Weekly -> Accounts \cup {NoAccount}] /\ \A w \in Weekly : NoPins[w] = NoAccount
  BY DEF NoPins
<1>3. served' \in [Sessions -> [Weekly -> Accounts \cup {NoAccount}]]
  BY <1>1, <1>2 DEF Backs
<1>4. \A s \in Sessions : \A w \in Weekly :
        served'[s][w] # NoAccount => s \in DOMAIN u.known /\ u.known[s].pins[w] = served'[s][w]
  BY <1>1, <1>2 DEF Backs
<1> QED BY <1>1, <1>3, <1>4 DEF PromiseOf, Backs

\* The tracker forgets sessions, and learns of none.
LEMMA ForgetsPromise ==
  ASSUME NEW t, PromiseOf(served, t), NEW u, Fewer(t, u), Tracks(u, served)
  PROVE  PromiseOf(served', tracker')
<1>1. Backs(u, served)
  <2>1. ASSUME NEW s \in DOMAIN u.known
        PROVE  /\ u.known[s].pins = [w \in Weekly |-> u.known[s].pins[w]]
               /\ s \in Sessions =>
                    \A w \in Weekly : served[s][w] # NoAccount => u.known[s].pins[w] = served[s][w]
    <3>1. s \in DOMAIN t.known /\ u.known[s].pins = t.known[s].pins
      BY DEF Fewer
    <3> QED BY <3>1 DEF PromiseOf
  <2> QED BY <2>1 DEF PromiseOf, Backs
<1> QED BY <1>1, TracksPromise

LEMMA FailsPromise ==
  ASSUME Promised, NEW r, Fails(r)
  PROVE  PromiseOf(served', tracker')
<1>1. Tracks(Over1(tracker, r), served) /\ Fewer(tracker, Over1(tracker, r))
  BY OverRooms, TrackerIs DEF Fails, Promised
<1> QED BY <1>1, ForgetsPromise DEF Promised

LEMMA BeginPromise ==
  ASSUME Promised, NEW r \in Requests, NEW k \in Kinds, Begin(r, k)
  PROVE  PromiseOf(served', tracker')
<1>1. PICK t \in IF k.session = NoSession THEN {tracker} ELSE SS!Begun(tracker, k.session, now) : Tracks(t, served)
  BY DEF Begin
<1>2. k.session \in Sessions \cup {NoSession} /\ IsTracker(tracker) /\ RoomFor(tracker)
  BY RequestsAssumption, TrackerIs DEF Promised
<1>3. CASE k.session = NoSession
  <2>1. t = tracker /\ Fewer(tracker, tracker)
    BY <1>1, <1>3 DEF Fewer
  <2> QED BY <1>1, <2>1, ForgetsPromise DEF Promised
<1>4. CASE k.session # NoSession
  <2> DEFINE id == k.session
  <2>1. Known1(tracker, t, id)
    BY <1>1, <1>2, <1>4, BegunRooms
  <2>2. \A s \in DOMAIN t.known : t.known[s].pins = [w \in Weekly |-> t.known[s].pins[w]]
    <3> TAKE s \in DOMAIN t.known
    <3>1. CASE s \in DOMAIN tracker.known
      BY <2>1, <3>1 DEF Known1, Promised, PromiseOf
    <3>2. CASE s \notin DOMAIN tracker.known
      <4>1. t.known[s].pins = NoPins
        BY <2>1, <3>2 DEF Known1, NoPins
      <4> QED BY <4>1 DEF NoPins
    <3> QED BY <3>1, <3>2
  <2>3. \A s \in Sessions : \A w \in Weekly :
          s \in DOMAIN t.known /\ served[s][w] # NoAccount => t.known[s].pins[w] = served[s][w]
    BY <2>1 DEF Known1, Promised, PromiseOf
  <2>4. Backs(t, served)
    BY <2>2, <2>3 DEF Backs, Promised, PromiseOf
  <2> QED BY <1>1, <2>4, TracksPromise
<1> QED BY <1>3, <1>4

LEMMA ServePromise ==
  ASSUME Promised, NEW r \in Requests, NEW class, NEW h, Serve(r, class, h)
  PROVE  PromiseOf(served', tracker')
<1> DEFINE id == Session(r)
           a  == req[r].at
           b  == WeeklyBucketFor(req[r].kind.model)
           sv == Serving(r)
<1>1. PICK t \in TouchedBy(tracker, r) : Tracks(Over1(t, r), sv)
  BY DEF Serve
<1>2. id \in Sessions \cup {NoSession} /\ IsTracker(tracker) /\ RoomFor(tracker)
  BY KindIs, TrackerIs DEF Promised, Session
<1>3. a \in Accounts /\ b \in Weekly
  BY AccountAt, KindIs, TypedIsReady, BucketsAreWeekly DEF Serve, Promised
<1>4. CASE id = NoSession
  <2>1. t = tracker /\ sv = served
    BY <1>1, <1>4 DEF TouchedBy, Serving
  <2>2. Fewer(t, Over1(t, r)) /\ Tracks(Over1(t, r), served)
    BY <1>1, <1>2, <2>1, OverRooms
  <2> QED BY <2>1, <2>2, ForgetsPromise DEF Promised
<1>5. CASE id # NoSession
  <2> DEFINE u == Over1(t, r)
  <2>1. /\ t \in SS!Touched(tracker, id, a, b, now) /\ sv = [served EXCEPT ![id][b] = a] /\ id \in Sessions
    BY <1>1, <1>2, <1>5 DEF TouchedBy, Serving
  <2>2. /\ RoomFor(t) /\ IsTracker(t) /\ DOMAIN t.known \subseteq DOMAIN tracker.known \cup {id}
        /\ \A x \in DOMAIN t.known \ {id} : t.known[x].pins = tracker.known[x].pins
        /\ id \in DOMAIN t.known => t.known[id].pins = [PinsOf(tracker, id) EXCEPT ![b] = a]
    <3> HIDE DEF id, a, b, sv
    <3>1. TouchedAs(tracker, t, id, a, b)
      BY <1>2, <2>1, TouchedRooms
    <3>2. IsTracker(t)
      BY <1>2, <2>1, TouchedKeeps DEF SameFlights
    <3> QED BY <3>1, <3>2 DEF TouchedAs, OtherPins
  <2>3. Fewer(t, u)
    BY <2>2, OverRooms
  <2>4. PinsOf(tracker, id) = [w \in Weekly |-> PinsOf(tracker, id)[w]]
    <3>1. CASE id \in DOMAIN tracker.known
      BY <3>1 DEF PinsOf, Promised, PromiseOf
    <3>2. CASE id \notin DOMAIN tracker.known
      BY <3>2 DEF PinsOf
    <3> QED BY <3>1, <3>2
  <2>5. \A w \in Weekly : served[id][w] # NoAccount => PinsOf(tracker, id)[w] = served[id][w]
    BY <2>1 DEF PinsOf, Promised, PromiseOf
  <2>6. served \in [Sessions -> [Weekly -> Accounts \cup {NoAccount}]]
    BY DEF Promised, PromiseOf
  <2> HIDE DEF u, sv, id, a, b
  <2>7. /\ sv \in [Sessions -> [Weekly -> Accounts \cup {NoAccount}]]
        /\ \A s \in Sessions \ {id} : sv[s] = served[s]
        /\ \A w \in Weekly : sv[id][w] = IF w = b THEN a ELSE served[id][w]
    BY <1>3, <2>1, <2>6
  <2>8. ASSUME NEW s \in DOMAIN u.known
        PROVE  /\ u.known[s].pins = [w \in Weekly |-> u.known[s].pins[w]]
               /\ s \in Sessions => \A w \in Weekly : sv[s][w] # NoAccount => u.known[s].pins[w] = sv[s][w]
    <3>1. s \in DOMAIN t.known /\ u.known[s].pins = t.known[s].pins
      BY <2>3 DEF Fewer
    <3>2. CASE s = id
      <4> DEFINE p == PinsOf(tracker, id)
      <4>1. u.known[s].pins = [p EXCEPT ![b] = a]
        BY <2>2, <3>1, <3>2
      <4>2. p = [w \in Weekly |-> p[w]] /\ \A w \in Weekly : served[id][w] # NoAccount => p[w] = served[id][w]
        BY <2>4, <2>5
      <4> HIDE DEF p
      <4>3. [p EXCEPT ![b] = a] = [w \in Weekly |-> IF w = b THEN a ELSE p[w]]
        BY <4>2
      <4> QED BY <2>7, <3>2, <4>1, <4>2, <4>3
    <3>3. CASE s # id
      <4>1. s \in DOMAIN tracker.known /\ u.known[s].pins = tracker.known[s].pins
        BY <2>2, <3>1, <3>3
      <4> QED BY <2>7, <3>3, <4>1 DEF Promised, PromiseOf
    <3> QED BY <3>2, <3>3
  <2>9. Tracks(u, sv)
    BY <1>1 DEF u
  <2>10. Backs(u, sv)
    BY <2>7, <2>8 DEF Backs
  <2> QED BY <2>9, <2>10, TracksPromise
<1> QED BY <1>4, <1>5

LEMMA ReloadPromise ==
  ASSUME Promised, NEW c \in Configs, NEW back, Reload(c, back)
  PROVE  PromiseOf(served', tracker')
<1> DEFINE live == {c.order[i] : i \in DOMAIN c.order}
           Left(p) == [w \in Weekly |-> IF p[w] \in live THEN p[w] ELSE NoAccount]
<1>1. /\ tracker' = SS!Remapped(tracker, live)
      /\ served' = [s \in Sessions |-> [w \in Weekly |->
                      IF served[s][w] \in live THEN served[s][w] ELSE NoAccount]]
  BY DEF Reload
<1>2. /\ DOMAIN tracker'.known = DOMAIN tracker.known
      /\ \A s \in DOMAIN tracker.known : tracker'.known[s].pins = Left(tracker.known[s].pins)
  <2>1. IsTracker(tracker) /\ RoomFor(tracker)
    BY TrackerIs DEF Promised
  <2> HIDE DEF live
  <2> DEFINE t == SS!Remapped(tracker, live)
  <2>2. DOMAIN t.known = DOMAIN tracker.known
    BY <2>1, RemappedRooms
  <2>3. \A s \in DOMAIN tracker.known :
          t.known[s].pins = [w \in Weekly |-> IF tracker.known[s].pins[w] \in live
                                             THEN tracker.known[s].pins[w] ELSE NoAccount]
    BY <2>1, RemappedRooms
  <2>4. tracker' = t
    BY <1>1
  <2> HIDE DEF t
  <2> QED BY <2>2, <2>3, <2>4
<1> HIDE DEF live
<1>3. served \in [Sessions -> [Weekly -> Accounts \cup {NoAccount}]]
  BY DEF Promised, PromiseOf
<1>4. served' \in [Sessions -> [Weekly -> Accounts \cup {NoAccount}]]
  BY <1>1, <1>3
<1>5. \A s \in DOMAIN tracker'.known :
        tracker'.known[s].pins = [w \in Weekly |-> tracker'.known[s].pins[w]]
  BY <1>2
<1>6. ASSUME NEW s \in Sessions, NEW w \in Weekly, served'[s][w] # NoAccount
      PROVE  s \in DOMAIN tracker'.known /\ tracker'.known[s].pins[w] = served'[s][w]
  <2>1. served'[s][w] = served[s][w] /\ served[s][w] \in live
    BY <1>1, <1>6
  <2>2. s \in DOMAIN tracker.known /\ tracker.known[s].pins[w] = served[s][w]
    BY <1>6, <2>1 DEF Promised, PromiseOf
  <2> QED BY <1>2, <2>1, <2>2
<1> QED BY <1>4, <1>5, <1>6 DEF PromiseOf

LEMMA InitPromised ==
  ASSUME Init
  PROVE  Promised
<1>1. served = [s \in Sessions |-> [w \in Weekly |-> NoAccount]] /\ tracker = SS!NoTracker
  BY DEF Init
<1>2. DOMAIN tracker.known = {}
  BY <1>1 DEF SS!NoTracker
<1> QED BY <1>1, <1>2, InitTyped DEF Promised, PromiseOf

PromiseStays == PromiseOf(served', tracker')

LEMMA StepPromised ==
  ASSUME Promised, [Next]_vars
  PROVE  Promised'
<1>1. Typed'
  BY StepTyped DEF Promised
<1>2. ASSUME served' = served, tracker' = tracker
      PROVE  PromiseStays
  BY <1>2 DEF Promised, PromiseStays
<1>3. ASSUME NEW r \in Requests, NEW k \in Kinds, Begin(r, k)
      PROVE  PromiseStays
  BY <1>3, BeginPromise DEF PromiseStays
<1>4. ASSUME NEW r \in Requests, Ask(r)
      PROVE  PromiseStays
  <2>1. Fails(r) \/ UNCHANGED <<tracker, served>>
    BY <1>4 DEF Ask
  <2> QED BY <1>2, <2>1, FailsPromise DEF PromiseStays
<1>5. ASSUME NEW r \in Requests, EndOfBody(r) \/ HangUp(r)
      PROVE  PromiseStays
  BY <1>2, <1>5 DEF EndOfBody, HangUp
<1>6. ASSUME NEW r \in Requests, NEW y \in Replies, Serve(r, y[1], y[2])
      PROVE  PromiseStays
  BY <1>6, ServePromise DEF PromiseStays
<1>7. ASSUME NEW r \in Requests, NEW y \in Replies, TurnAway(r, y[1], y[2])
      PROVE  PromiseStays
  <2>1. Fails(r) \/ UNCHANGED <<tracker, served>>
    BY <1>7 DEF TurnAway
  <2> QED BY <1>2, <2>1, FailsPromise DEF PromiseStays
<1>8. ASSUME NEW a, (\E u \in Payloads : UsageRead(a, u)) \/ SwitchTo(a) \/ \E n : LookUpPin(n, a) \/ SetRoutePin(n, a) \/ Unpin(n)
      PROVE  PromiseStays
  BY <1>2, <1>8 DEF UsageRead, SwitchTo, LookUpPin, SetRoutePin, Unpin
<1>9. ASSUME NEW c \in Configs, NEW back, Reload(c, back)
      PROVE  PromiseStays
  BY <1>9, ReloadPromise DEF PromiseStays
<1>10. ASSUME Tick
       PROVE  PromiseStays
  BY <1>2, <1>10 DEF Tick
<1>11. ASSUME UNCHANGED vars
       PROVE  PromiseStays
  BY <1>2, <1>11 DEF vars
<1>12. ASSUME Next
       PROVE  PromiseStays
  BY <1>3, <1>4, <1>5, <1>6, <1>7, <1>8, <1>9, <1>10, <1>12 DEF Next
<1>13. PromiseStays
  BY <1>11, <1>12
<1> QED BY <1>1, <1>13 DEF Promised, PromiseStays

\* The account that served the session, when it may stay there.
Settled(r, p) ==
  LET q == req[r].kind  F == Expired  V == Available(F, q, req[r].tried)
  IN /\ Free(q) /\ q.session # NoSession
     /\ WeeklyKeyFor(q.model) = WeeklyBucketFor(q.model)
     /\ MayStay(F, V, p, q)

LEMMA SettledStays ==
  ASSUME Promised, [Next]_vars, NEW r \in Requests, Chose(r),
         NEW p, p = served[req[r].kind.session][WeeklyBucketFor(req[r].kind.model)], Settled(r, p)
  PROVE  req'[r].at = p
<1> DEFINE q == req[r].kind
           tried == req[r].tried
           A == Available(Expired, q, tried)
           w == WeeklyBucketFor(q.model)
<1>1. Ready /\ IsFleet(Expired) /\ Members \subseteq Accounts /\ IsModel(q.model)
  BY TypedIsReady, ExpiredIs, KindIs DEF Promised
<1>2. /\ Free(q) /\ q.session # NoSession /\ WeeklyKeyFor(q.model) = w
      /\ p \in A /\ (\A b \in A : Prio(p) <= Prio(b)) /\ ~RolledOver(Expired, p, q.model)
      /\ cfg.soonest => \A b \in A : ~LexLess(Bands(Expired, A, b, q.model), Bands(Expired, A, p, q.model))
  BY DEF Settled, MayStay
<1>3. A \subseteq Members /\ p \in Members /\ p # NoAccount
  BY <1>1, <1>2, AvailableIs, RequestsAssumption
<1>4. Seats(q) = {p}
  <2>1. w \in Weekly /\ q.session \in Sessions
    BY <1>1, <1>2, BucketsAreWeekly, KindIs DEF Promised
  <2>2. q.session \in DOMAIN tracker.known /\ tracker.known[q.session].pins[w] = p
    BY <1>3, <2>1 DEF Promised, PromiseOf
  <2>3. SS!PinnedAccount(tracker, q.session, WeeklyKeyFor(q.model)) = p
    BY <1>2, <2>2 DEF SS!PinnedAccount, SS!Tracked
  <2> QED BY <1>2, <1>3, <2>3 DEF Seats
<1>5. ~Better(Expired, p, q, tried)
  <2> SUFFICES ASSUME NEW best, best = Best(Expired, q, tried), best # NoAccount,
                      Prio(best) < Prio(p) \/ Preempts(Expired, best, p, q, tried)
               PROVE  FALSE
    BY DEF Better
  <2>1. Good(Expired, A, best, q.model)
    BY <1>1, BestIsGood
  <2>2. best \in A
    BY <2>1 DEF Good
  <2>3. Prio(p) <= Prio(best) /\ Prio(p) \in Int /\ Prio(best) \in Int
    BY <1>1, <1>2, <1>3, <2>2, MembersHavePlaces DEF Prio
  <2>4. ~Preempts(Expired, best, p, q, tried)
    BY <1>2, <2>2 DEF Preempts
  <2> QED BY <2>3, <2>4
<1>6. Stays(Expired, p, q, tried)
  <2>1. p \in Members /\ p \notin tried /\ Reason(Expired, p, q) = "none"
    BY <1>2 DEF Available
  <2> QED BY <1>2, <1>5, <2>1 DEF Stays, Serves
<1>7. PICK seat, out : AskedFor(r, seat, out) /\ req'[r].at = out.at
  BY Chosen DEF Promised
<1>8. seat \in IF Seats(q) = {} THEN {NoAccount} ELSE Seats(q)
  BY <1>7 DEF AskedFor
<1>9. seat = p
  BY <1>4, <1>8
<1>10. Free(q) /\ seat # NoAccount /\ Stays(Expired, seat, q, tried) => out.at = seat
  BY <1>7 DEF AskedFor
<1> HIDE DEF q, tried
<1> QED BY <1>2, <1>3, <1>6, <1>7, <1>9, <1>10

\* A session stays on the account that last served it for the bucket, for any
\* pool, settings, cap of sessions and traffic: sweeps, evictions, reloads,
\* the answers to other requests and the moves of the cursor between two of
\* its requests do not move it, while the account can serve, none of a better
\* priority can, none from an earlier band under soonest-reset routing, and its
\* weekly window has not rolled over (session.rs:60-125, manager.rs:1938-1965).
\* Models whose route meters them in a bucket of its own are left out: the code
\* does not find their sessions' seats (manager.rs:1273, 1864).
THEOREM SessionsStay == Spec => SessionStays
<1> DEFINE Stays1(r) ==
             LET q == req[r].kind  p == served[q.session][WeeklyBucketFor(q.model)]
             IN (/\ Chose(r) /\ Free(q) /\ q.session # NoSession
                 /\ WeeklyKeyFor(q.model) = WeeklyBucketFor(q.model)
                 /\ MayStay(Expired, Available(Expired, q, req[r].tried), p, q))
                => req'[r].at = p
<1>1. Init => Promised
  BY InitPromised
<1>2. Promised /\ [Next]_vars => Promised'
  BY StepPromised
<1>3. ASSUME Promised, [Next]_vars, NEW r \in Requests
      PROVE  Stays1(r)
  <2> DEFINE p == served[req[r].kind.session][WeeklyBucketFor(req[r].kind.model)]
  <2>1. Stays1(r) <=> (Chose(r) /\ Settled(r, p) => req'[r].at = p)
    BY DEF Settled
  <2> HIDE DEF p, Stays1
  <2>2. ASSUME Chose(r), Settled(r, p) PROVE req'[r].at = p
    BY <1>3, <2>2, SettledStays DEF p
  <2> QED BY <2>1, <2>2
<1>4. Promised /\ [Next]_vars => [\A r \in Requests : Stays1(r)]_vars
  <2> HIDE DEF Stays1
  <2> QED BY <1>3
<1> QED BY <1>1, <1>2, <1>4, PTL DEF Spec, SessionStays
============================================================================
