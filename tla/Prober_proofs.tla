--------------------------- MODULE Prober_proofs ---------------------------
(* Proofs about Prober for any pools, accounts, intervals and bounds: that   *)
(* its runs take turns, that a back-off is kept, that nobody is forgotten    *)
(* and that new credentials are probed.                                      *)
EXTENDS Prober, Integers, FiniteSetTheorems, SequenceTheorems, TLAPS

-----------------------------------------------------------------------------
\* Lemmas on the operators.

LEMMA LargerOfTwo ==
  ASSUME NEW m \in Nat, NEW n \in Nat
  PROVE  Max({m, n}) = IF m >= n THEN m ELSE n
<1> DEFINE M == IF m >= n THEN m ELSE n
<1>1. M \in {m, n} /\ \A y \in {m, n} : M >= y
  OBVIOUS
<1>2. \A x \in {m, n} : (\A y \in {m, n} : x >= y) => x = M
  OBVIOUS
<1> HIDE DEF M
<1>3. Max({m, n}) = M
  BY <1>1, <1>2 DEF Max
<1> QED BY <1>3 DEF M

LEMMA SmallerOfTwo ==
  ASSUME NEW m \in Nat, NEW n \in Nat
  PROVE  Min({m, n}) = IF m <= n THEN m ELSE n
<1> DEFINE M == IF m <= n THEN m ELSE n
<1>1. M \in {m, n} /\ \A y \in {m, n} : M <= y
  OBVIOUS
<1>2. \A x \in {m, n} : (\A y \in {m, n} : x <= y) => x = M
  OBVIOUS
<1> HIDE DEF M
<1>3. Min({m, n}) = M
  BY <1>1, <1>2 DEF Min
<1> QED BY <1>3 DEF M

LEMMA FloorType ==
  ASSUME NEW s \in Nat
  PROVE  Floor(s) \in Nat /\ Floor(s) > 0
BY LargerOfTwo, BoundsAssumption DEF Floor

\* A back-off ends later than now, and not much later.
LEMMA HeldOffType ==
  ASSUME NEW s \in Nat, now \in Nat
  PROVE  HeldOff(s) \in Nat /\ now < HeldOff(s) /\ HeldOff(s) <= now + MaxBackoff
<1>1. 2 * Floor(s) \in Nat /\ 2 * Floor(s) > 0 /\ MaxBackoff \in Nat \ {0}
  BY FloorType, BoundsAssumption
<1> QED BY <1>1, SmallerOfTwo DEF HeldOff

\* A queue in which nobody waits twice stays one when somebody who does not
\* wait joins it, and when its head leaves.
LEMMA JoinQueue ==
  ASSUME NEW S, NEW s \in Seq(S), NEW w \in S, IsInjective(s), w \notin Range(s)
  PROVE  /\ Append(s, w) \in Seq(S) /\ IsInjective(Append(s, w))
         /\ Range(Append(s, w)) = Range(s) \cup {w}
<1> DEFINE t == Append(s, w)
<1>1. /\ Len(s) \in Nat /\ DOMAIN s = 1..Len(s)
      /\ t \in Seq(S) /\ Len(t) = Len(s) + 1 /\ DOMAIN t = 1..(Len(s) + 1)
      /\ \A i \in 1..Len(s) : t[i] = s[i] /\ t[Len(s) + 1] = w
  BY LenProperties, AppendProperties
<1>2. t[Len(s) + 1] = w
  BY AppendProperties
<1> HIDE DEF t
<1>3. IsInjective(t)
  BY <1>1, <1>2 DEF IsInjective, Range
<1>4. Range(t) = Range(s) \cup {w}
  BY <1>1, <1>2 DEF Range
<1> QED BY <1>1, <1>3, <1>4 DEF t

LEMMA LeaveQueue ==
  ASSUME NEW S, NEW s \in Seq(S), IsInjective(s), s # <<>>
  PROVE  /\ Tail(s) \in Seq(S) /\ IsInjective(Tail(s)) /\ Head(s) \in Range(s)
         /\ Range(Tail(s)) = Range(s) \ {Head(s)}
<1> DEFINE t == Tail(s)
           n == Len(t)
<1>1. /\ t \in Seq(S) /\ Len(s) = n + 1 /\ DOMAIN t = 1..n /\ DOMAIN s = 1..(n + 1) /\ n \in Nat
      /\ \A i \in 1..n : t[i] = s[i + 1]
  BY LenProperties, HeadTailProperties, EmptySeq
<1>2. Head(s) = s[1]
  BY <1>1
<1> HIDE DEF t, n
<1>3. IsInjective(t)
  <2>1. ASSUME NEW i \in 1..n, NEW j \in 1..n, t[i] = t[j] PROVE i = j
    <3>1. i + 1 \in 1..(n + 1) /\ j + 1 \in 1..(n + 1) /\ s[i + 1] = s[j + 1]
      BY <1>1, <2>1
    <3>2. i + 1 = j + 1
      BY <1>1, <3>1 DEF IsInjective
    <3> QED BY <3>2
  <2> QED BY <1>1, <2>1 DEF IsInjective
<1>4. Range(t) = Range(s) \ {Head(s)}
  <2>1. ASSUME NEW i \in 1..n PROVE t[i] \in Range(s) \ {Head(s)}
    <3>1. i + 1 \in 1..(n + 1) /\ i + 1 # 1 /\ 1 \in 1..(n + 1) /\ t[i] = s[i + 1]
      BY <1>1
    <3>2. s[i + 1] # s[1]
      BY <1>1, <3>1 DEF IsInjective
    <3> QED BY <1>1, <1>2, <3>1, <3>2 DEF Range
  <2>2. ASSUME NEW x \in Range(s), x # Head(s) PROVE x \in Range(t)
    <3>1. PICK i \in 1..(n + 1) : x = s[i]
      BY <1>1 DEF Range
    <3>2. i - 1 \in 1..n /\ t[i - 1] = x
      BY <1>1, <1>2, <2>2, <3>1
    <3> QED BY <1>1, <3>2 DEF Range
  <2> QED BY <1>1, <2>1, <2>2 DEF Range
<1>5. Head(s) \in Range(s)
  BY <1>1, <1>2 DEF Range
<1> QED BY <1>1, <1>3, <1>4, <1>5 DEF t

LEMMA ListFinite ==
  ASSUME NEW p \in Names
  PROVE  IsFiniteSet(Range(Listed[p]))
<1> DEFINE l == Listed[p]
<1>1. l \in Seq(Range(l))
  BY PoolsAssumption
<1>2. Len(l) \in Nat /\ DOMAIN l = 1..Len(l) /\ l \in [1..Len(l) -> Range(l)]
  BY <1>1, LenProperties
<1>3. l \in Surjection(1..Len(l), Range(l))
  BY <1>2 DEF Surjection, Range
<1>4. IsFiniteSet(1..Len(l))
  BY <1>2, FS_Interval
<1> QED BY <1>3, <1>4, FS_Surjection

LEMMA PoolsGiven ==
  /\ Len(Pools) \in Nat \ {0} /\ DOMAIN Pools = 1..Len(Pools)
  /\ \A k \in 1..Len(Pools) : Pools[k] \in Names
  /\ \A p \in Names : p # NoPool /\ \E k \in 1..Len(Pools) : Pools[k] = p
<1>1. Len(Pools) \in Nat \ {0} /\ DOMAIN Pools = 1..Len(Pools)
  BY PoolsAssumption, LenProperties, EmptySeq
<1>2. \A k \in 1..Len(Pools) : Pools[k] \in Names
  BY PoolsAssumption, ElementOfSeq
<1>3. \A p \in Names : p # NoPool /\ \E k \in 1..Len(Pools) : Pools[k] = p
  BY <1>1, PoolsAssumption DEF Names, Range
<1> QED BY <1>1, <1>2, <1>3

LEMMA ShareBound ==
  ASSUME NEW w \in Nat, NEW c \in Nat, NEW n \in Nat \ {0}, c <= n
  PROVE  (w * c) \div n \in 0..w
<1> DEFINE x == w * c
           q == x \div n
<1>1. x \in Nat /\ x <= w * n
  <2>1. w * n = w * c + w * (n - c) /\ w * (n - c) \in Nat
    OBVIOUS
  <2> QED BY <2>1
<1> HIDE DEF x
<1>2. q \in Nat /\ n * q <= x
  BY <1>1
<1> HIDE DEF q
<1>3. q <= w
  <2>1. SUFFICES ASSUME q >= w + 1 PROVE FALSE
    BY <1>2
  <2>2. n * q >= n * (w + 1)
    <3>1. n * q = n * (w + 1) + n * (q - (w + 1)) /\ n * (q - (w + 1)) \in Nat
      BY <1>2, <2>1
    <3> QED BY <3>1
  <2>3. n * (w + 1) = w * n + n
    OBVIOUS
  <2> QED BY <1>1, <1>2, <2>2, <2>3
<1> QED BY <1>2, <1>3 DEF q, x

-----------------------------------------------------------------------------
\* The schedule.

LEMMA Counted ==
  ASSUME TypeOK, NEW p \in Names, NEW a \in accts[p]
  PROVE  /\ IsFiniteSet(accts[p]) /\ Cardinality(accts[p]) \in Nat \ {0}
         /\ IsFiniteSet(Earlier(p, a)) /\ Cardinality(Earlier(p, a)) \in Nat
         /\ Cardinality(Earlier(p, a)) < Cardinality(accts[p])
<1>1. accts[p] \in SUBSET Range(Listed[p])
  BY DEF TypeOK
<1>2. IsFiniteSet(accts[p])
  BY <1>1, ListFinite, FS_Subset
<1>3. Cardinality(accts[p]) \in Nat /\ Cardinality(accts[p]) # 0
  BY <1>2, FS_CardinalityType, FS_EmptySet
<1>4. Earlier(p, a) \in SUBSET (accts[p] \ {a})
  <2>1. Place(p, a) < Place(p, a) => FALSE
    <3>1. PICK i \in DOMAIN Listed[p] : Listed[p][i] = a
      BY <1>1 DEF Range
    <3>2. DOMAIN Listed[p] \subseteq Nat
      BY PoolsAssumption, LenProperties
    <3>3. Place(p, a) \in DOMAIN Listed[p]
      BY <3>1 DEF Place
    <3> QED BY <3>2, <3>3
  <2> QED BY <2>1 DEF Earlier
<1>5. IsFiniteSet(accts[p] \ {a}) /\ Cardinality(accts[p] \ {a}) = Cardinality(accts[p]) - 1
  BY <1>2, FS_RemoveElement
<1>6. IsFiniteSet(Earlier(p, a)) /\ Cardinality(Earlier(p, a)) <= Cardinality(accts[p] \ {a})
  BY <1>4, <1>5, FS_Subset
<1>7. Cardinality(Earlier(p, a)) \in Nat
  BY <1>6, FS_CardinalityType
<1> QED BY <1>2, <1>3, <1>5, <1>6, <1>7

\* A turn is booked for later, and not more than two intervals away.
LEMMA BookedLater ==
  ASSUME TypeOK, NEW p \in Names, NEW a \in accts[p], NEW again, DueNow(p, a, again)
  PROVE  /\ Floor(secs[p]) \in Nat
         /\ Booked(p, a, again) \in Nat /\ now < Booked(p, a, again)
         /\ Booked(p, a, again) <= now + 2 * Floor(secs[p])
<1> DEFINE wait == Floor(secs[p])
           b == (wait * Cardinality(Earlier(p, a))) \div Cardinality(accts[p])
<1>1. now \in Nat /\ wait \in Nat /\ wait > 0
  BY FloorType, SettingsAssumption, BoundsAssumption DEF TypeOK
<1>2. b \in 0..wait
  BY <1>1, Counted, ShareBound
<1>3. SpreadOut(p, a) = now + wait + b
  BY DEF SpreadOut
<1>4. a \in Standing(p, again) => seen[p].due[a] \in Nat /\ seen[p].due[a] <= now
  BY DEF Standing, TypeOK, OfSome, DueNow
<1> HIDE DEF wait, b
<1>5. Booked(p, a, again) = IF a \in Standing(p, again)
                            THEN IF seen[p].due[a] + wait > now THEN seen[p].due[a] + wait ELSE now + wait
                            ELSE IF seen[p].on THEN now + wait ELSE SpreadOut(p, a)
  BY DEF Booked, wait
<1>6. Booked(p, a, again) \in Nat /\ now < Booked(p, a, again) /\ Booked(p, a, again) <= now + 2 * wait
  <2>1. CASE a \in Standing(p, again)
    BY <1>1, <1>4, <1>5, <2>1
  <2>2. CASE a \notin Standing(p, again)
    BY <1>1, <1>2, <1>3, <1>5, <2>2
  <2> QED BY <2>1, <2>2
<1> QED BY <1>1, <1>6 DEF wait

LEMMA SeenAfterTyped ==
  ASSUME TypeOK, NEW p \in Names
  PROVE  LET s == SeenAfter(p, recheck[p])
         IN  /\ OfSome(p, s.due, Nat)
             /\ s \in [on : BOOLEAN, notBefore : 0..(MaxNow + MaxBackoff), due : {s.due}]
<1> DEFINE again == recheck[p]
           due == [a \in accts[p] |-> IF DueNow(p, a, again) THEN Booked(p, a, again) ELSE seen[p].due[a]]
<1>1. /\ OfSome(p, seen[p].due, Nat)
      /\ seen[p] \in [on : BOOLEAN, notBefore : 0..(MaxNow + MaxBackoff), due : {seen[p].due}]
      /\ accts[p] \subseteq Range(Listed[p])
  BY DEF TypeOK
<1>2. CASE secs[p] = 0
  <2>1. SeenAfter(p, again) = NotSeen
    BY <1>2 DEF SeenAfter
  <2>2. NotSeen.due = [a \in {} |-> 0] /\ NotSeen.on = FALSE /\ NotSeen.notBefore = 0
    BY DEF NotSeen
  <2>3. 0 \in 0..(MaxNow + MaxBackoff)
    BY BoundsAssumption
  <2>4. OfSome(p, NotSeen.due, Nat)
    BY <2>2 DEF OfSome
  <2>5. NotSeen \in [on : BOOLEAN, notBefore : 0..(MaxNow + MaxBackoff), due : {NotSeen.due}]
    BY <2>3 DEF NotSeen
  <2> QED BY <2>1, <2>4, <2>5
<1>3. CASE secs[p] # 0 /\ BackingOff(p)
  BY <1>1, <1>3 DEF SeenAfter
<1>4. CASE secs[p] # 0 /\ ~BackingOff(p)
  <2>1. \A a \in accts[p] : ~DueNow(p, a, again) => seen[p].due[a] \in Nat
    BY <1>1 DEF DueNow, Standing, OfSome
  <2>2. \A a \in accts[p] : DueNow(p, a, again) => Booked(p, a, again) \in Nat
    BY BookedLater
  <2>3. due \in [accts[p] -> Nat] /\ DOMAIN due = accts[p]
    BY <2>1, <2>2
  <2>4. SeenAfter(p, again) = [on |-> TRUE, notBefore |-> seen[p].notBefore, due |-> due]
    BY <1>4 DEF SeenAfter
  <2> HIDE DEF due
  <2>5. seen[p].notBefore \in 0..(MaxNow + MaxBackoff)
    BY <1>1
  <2> QED BY <1>1, <2>3, <2>4, <2>5 DEF OfSome
<1> QED BY <1>2, <1>3, <1>4

-----------------------------------------------------------------------------
\* Taking turns.  What the loop, the lock, its queue and the run say about each
\* other; TypeOK and Orderly are inductive together.

Orderly ==
  /\ loop.claim = {} => loop.pool < Len(Pools)
  /\ loop.claim # {} => loop.pool # 0 /\ loop.claim \subseteq Range(Listed[Pools[loop.pool]])
  /\ run = NoRun <=> lock = "free"
  /\ run # NoRun => run.by = lock
  /\ lock = "manual" <=> manual.pool # 0
  /\ lock = "loop" => loop.claim # {} /\ run.pool = Pools[loop.pool] /\ DOMAIN run.at = loop.claim
  /\ \A p \in Names : probing[p] <=> run.pool = p
  /\ IsInjective(waiters)
  /\ "loop" \in Range(waiters) <=> loop.claim # {} /\ lock # "loop"
  /\ "manual" \in Range(waiters) => manual.spawned = 0 /\ manual.pool = 0
  /\ manual.spawned <= 1 /\ (manual.pool # 0 => manual.spawned = 0)
  /\ manual.spawned > 0 => lastManual = now

\* What a look of the loop does.
LEMMA LookDoes ==
  ASSUME TypeOK, NEW k \in 1..Len(Pools), Look(k)
  PROVE  LET p == Pools[k]
             picked == Picked(p, recheck[p])
         IN  /\ p \in Names /\ picked \subseteq accts[p]
             /\ recheck'[p] = {} /\ \A q \in Names \ {p} : recheck'[q] = recheck[q]
             /\ DOMAIN recheck' = Names /\ DOMAIN seen' = Names
             /\ seen'[p] = SeenAfter(p, recheck[p]) /\ \A q \in Names \ {p} : seen'[q] = seen[q]
             /\ loop' \in [pool : 0..Len(Pools), claim : SUBSET Accounts, ticked : BOOLEAN]
             /\ loop'.pool = (IF picked = {} /\ k = Len(Pools) THEN 0 ELSE k)
             /\ loop'.claim = picked
             /\ loop'.ticked <=> loop.pool = 0 \/ loop.ticked
             /\ waiters' = (IF picked # {} THEN Append(waiters, "loop") ELSE waiters)
<1> DEFINE p == Pools[k]
           picked == Picked(p, recheck[p])
           r == [pool |-> IF picked = {} /\ k = Len(Pools) THEN 0 ELSE k, claim |-> picked,
                 ticked |-> loop.pool = 0 \/ loop.ticked]
<1>1. p \in Names /\ picked \subseteq accts[p]
  BY PoolsGiven DEF Picked
<1>2. loop' = r
  BY DEF Look
<1>3. accts[p] \in SUBSET Accounts
  BY <1>1 DEF TypeOK
<1>4. /\ recheck'[p] = {} /\ \A q \in Names \ {p} : recheck'[q] = recheck[q]
      /\ DOMAIN recheck' = Names /\ DOMAIN seen' = Names
      /\ seen'[p] = SeenAfter(p, recheck[p]) /\ \A q \in Names \ {p} : seen'[q] = seen[q]
  BY <1>1 DEF Look, TypeOK
<1>5. waiters' = IF picked # {} THEN Append(waiters, "loop") ELSE waiters
  BY DEF Look
<1>6. r.ticked <=> loop.pool = 0 \/ loop.ticked
  OBVIOUS
<1>7. picked \in SUBSET Accounts
  BY <1>1, <1>3
<1>8. k \in 0..Len(Pools) /\ 0 \in 0..Len(Pools)
  BY PoolsGiven
<1> HIDE DEF picked, p
<1>9. r.ticked \in BOOLEAN
  OBVIOUS
<1>10. r \in [pool : 0..Len(Pools), claim : SUBSET Accounts, ticked : BOOLEAN]
  BY <1>7, <1>8, <1>9
<1>11. r.pool = (IF picked = {} /\ k = Len(Pools) THEN 0 ELSE k) /\ r.claim = picked
  OBVIOUS
<1> HIDE DEF r
<1> QED BY <1>1, <1>2, <1>4, <1>5, <1>6, <1>10, <1>11 DEF p, picked

Past == [until : [Names -> Nat], longest : [Names -> Nat], steady : [Names -> BOOLEAN],
         fresh : SUBSET Accounts, missed : SUBSET Accounts, early : BOOLEAN]

\* ... and what is remembered of it.
LEMMA LookRemembers ==
  ASSUME TypeOK, NEW k \in 1..Len(Pools), Look(k)
  PROVE  LET p == Pools[k]
             picked == Picked(p, recheck[p])
         IN  /\ past' \in Past
             /\ past'.missed = past.missed \cup (IF LeftAlone(p) THEN recheck[p] ELSE {})
             /\ past'.fresh = past.fresh
             /\ past'.longest[p] = (IF secs[p] = 0 THEN 0 ELSE Max({past.longest[p], Floor(secs[p])}))
             /\ past'.until[p] = (IF secs[p] = 0 THEN 0 ELSE past.until[p])
             /\ past'.steady[p] = (IF LeftAlone(p) THEN past.steady[p] ELSE KeepsTurns(p, recheck[p]))
             /\ \A q \in Names \ {p} : /\ past'.longest[q] = past.longest[q]
                                       /\ past'.until[q] = past.until[q]
                                       /\ past'.steady[q] = past.steady[q]
             /\ past'.early <=> past.early \/ (picked # {} /\ now < past.until[p])
<1> DEFINE p == Pools[k]
           picked == Picked(p, recheck[p])
           missed == past.missed \cup (IF LeftAlone(p) THEN recheck[p] ELSE {})
           far    == IF secs[p] = 0 THEN 0 ELSE Max({past.longest[p], Floor(secs[p])})
           held   == IF secs[p] = 0 THEN 0 ELSE past.until[p]
           keeps  == IF LeftAlone(p) THEN past.steady[p] ELSE KeepsTurns(p, recheck[p])
           early  == past.early \/ (picked # {} /\ now < past.until[p])
<1>1. p \in Names /\ past \in Past /\ now \in Nat
  <2> HIDE DEF missed, far, held, keeps, early, picked
  <2>1. p \in Names
    BY PoolsGiven
  <2>2. past \in Past
    BY DEF TypeOK, Past
  <2>3. now \in Nat
    BY BoundsAssumption DEF TypeOK
  <2> QED BY <2>1, <2>2, <2>3
<1>2. past' = [past EXCEPT !.missed = missed, !.longest[p] = far, !.steady[p] = keeps,
                           !.until[p] = held, !.early = early]
  BY DEF Look
<1>3. missed \in SUBSET Accounts
  BY <1>1 DEF TypeOK
<1>4. far \in Nat
  <2>1. secs[p] \in Nat /\ past.longest[p] \in Nat
    BY <1>1, SettingsAssumption DEF TypeOK
  <2>2. Max({past.longest[p], Floor(secs[p])}) \in Nat
    BY <2>1, FloorType, LargerOfTwo
  <2> QED BY <2>2
<1>5. held \in Nat
  BY <1>1 DEF TypeOK
<1>6. keeps \in BOOLEAN
  <2>1. past.steady[p] \in BOOLEAN
    BY <1>1 DEF Past
  <2>2. KeepsTurns(p, recheck[p]) \in BOOLEAN
    BY DEF KeepsTurns
  <2> QED BY <2>1, <2>2
<1>7. early \in BOOLEAN /\ (early <=> past.early \/ (picked # {} /\ now < past.until[p]))
  OBVIOUS
<1> HIDE DEF missed, far, held, keeps, early, p, picked
<1>8. /\ past' \in Past
      /\ past'.missed = missed /\ past'.fresh = past.fresh /\ past'.early = early
      /\ past'.longest = [past.longest EXCEPT ![p] = far]
      /\ past'.steady = [past.steady EXCEPT ![p] = keeps]
      /\ past'.until = [past.until EXCEPT ![p] = held]
  BY <1>1, <1>2, <1>3, <1>4, <1>5, <1>6, <1>7 DEF Past
<1>9. /\ past'.longest[p] = far /\ past'.steady[p] = keeps /\ past'.until[p] = held
      /\ \A q \in Names \ {p} : /\ past'.longest[q] = past.longest[q]
                                /\ past'.until[q] = past.until[q]
                                /\ past'.steady[q] = past.steady[q]
  BY <1>1, <1>8 DEF Past
<1>10. past'.early <=> past.early \/ (picked # {} /\ now < past.until[p])
  BY <1>7, <1>8
<1> QED BY <1>8, <1>9, <1>10 DEF missed, far, held, keeps, p, picked

LEMMA LookKeeps ==
  ASSUME TypeOK, Orderly, NEW k \in 1..Len(Pools), Look(k), loop.claim = {}
  PROVE  TypeOK' /\ Orderly'
<1> DEFINE p == Pools[k]
           picked == Picked(p, recheck[p])
<1>1. UNCHANGED <<now, secs, accts, manual, lastManual, lock, run, probing, edits>>
  BY DEF Look
<1>2. /\ p \in Names /\ picked \subseteq accts[p]
      /\ recheck'[p] = {} /\ \A q \in Names \ {p} : recheck'[q] = recheck[q]
      /\ DOMAIN recheck' = Names /\ DOMAIN seen' = Names
      /\ seen'[p] = SeenAfter(p, recheck[p]) /\ \A q \in Names \ {p} : seen'[q] = seen[q]
      /\ loop' \in [pool : 0..Len(Pools), claim : SUBSET Accounts, ticked : BOOLEAN]
      /\ loop'.pool = (IF picked = {} /\ k = Len(Pools) THEN 0 ELSE k)
      /\ loop'.claim = picked
      /\ waiters' = (IF picked # {} THEN Append(waiters, "loop") ELSE waiters)
  BY LookDoes
<1>3. past' \in Past
  BY LookRemembers
<1>4. LET s == SeenAfter(p, recheck[p])
      IN  /\ OfSome(p, s.due, Nat)
          /\ s \in [on : BOOLEAN, notBefore : 0..(MaxNow + MaxBackoff), due : {s.due}]
  BY <1>2, SeenAfterTyped
<1>5. "loop" \notin Range(waiters) /\ lock # "loop" /\ IsInjective(waiters)
  BY DEF Orderly
<1>6. /\ waiters' \in Seq({"loop", "manual"}) /\ IsInjective(waiters')
      /\ Range(waiters') = Range(waiters) \cup (IF picked # {} THEN {"loop"} ELSE {})
  <2>1. waiters \in Seq({"loop", "manual"}) /\ "loop" \in {"loop", "manual"}
    BY DEF TypeOK
  <2>2. CASE picked # {}
    BY <1>2, <1>5, <2>1, <2>2, JoinQueue
  <2>3. CASE picked = {}
    BY <1>2, <1>5, <2>1, <2>3
  <2> QED BY <2>2, <2>3
<1>7. k \in 0..Len(Pools) /\ k # 0 /\ Len(Pools) > 0 /\ k <= Len(Pools)
  BY PoolsGiven
<1> HIDE DEF picked, p
<1>8. TypeOK'
  <2>1. recheck' \in [Names -> SUBSET Accounts]
    <3>1. recheck' = [recheck EXCEPT ![p] = {}]
      BY DEF Look, p
    <3> QED BY <3>1 DEF TypeOK
  <2>2. ASSUME NEW q \in Names
        PROVE  /\ accts'[q] \cup recheck'[q] \subseteq Range(Listed[q])
               /\ OfSome(q, seen'[q].due, Nat)
               /\ seen'[q] \in [on : BOOLEAN, notBefore : 0..(MaxNow + MaxBackoff), due : {seen'[q].due}]
    <3>1. CASE q = p
      <4>1. accts[q] \cup {} \subseteq Range(Listed[q])
        BY DEF TypeOK
      <4> QED BY <1>1, <1>2, <1>4, <3>1, <4>1
    <3>2. CASE q # p
      <4>1. /\ accts[q] \cup recheck[q] \subseteq Range(Listed[q])
            /\ OfSome(q, seen[q].due, Nat)
            /\ seen[q] \in [on : BOOLEAN, notBefore : 0..(MaxNow + MaxBackoff), due : {seen[q].due}]
        BY DEF TypeOK
      <4> QED BY <1>1, <1>2, <3>2, <4>1
    <3> QED BY <3>1, <3>2
  <2>3. DOMAIN seen' = Names
    BY <1>2
  <2> QED BY <1>1, <1>2, <1>3, <1>6, <2>1, <2>2, <2>3 DEF TypeOK, Past, OfSome
<1>9. Orderly'
  <2>1. loop'.claim = {} => loop'.pool < Len(Pools)
    BY <1>2, <1>7
  <2>2. loop'.claim # {} => loop'.pool # 0 /\ loop'.claim \subseteq Range(Listed[Pools[loop'.pool]])
    <3>1. accts[p] \subseteq Range(Listed[p])
      BY <1>2 DEF TypeOK
    <3> QED BY <1>2, <1>7, <3>1 DEF p
  <2> QED BY <1>1, <1>2, <1>5, <1>6, <2>1, <2>2 DEF Orderly
<1> QED BY <1>8, <1>9

\* Who runs, and how far each of its accounts is.
LEMMA RunTyped ==
  ASSUME TypeOK, NEW p \in Names, NEW who \in SUBSET Range(Listed[p]), NEW by \in {"loop", "manual"}
  PROVE  LET r == RunOf(p, who, by)
         IN  /\ r \in [pool : Names, at : {r.at}, secs : Intervals, halted : BOOLEAN,
                       by : {"loop", "manual"}]
             /\ OfSome(p, r.at, Turns) /\ r.pool = p /\ DOMAIN r.at = who /\ r.by = by /\ r # NoRun
             /\ \A a \in who : r.at[a] = "waiting"
<1> DEFINE r == RunOf(p, who, by)
<1>1. /\ r.pool = p /\ r.at = [a \in who |-> "waiting"] /\ r.secs = secs[p]
      /\ r.halted = FALSE /\ r.by = by
  BY DEF RunOf
<1>2. NoRun.by = "free"
  BY DEF NoRun
<1>3. OfSome(p, [a \in who |-> "waiting"], Turns)
  BY DEF OfSome, Turns
<1>4. secs[p] \in Intervals
  BY DEF TypeOK
<1>5. r \in [pool : Names, at : {r.at}, secs : Intervals, halted : BOOLEAN, by : {"loop", "manual"}]
  BY <1>4 DEF RunOf
<1> HIDE DEF r
<1> QED BY <1>1, <1>2, <1>3, <1>5 DEF r

LEMMA NoRunFields == NoRun.pool = NoPool /\ NoRun.by = "free" /\ NoRun.at = [a \in {} |-> "done"]
BY DEF NoRun

LEMMA LoopRunsKeeps ==
  ASSUME TypeOK, Orderly, LoopRuns
  PROVE  TypeOK' /\ Orderly'
<1> DEFINE p == Pools[loop.pool]
           r == RunOf(p, loop.claim, "loop")
<1>1. /\ lock = "free" /\ waiters # <<>> /\ Head(waiters) = "loop" /\ lock' = "loop"
      /\ waiters' = Tail(waiters) /\ run' = r /\ probing' = [probing EXCEPT ![p] = TRUE]
      /\ UNCHANGED <<now, secs, accts, recheck, seen, loop, manual, lastManual, edits, past>>
  BY DEF LoopRuns, RunStarts
<1>2. /\ waiters' \in Seq({"loop", "manual"}) /\ IsInjective(waiters') /\ "loop" \in Range(waiters)
      /\ Range(waiters') = Range(waiters) \ {"loop"}
  BY <1>1, LeaveQueue DEF TypeOK, Orderly
<1>3. loop.claim # {} /\ loop.pool # 0 /\ loop.claim \subseteq Range(Listed[p])
  BY <1>2 DEF Orderly
<1>4. p \in Names
  BY <1>3, PoolsGiven DEF TypeOK
<1>5. /\ r \in [pool : Names, at : {r.at}, secs : Intervals, halted : BOOLEAN, by : {"loop", "manual"}]
      /\ OfSome(p, r.at, Turns) /\ r.pool = p /\ DOMAIN r.at = loop.claim /\ r.by = "loop" /\ r # NoRun
  BY <1>3, <1>4, RunTyped
<1>6. run = NoRun /\ \A q \in Names : ~probing[q]
  <2>1. run = NoRun
    BY <1>1 DEF Orderly
  <2> QED BY <2>1, NoRunFields, PoolsGiven DEF Orderly
<1>7. probing' \in [Names -> BOOLEAN] /\ \A q \in Names : probing'[q] <=> q = p
  BY <1>1, <1>4, <1>6 DEF TypeOK
<1>8. p' = p
  BY <1>1
<1> HIDE DEF r, p
<1>9. TypeOK'
  BY <1>1, <1>2, <1>5, <1>7 DEF TypeOK, OfSome, BackingOff
<1>10. Orderly'
  BY <1>1, <1>2, <1>3, <1>5, <1>7 DEF Orderly, p
<1> QED BY <1>9, <1>10

LEMMA ManualRunsKeeps ==
  ASSUME TypeOK, Orderly, ManualRuns
  PROVE  TypeOK' /\ Orderly'
<1> DEFINE p == Pools[1]
           r == RunOf(p, accts[p], "manual")
<1>1. /\ lock = "free" /\ waiters # <<>> /\ Head(waiters) = "manual" /\ lock' = "manual"
      /\ waiters' = Tail(waiters) /\ run' = r /\ probing' = [probing EXCEPT ![p] = TRUE]
      /\ manual' = [manual EXCEPT !.pool = 1]
      /\ UNCHANGED <<now, secs, accts, recheck, seen, loop, lastManual, edits, past>>
  BY DEF ManualRuns, RunStarts
<1>2. /\ waiters' \in Seq({"loop", "manual"}) /\ IsInjective(waiters') /\ "manual" \in Range(waiters)
      /\ Range(waiters') = Range(waiters) \ {"manual"}
  BY <1>1, LeaveQueue DEF TypeOK, Orderly
<1>3. manual.spawned = 0 /\ manual.pool = 0
  BY <1>2 DEF Orderly
<1>a. 1 \in 1..Len(Pools) /\ 1 \in 0..Len(Pools)
  BY PoolsGiven
<1>4. /\ manual' \in [spawned : Nat, pool : 0..Len(Pools)] /\ manual'.spawned = 0 /\ manual'.pool = 1
  BY <1>1, <1>3, <1>a DEF TypeOK
<1>5. p \in Names /\ accts[p] \in SUBSET Range(Listed[p])
  BY <1>a, PoolsGiven DEF TypeOK
<1>6. /\ r \in [pool : Names, at : {r.at}, secs : Intervals, halted : BOOLEAN, by : {"loop", "manual"}]
      /\ OfSome(p, r.at, Turns) /\ r.pool = p /\ r.by = "manual" /\ r # NoRun
  BY <1>5, RunTyped
<1>7. run = NoRun /\ \A q \in Names : ~probing[q]
  <2>1. run = NoRun
    BY <1>1 DEF Orderly
  <2> QED BY <2>1, NoRunFields, PoolsGiven DEF Orderly
<1>8. probing' \in [Names -> BOOLEAN] /\ \A q \in Names : probing'[q] <=> q = p
  BY <1>1, <1>5, <1>7 DEF TypeOK
<1> HIDE DEF r, p
<1>9. TypeOK'
  BY <1>1, <1>2, <1>4, <1>6, <1>8 DEF TypeOK, OfSome
<1>10. Orderly'
  BY <1>1, <1>2, <1>3, <1>4, <1>6, <1>8 DEF Orderly
<1> QED BY <1>9, <1>10

\* One account of a run moves on.
LEMMA AccountMoves ==
  ASSUME TypeOK, Orderly, run # NoRun, NEW a \in DOMAIN run.at, NEW v \in Turns, NEW h \in BOOLEAN,
         run' = [run EXCEPT !.at[a] = v, !.halted = h]
  PROVE  /\ run' \in [pool : Names, at : {run'.at}, secs : Intervals, halted : BOOLEAN,
                      by : {"loop", "manual"}]
         /\ OfSome(run'.pool, run'.at, Turns) /\ run' # NoRun
         /\ run'.pool = run.pool /\ run'.by = run.by /\ run'.secs = run.secs /\ run'.halted = h
         /\ DOMAIN run'.at = DOMAIN run.at
         /\ run'.at[a] = v /\ \A b \in DOMAIN run.at \ {a} : run'.at[b] = run.at[b]
<1>1. /\ run \in [pool : Names, at : {run.at}, secs : Intervals, halted : BOOLEAN,
                  by : {"loop", "manual"}]
      /\ DOMAIN run.at \subseteq Range(Listed[run.pool]) /\ run.at \in [DOMAIN run.at -> Turns]
  BY DEF TypeOK, OfSome
<1>2. /\ run'.pool = run.pool /\ run'.by = run.by /\ run'.secs = run.secs /\ run'.halted = h
      /\ run'.at = [run.at EXCEPT ![a] = v]
      /\ run' \in [pool : Names, at : {run'.at}, secs : Intervals, halted : BOOLEAN,
                   by : {"loop", "manual"}]
  BY <1>1
<1>3. run'.at \in [DOMAIN run.at -> Turns] /\ DOMAIN run'.at = DOMAIN run.at
  BY <1>1, <1>2
<1>4. run'.at[a] = v /\ \A b \in DOMAIN run.at \ {a} : run'.at[b] = run.at[b]
  BY <1>1, <1>2
<1>5. run' # NoRun
  BY <1>1, <1>2, NoRunFields
<1> QED BY <1>1, <1>2, <1>3, <1>4, <1>5 DEF OfSome

\* A step of an account in the run keeps to the order.
LEMMA AccountKeeps ==
  ASSUME TypeOK, Orderly, run # NoRun, NEW a \in DOMAIN run.at, NEW v \in Turns, NEW h \in BOOLEAN,
         run' = [run EXCEPT !.at[a] = v, !.halted = h], past' \in Past,
         UNCHANGED <<now, secs, accts, recheck, seen, loop, manual, lastManual, lock, waiters, probing, edits>>
  PROVE  TypeOK' /\ Orderly'
<1>1. /\ run' \in [pool : Names, at : {run'.at}, secs : Intervals, halted : BOOLEAN,
                   by : {"loop", "manual"}]
      /\ OfSome(run'.pool, run'.at, Turns) /\ run' # NoRun
      /\ run'.pool = run.pool /\ run'.by = run.by /\ DOMAIN run'.at = DOMAIN run.at
  BY AccountMoves
<1>2. TypeOK'
  BY <1>1 DEF TypeOK, OfSome, Past
<1>3. Orderly'
  BY <1>1 DEF Orderly
<1> QED BY <1>2, <1>3

\* What the start of a probe does.
LEMMA StartDoes ==
  ASSUME TypeOK, NEW a \in Accounts, StartProbe(a)
  PROVE  /\ run # NoRun /\ a \in DOMAIN run.at /\ run.at[a] = "waiting"
         /\ \E v \in {"done", "asked"} :
              /\ run' = [run EXCEPT !.at[a] = v, !.halted = run.halted]
              /\ past' \in Past
              /\ past'.fresh = (IF v = "done" THEN past.fresh ELSE past.fresh \ {a})
              /\ past'.missed = (IF v = "done" THEN past.missed \cup ({a} \cap past.fresh)
                                               ELSE past.missed \ {a})
              /\ UNCHANGED <<past.until, past.longest, past.steady, past.early>>
         /\ UNCHANGED <<now, secs, accts, recheck, seen, loop, manual, lastManual, lock, waiters, probing, edits>>
<1>1. /\ run # NoRun /\ a \in DOMAIN run.at /\ run.at[a] = "waiting"
      /\ UNCHANGED <<now, secs, accts, recheck, seen, loop, manual, lastManual, lock, waiters, probing, edits>>
  BY DEF StartProbe
<1> DEFINE v == IF run.halted \/ a \notin accts[run.pool] THEN "done" ELSE "asked"
<1>2. run' = [run EXCEPT !.at[a] = v]
  BY DEF StartProbe
<1>3. v \in {"done", "asked"}
  OBVIOUS
<1> HIDE DEF v
<1>4. /\ run \in [pool : Names, at : {run.at}, secs : Intervals, halted : BOOLEAN,
                  by : {"loop", "manual"}]
      /\ run.at \in [DOMAIN run.at -> Turns]
  BY <1>1 DEF TypeOK, OfSome
<1>5. run' = [run EXCEPT !.at[a] = v, !.halted = run.halted] /\ run'.at[a] = v
  BY <1>1, <1>2, <1>4
<1>6. past' = IF v = "done" THEN [past EXCEPT !.missed = past.missed \cup ({a} \cap past.fresh)]
              ELSE [past EXCEPT !.fresh = past.fresh \ {a}, !.missed = past.missed \ {a}]
  BY <1>5 DEF StartProbe
<1>7. past \in Past
  BY DEF TypeOK, Past
<1>8. /\ past' \in Past
      /\ past'.fresh = (IF v = "done" THEN past.fresh ELSE past.fresh \ {a})
      /\ past'.missed = (IF v = "done" THEN past.missed \cup ({a} \cap past.fresh)
                                       ELSE past.missed \ {a})
      /\ UNCHANGED <<past.until, past.longest, past.steady, past.early>>
  <2>1. CASE v = "done"
    BY <1>6, <1>7, <2>1 DEF Past
  <2>2. CASE v # "done"
    BY <1>6, <1>7, <2>2 DEF Past
  <2> QED BY <2>1, <2>2
<1> QED BY <1>1, <1>3, <1>5, <1>8

LEMMA StartKeeps ==
  ASSUME TypeOK, Orderly, NEW a \in Accounts, StartProbe(a)
  PROVE  TypeOK' /\ Orderly'
<1>1. PICK v \in {"done", "asked"} :
           run' = [run EXCEPT !.at[a] = v, !.halted = run.halted] /\ past' \in Past
  BY StartDoes
<1>2. /\ run # NoRun /\ a \in DOMAIN run.at /\ v \in Turns /\ run.halted \in BOOLEAN
      /\ UNCHANGED <<now, secs, accts, recheck, seen, loop, manual, lastManual, lock, waiters, probing, edits>>
  BY StartDoes DEF Turns, TypeOK
<1> QED BY <1>1, <1>2, AccountKeeps

LEMMA AnswerKeeps ==
  ASSUME TypeOK, Orderly, NEW a \in Accounts, Answer(a)
  PROVE  TypeOK' /\ Orderly'
<1>1. /\ run # NoRun /\ a \in DOMAIN run.at
      /\ UNCHANGED <<now, secs, accts, recheck, seen, loop, manual, lastManual, lock, waiters, probing, edits, past>>
  BY DEF Answer
<1>2. PICK limited \in BOOLEAN : run' = [run EXCEPT !.at[a] = "done", !.halted = run.halted \/ limited]
  BY DEF Answer
<1>3. (run.halted \/ limited) \in BOOLEAN /\ "done" \in Turns /\ past' \in Past
  BY <1>1 DEF Turns, TypeOK, Past
<1> DEFINE h == run.halted \/ limited
<1>4. h \in BOOLEAN /\ run' = [run EXCEPT !.at[a] = "done", !.halted = h]
  BY <1>2, <1>3
<1> HIDE DEF h
<1> QED BY <1>1, <1>3, <1>4, AccountKeeps

\* What the end of a run does to the schedule.
LEMMA EndDoes ==
  ASSUME TypeOK, Orderly, RunEnds
  PROVE  /\ run # NoRun /\ run.pool \in Names /\ \A a \in DOMAIN run.at : run.at[a] = "done"
         /\ DOMAIN seen' = Names
         /\ \A q \in Names \ {run.pool} : seen'[q] = seen[q] /\ past'.until[q] = past.until[q]
         /\ seen'[run.pool].on = seen[run.pool].on /\ seen'[run.pool].due = seen[run.pool].due
         /\ \/ seen'[run.pool] = seen[run.pool] /\ past'.until[run.pool] = past.until[run.pool]
            \/ /\ now < seen'[run.pool].notBefore
               /\ past'.until[run.pool] = seen'[run.pool].notBefore
         /\ \A q \in Names : seen'[q] \in [on : BOOLEAN, notBefore : 0..(MaxNow + MaxBackoff),
                                           due : {seen'[q].due}]
         /\ past' \in Past
         /\ UNCHANGED <<past.longest, past.steady, past.fresh, past.missed, past.early>>
         /\ UNCHANGED <<now, secs, accts, recheck, lastManual, waiters, edits>>
<1> DEFINE p == run.pool
           backs == run.halted /\ run.secs > 0
           t == HeldOff(run.secs)
<1>1. run # NoRun /\ \A a \in DOMAIN run.at : run.at[a] = "done"
  BY DEF RunEnds
<1>2. p \in Names /\ run.secs \in Nat
  BY <1>1, SettingsAssumption DEF TypeOK
<1>3. /\ seen' = IF backs THEN [seen EXCEPT ![p].notBefore = t] ELSE seen
      /\ past' = IF backs THEN [past EXCEPT !.until[p] = t] ELSE past
      /\ UNCHANGED <<now, secs, accts, recheck, lastManual, waiters, edits>>
  BY DEF RunEnds
<1>4. now \in Nat /\ MaxNow \in Nat /\ MaxBackoff \in Nat /\ now <= MaxNow
  BY BoundsAssumption DEF TypeOK
<1>5. t \in Nat /\ now < t /\ t \in 0..(MaxNow + MaxBackoff)
  BY <1>2, <1>4, HeldOffType
<1>6. /\ DOMAIN seen = Names /\ past \in Past
      /\ \A q \in Names : seen[q] \in [on : BOOLEAN, notBefore : 0..(MaxNow + MaxBackoff), due : {seen[q].due}]
  BY DEF TypeOK, Past
<1> HIDE DEF t, p
<1>7. CASE ~backs
  BY <1>1, <1>2, <1>3, <1>6, <1>7 DEF p
<1>8. CASE backs
  <2> DEFINE s == [seen[p] EXCEPT !.notBefore = t]
  <2>1. seen' = [seen EXCEPT ![p] = s] /\ past' = [past EXCEPT !.until[p] = t]
    BY <1>3, <1>8
  <2>2. /\ s.on = seen[p].on /\ s.due = seen[p].due /\ s.notBefore = t
        /\ s \in [on : BOOLEAN, notBefore : 0..(MaxNow + MaxBackoff), due : {s.due}]
    BY <1>2, <1>5, <1>6
  <2> HIDE DEF s
  <2>3. DOMAIN seen' = Names /\ seen'[p] = s /\ \A q \in Names \ {p} : seen'[q] = seen[q]
    BY <1>2, <1>6, <2>1
  <2>4. /\ past' \in Past /\ past'.until[p] = t
        /\ \A q \in Names \ {p} : past'.until[q] = past.until[q]
        /\ UNCHANGED <<past.longest, past.steady, past.fresh, past.missed, past.early>>
    BY <1>2, <1>5, <1>6, <2>1 DEF Past
  <2>5. \A q \in Names : seen'[q] \in [on : BOOLEAN, notBefore : 0..(MaxNow + MaxBackoff), due : {seen'[q].due}]
    BY <1>6, <2>2, <2>3
  <2> QED BY <1>1, <1>2, <1>3, <1>5, <2>2, <2>3, <2>4, <2>5 DEF p
<1> QED BY <1>7, <1>8

\* ... and to the loop, the lock and the status view.
LEMMA EndKeeps ==
  ASSUME TypeOK, Orderly, RunEnds
  PROVE  TypeOK' /\ Orderly'
<1> DEFINE p == run.pool
           more == run.by = "manual" /\ manual.pool < Len(Pools)
           q == Pools[manual.pool + 1]
           r == RunOf(q, accts[q], "manual")
           ended == [probing EXCEPT ![p] = FALSE]
<1>1. /\ run # NoRun /\ p \in Names /\ DOMAIN seen' = Names
      /\ \A n \in Names : seen'[n] \in [on : BOOLEAN, notBefore : 0..(MaxNow + MaxBackoff), due : {seen'[n].due}]
      /\ \A n \in Names : seen'[n].due = seen[n].due
      /\ past' \in Past /\ UNCHANGED <<now, secs, accts, recheck, lastManual, waiters, edits>>
  BY EndDoes
<1>2. \A n \in Names : /\ accts'[n] \cup recheck'[n] \subseteq Range(Listed[n])
                       /\ OfSome(n, seen'[n].due, Nat)
  BY <1>1 DEF TypeOK
<1>3. ended \in [Names -> BOOLEAN] /\ \A n \in Names : ~ended[n]
  BY <1>1 DEF TypeOK, Orderly
<1>4. run.by = lock /\ lock \in {"loop", "manual"}
  BY <1>1 DEF Orderly, TypeOK
<1>5. CASE more
  <2>1. /\ run' = r /\ probing' = [ended EXCEPT ![q] = TRUE]
        /\ manual' = [manual EXCEPT !.pool = manual.pool + 1] /\ UNCHANGED <<lock, loop>>
    BY <1>5 DEF RunEnds
  <2>2. manual.pool + 1 \in 1..Len(Pools) /\ manual.pool + 1 \in 0..Len(Pools) /\ manual.pool \in Nat
    BY <1>5, PoolsGiven DEF TypeOK
  <2>3. q \in Names /\ accts[q] \in SUBSET Range(Listed[q])
    BY <2>2, PoolsGiven DEF TypeOK
  <2>4. /\ r \in [pool : Names, at : {r.at}, secs : Intervals, halted : BOOLEAN, by : {"loop", "manual"}]
        /\ OfSome(q, r.at, Turns) /\ r.pool = q /\ r.by = "manual" /\ r # NoRun
    BY <2>3, RunTyped
  <2>5. probing' \in [Names -> BOOLEAN] /\ \A n \in Names : probing'[n] <=> n = q
    BY <1>3, <2>1, <2>3
  <2>6. /\ manual' \in [spawned : Nat, pool : 0..Len(Pools)]
        /\ manual'.spawned = manual.spawned /\ manual'.pool = manual.pool + 1 /\ manual'.pool # 0
    <3>1. manual \in [spawned : Nat, pool : 0..Len(Pools)]
      BY DEF TypeOK
    <3>2. /\ manual' \in [spawned : Nat, pool : 0..Len(Pools)]
          /\ manual'.spawned = manual.spawned /\ manual'.pool = manual.pool + 1
      BY <2>1, <2>2, <3>1
    <3> QED BY <2>2, <3>2
  <2>7. lock = "manual" /\ manual.pool # 0
    BY <1>4, <1>5 DEF Orderly
  <2> HIDE DEF r, q, p
  <2>8. TypeOK'
    BY <1>1, <1>2, <2>1, <2>4, <2>5, <2>6 DEF TypeOK, Past, OfSome
  <2>9. Orderly'
    BY <1>1, <2>1, <2>4, <2>5, <2>6, <2>7 DEF Orderly
  <2> QED BY <2>8, <2>9
<1>6. CASE ~more
  <2>1. /\ run' = NoRun /\ probing' = ended /\ lock' = "free"
        /\ manual' = IF run.by = "manual" THEN [manual EXCEPT !.pool = 0] ELSE manual
        /\ loop' = IF run.by = "manual" THEN loop
                   ELSE [loop EXCEPT !.pool = IF loop.pool = Len(Pools) THEN 0 ELSE loop.pool, !.claim = {}]
    BY <1>6 DEF RunEnds
  <2>2. manual' \in [spawned : Nat, pool : 0..Len(Pools)] /\ manual'.spawned = manual.spawned /\ manual'.pool = 0
    <3>1. 0 \in 0..Len(Pools)
      BY PoolsGiven
    <3>2. CASE run.by = "manual"
      BY <2>1, <3>1, <3>2 DEF TypeOK
    <3>3. CASE run.by # "manual"
      BY <1>4, <2>1, <3>3 DEF TypeOK, Orderly
    <3> QED BY <3>2, <3>3
  <2>3. /\ loop' \in [pool : 0..Len(Pools), claim : SUBSET Accounts, ticked : BOOLEAN]
        /\ lock = "loop" => loop'.claim = {} /\ loop'.pool < Len(Pools)
        /\ lock = "manual" => loop' = loop
    <3>1. 0 \in 0..Len(Pools) /\ 0 < Len(Pools)
      BY PoolsGiven
    <3>2. CASE run.by = "manual"
      BY <1>4, <2>1, <3>2 DEF TypeOK
    <3>3. CASE run.by # "manual"
      <4>1. loop.pool \in 0..Len(Pools)
        BY DEF TypeOK
      <4> DEFINE k == IF loop.pool = Len(Pools) THEN 0 ELSE loop.pool
      <4>2. k \in 0..Len(Pools) /\ k < Len(Pools)
        BY <3>1, <4>1, PoolsGiven
      <4> HIDE DEF k
      <4>3. loop' = [loop EXCEPT !.pool = k, !.claim = {}]
        BY <2>1, <3>3 DEF k
      <4> QED BY <1>4, <3>3, <4>2, <4>3 DEF TypeOK
    <3> QED BY <3>2, <3>3
  <2>4. \A n \in Names : n # NoRun.pool
    BY NoRunFields, PoolsGiven
  <2>5. TypeOK'
    BY <1>1, <1>2, <1>3, <2>1, <2>2, <2>3 DEF TypeOK, Past, OfSome
  <2>6. Orderly'
    BY <1>1, <1>3, <1>4, <2>1, <2>2, <2>3, <2>4 DEF Orderly
  <2> QED BY <2>5, <2>6
<1> QED BY <1>5, <1>6

\* The operator asks: nobody has asked since the last run began to wait, for the
\* gap is longer than that takes.
LEMMA RequestKeeps ==
  ASSUME TypeOK, Orderly, RequestManual
  PROVE  TypeOK' /\ Orderly'
<1>1. /\ lastManual = Never \/ now >= lastManual + ManualGap
      /\ lock = "free" /\ waiters = <<>> /\ lastManual' = now
      /\ manual' = [manual EXCEPT !.spawned = manual.spawned + 1]
      /\ UNCHANGED <<now, secs, accts, recheck, seen, loop, lock, waiters, run, probing, edits, past>>
  BY DEF RequestManual
<1>2. now \in Nat /\ now <= MaxNow /\ MaxNow \in Nat /\ ManualGap \in Nat \ {0} /\ now \in 0..MaxNow
  BY BoundsAssumption DEF TypeOK
<1>3. manual.spawned = 0 /\ manual.pool = 0
  <2>1. lastManual # now
    BY <1>1, <1>2 DEF Never
  <2> QED BY <1>1, <2>1 DEF Orderly, TypeOK
<1>4. manual' \in [spawned : Nat, pool : 0..Len(Pools)] /\ manual'.spawned = 1 /\ manual'.pool = 0
  <2>1. manual \in [spawned : Nat, pool : 0..Len(Pools)]
    BY DEF TypeOK
  <2> QED BY <1>1, <1>3, <2>1
<1>5. Range(waiters) = {}
  BY <1>1, EmptySeq DEF Range
<1>6. TypeOK'
  BY <1>1, <1>2, <1>4 DEF TypeOK, OfSome
<1>7. Orderly'
  BY <1>1, <1>4, <1>5 DEF Orderly
<1> QED BY <1>6, <1>7

LEMMA ManualWaitsKeeps ==
  ASSUME TypeOK, Orderly, ManualWaits
  PROVE  TypeOK' /\ Orderly'
<1>1. /\ manual.spawned > 0 /\ manual' = [manual EXCEPT !.spawned = manual.spawned - 1]
      /\ waiters' = Append(waiters, "manual")
      /\ UNCHANGED <<now, secs, accts, recheck, seen, loop, lastManual, lock, run, probing, edits, past>>
  BY DEF ManualWaits
<1>2. manual \in [spawned : Nat, pool : 0..Len(Pools)]
  BY DEF TypeOK
<1>3. manual.spawned = 1 /\ manual.pool = 0 /\ "manual" \notin Range(waiters)
  BY <1>1, <1>2 DEF Orderly
<1>4. manual' \in [spawned : Nat, pool : 0..Len(Pools)] /\ manual'.spawned = 0 /\ manual'.pool = 0
  BY <1>1, <1>2, <1>3
<1>5. /\ waiters' \in Seq({"loop", "manual"}) /\ IsInjective(waiters')
      /\ Range(waiters') = Range(waiters) \cup {"manual"}
  <2>1. waiters \in Seq({"loop", "manual"}) /\ IsInjective(waiters)
    BY DEF TypeOK, Orderly
  <2> QED BY <1>1, <1>3, <2>1, JoinQueue
<1>6. TypeOK'
  BY <1>1, <1>4, <1>5 DEF TypeOK, OfSome
<1>7. Orderly'
  BY <1>1, <1>4, <1>5 DEF Orderly
<1> QED BY <1>6, <1>7

\* The loop is rung, and the fields it has beside stay.
LEMMA Rung ==
  ASSUME TypeOK, loop' = [loop EXCEPT !.ticked = FALSE]
  PROVE  /\ loop' \in [pool : 0..Len(Pools), claim : SUBSET Accounts, ticked : BOOLEAN]
         /\ loop'.pool = loop.pool /\ loop'.claim = loop.claim /\ loop'.ticked = FALSE
BY DEF TypeOK

\* What a reload may change, and when.
Edit == \E p \in Names : \/ \E s \in Intervals : SetInterval(p, s)
                         \/ \E a \in Range(Listed[p]) : Relogin(p, a) \/ Join(p, a) \/ Leave(p, a)

\* What the reloads have in common: the loop will look again before it sleeps,
\* and an account whose credential is new is one it takes for unbooked.
LEMMA EditDoes ==
  ASSUME TypeOK, Edit
  PROVE  /\ loop' = [loop EXCEPT !.ticked = FALSE] /\ edits' \in 0..MaxEdits
         /\ UNCHANGED <<now, manual, lastManual, lock, waiters, run, probing, seen>>
         /\ secs' \in [Names -> Intervals] /\ accts' \in [Names -> SUBSET Accounts]
         /\ recheck' \in [Names -> SUBSET Accounts]
         /\ \A q \in Names : accts'[q] \cup recheck'[q] \subseteq Range(Listed[q])
         /\ past' \in Past
         /\ UNCHANGED <<past.until, past.longest, past.early>>
         /\ \A q \in Names : past'.steady[q] => past.steady[q] /\ secs'[q] = secs[q] /\ accts'[q] = accts[q]
<1>1. PICK p \in Names : \/ \E s \in Intervals : SetInterval(p, s)
                         \/ \E a \in Range(Listed[p]) : Relogin(p, a) \/ Join(p, a) \/ Leave(p, a)
  BY DEF Edit
<1>2. Reloaded
  BY <1>1 DEF SetInterval, Relogin, Join, Leave
<1>3. /\ loop' = [loop EXCEPT !.ticked = FALSE] /\ edits' \in 0..MaxEdits
      /\ UNCHANGED <<now, manual, lastManual, lock, waiters, run, probing, seen>>
  <2>1. edits \in 0..MaxEdits
    BY DEF TypeOK
  <2> QED BY <1>2, <2>1, BoundsAssumption DEF Reloaded
<1>4. \A a \in Range(Listed[p]) : a \in Accounts
  BY DEF Accounts
<1>5. /\ past \in Past /\ secs \in [Names -> Intervals] /\ accts \in [Names -> SUBSET Accounts]
      /\ recheck \in [Names -> SUBSET Accounts]
      /\ \A q \in Names : accts[q] \cup recheck[q] \subseteq Range(Listed[q])
  BY DEF TypeOK, Past
<1>6. ASSUME NEW s \in Intervals, SetInterval(p, s)
      PROVE  /\ secs' \in [Names -> Intervals] /\ accts' = accts /\ recheck' = recheck
             /\ past' \in Past /\ UNCHANGED <<past.until, past.longest, past.early>>
             /\ past'.steady[p] = FALSE
             /\ \A q \in Names \ {p} : past'.steady[q] = past.steady[q] /\ secs'[q] = secs[q]
  BY <1>5, <1>6 DEF SetInterval, Past
<1>7. ASSUME NEW a \in Range(Listed[p]), Relogin(p, a)
      PROVE  /\ secs' = secs /\ accts' = accts /\ recheck' \in [Names -> SUBSET Accounts]
             /\ \A q \in Names : recheck'[q] \subseteq Range(Listed[q])
             /\ past' \in Past /\ UNCHANGED <<past.until, past.longest, past.early, past.steady>>
  <2>1. a \in Accounts
    BY <1>4
  <2>2. /\ recheck' = [recheck EXCEPT ![p] = recheck[p] \cup {a}]
        /\ past' = [past EXCEPT !.fresh = past.fresh \cup {a}, !.missed = past.missed \ {a}]
        /\ UNCHANGED <<secs, accts>>
    BY <1>7 DEF Relogin
  <2>3. past' \in Past /\ UNCHANGED <<past.until, past.longest, past.early, past.steady>>
    BY <1>5, <2>1, <2>2 DEF Past
  <2> QED BY <1>5, <2>1, <2>2, <2>3
<1>8. ASSUME NEW a \in Range(Listed[p]), Join(p, a) \/ Leave(p, a)
      PROVE  /\ secs' = secs /\ recheck' = recheck /\ accts' \in [Names -> SUBSET Accounts]
             /\ \A q \in Names : accts'[q] \subseteq Range(Listed[q])
             /\ past' \in Past /\ UNCHANGED <<past.until, past.longest, past.early>>
             /\ past'.steady[p] = FALSE
             /\ \A q \in Names \ {p} : past'.steady[q] = past.steady[q] /\ accts'[q] = accts[q]
  <2>1. a \in Accounts
    BY <1>4
  <2>2. CASE Join(p, a)
    <3> DEFINE new == {a} \ DOMAIN seen[p].due
    <3>1. /\ accts' = [accts EXCEPT ![p] = accts[p] \cup {a}]
          /\ past' = [past EXCEPT !.steady[p] = FALSE, !.fresh = past.fresh \cup new,
                                 !.missed = past.missed \ new]
          /\ UNCHANGED <<secs, recheck>>
      BY <2>2 DEF Join
    <3>2. new \in SUBSET Accounts
      BY <2>1
    <3> HIDE DEF new
    <3>3. /\ past' \in Past /\ UNCHANGED <<past.until, past.longest, past.early>>
          /\ past'.steady = [past.steady EXCEPT ![p] = FALSE]
      BY <1>5, <2>1, <3>1, <3>2 DEF Past
    <3> QED BY <1>5, <2>1, <3>1, <3>3 DEF Past
  <2>3. CASE Leave(p, a)
    <3>1. /\ accts' = [accts EXCEPT ![p] = accts[p] \ {a}]
          /\ past' = [past EXCEPT !.steady[p] = FALSE, !.fresh = past.fresh \ {a}, !.missed = past.missed \ {a}]
          /\ UNCHANGED <<secs, recheck>>
      BY <2>3 DEF Leave
    <3>2. /\ past' \in Past /\ UNCHANGED <<past.until, past.longest, past.early>>
          /\ past'.steady = [past.steady EXCEPT ![p] = FALSE]
      BY <1>5, <2>1, <3>1 DEF Past
    <3> QED BY <1>5, <2>1, <3>1, <3>2 DEF Past
  <2> QED BY <1>8, <2>2, <2>3
<1> QED BY <1>1, <1>3, <1>5, <1>6, <1>7, <1>8

LEMMA EditKeeps ==
  ASSUME TypeOK, Orderly, Edit
  PROVE  TypeOK' /\ Orderly'
<1>1. /\ loop' \in [pool : 0..Len(Pools), claim : SUBSET Accounts, ticked : BOOLEAN]
      /\ loop'.pool = loop.pool /\ loop'.claim = loop.claim
  BY EditDoes, Rung
<1>2. TypeOK'
  <2>1. \A p \in Names :
          /\ (accts[p] \cup recheck[p] \subseteq Range(Listed[p]))'
          /\ OfSome(p, seen[p].due, Nat)'
          /\ (seen[p] \in [on : BOOLEAN, notBefore : 0..(MaxNow + MaxBackoff), due : {seen[p].due}])'
    BY EditDoes DEF TypeOK, OfSome
  <2>2. run' = run /\ (run # NoRun => OfSome(run.pool, run.at, Turns)')
    BY EditDoes DEF TypeOK, OfSome
  <2> QED BY <1>1, <2>1, <2>2, EditDoes DEF TypeOK, Past
<1>3. Orderly'
  BY <1>1, EditDoes DEF Orderly
<1> QED BY <1>2, <1>3

LEMMA AdvanceKeeps ==
  ASSUME TypeOK, Orderly, Advance
  PROVE  TypeOK' /\ Orderly'
<1>1. /\ now' = now + 1 /\ now < MaxNow /\ manual.spawned = 0 /\ loop' = [loop EXCEPT !.ticked = FALSE]
      /\ UNCHANGED <<secs, accts, recheck, seen, manual, lastManual, lock, waiters, run, probing, edits, past>>
  BY DEF Advance
<1>2. /\ loop' \in [pool : 0..Len(Pools), claim : SUBSET Accounts, ticked : BOOLEAN]
      /\ loop'.pool = loop.pool /\ loop'.claim = loop.claim
  BY <1>1, Rung
<1>3. now' \in 0..MaxNow
  BY <1>1, BoundsAssumption DEF TypeOK
<1>4. TypeOK'
  BY <1>1, <1>2, <1>3 DEF TypeOK, OfSome
<1>5. Orderly'
  BY <1>1, <1>2 DEF Orderly
<1> QED BY <1>4, <1>5

\* The loop looks at its pools one after the other.
LEMMA LooksInTurn ==
  ASSUME TypeOK, Orderly, Tick \/ NextPool
  PROVE  \E k \in 1..Len(Pools) : Look(k) /\ k = loop.pool + 1 /\ loop.claim = {}
<1>1. CASE Tick
  BY <1>1, PoolsGiven DEF Tick, Orderly
<1>2. CASE NextPool
  <2>1. loop.pool + 1 \in 1..Len(Pools)
    BY <1>2, PoolsGiven DEF NextPool, Orderly, TypeOK
  <2> QED BY <1>2, <2>1 DEF NextPool
<1> QED BY <1>1, <1>2

\* What the other steps leave alone: all of the schedule.
ScheduleStays ==
  /\ UNCHANGED <<now, secs, accts, recheck, seen, loop>>
  /\ UNCHANGED <<past.until, past.longest, past.steady, past.early>>

Elsewhere ==
  \/ LoopRuns \/ ManualRuns \/ RequestManual \/ ManualWaits \/ TheEnd \/ UNCHANGED vars
  \/ \E a \in Accounts : StartProbe(a) \/ Answer(a)

LEMMA Steps ==
  ASSUME TypeOK, Orderly, [Next]_vars
  PROVE  \/ \E k \in 1..Len(Pools) : Look(k) /\ k = loop.pool + 1 /\ loop.claim = {}
         \/ RunEnds \/ Edit \/ Advance \/ Elsewhere
BY LooksInTurn DEF Next, Edit, Elsewhere

LEMMA ElsewhereStays ==
  ASSUME TypeOK, Elsewhere
  PROVE  ScheduleStays
<1>1. ASSUME NEW a \in Accounts, StartProbe(a) PROVE ScheduleStays
  BY <1>1, StartDoes DEF ScheduleStays
<1> QED
  BY <1>1 DEF Elsewhere, LoopRuns, ManualRuns, RequestManual, ManualWaits, TheEnd, Answer, vars,
     ScheduleStays

LEMMA InitOrderly ==
  ASSUME Init
  PROVE  TypeOK /\ Orderly
<1> USE DEF Init
<1>1. 0 \in 0..MaxNow /\ 0 \in 0..(MaxNow + MaxBackoff) /\ 0 \in 0..MaxEdits
  BY BoundsAssumption
<1>2. 0 \in 0..Len(Pools) /\ 0 < Len(Pools)
  BY PoolsGiven
<1>3. /\ secs \in [Names -> Intervals] /\ accts \in [Names -> SUBSET Accounts]
      /\ \A p \in Names : accts[p] \subseteq Range(Listed[p])
  BY SettingsAssumption
<1>4. \A p \in Names : /\ OfSome(p, NotSeen.due, Nat)
                       /\ NotSeen \in [on : BOOLEAN, notBefore : 0..(MaxNow + MaxBackoff), due : {NotSeen.due}]
  BY <1>1 DEF NotSeen, OfSome
<1>5. /\ loop \in [pool : 0..Len(Pools), claim : SUBSET Accounts, ticked : BOOLEAN]
      /\ loop.pool = 0 /\ loop.claim = {}
  BY <1>2 DEF LoopIdle
<1>6. /\ manual \in [spawned : Nat, pool : 0..Len(Pools)] /\ manual.spawned = 0 /\ manual.pool = 0
  BY <1>2 DEF NoManual
<1>7. waiters \in Seq({"loop", "manual"}) /\ IsInjective(waiters) /\ Range(waiters) = {}
  BY EmptySeq DEF IsInjective, Range
<1>8. past \in Past
  BY DEF Past
<1>9. TypeOK
  BY <1>1, <1>3, <1>4, <1>5, <1>6, <1>7, <1>8 DEF TypeOK, Past, OfSome
<1>10. Orderly
  BY <1>2, <1>5, <1>6, <1>7, NoRunFields, PoolsGiven DEF Orderly
<1> QED BY <1>9, <1>10

LEMMA StepKeeps ==
  ASSUME TypeOK, Orderly, [Next]_vars
  PROVE  TypeOK' /\ Orderly'
<1>1. CASE TheEnd \/ UNCHANGED vars
  <2>1. UNCHANGED vars
    BY <1>1 DEF TheEnd
  <2>2. TypeOK' /\ Orderly'
    <3>1. TypeOK'
      BY <2>1 DEF vars, TypeOK, OfSome
    <3>2. Orderly'
      BY <2>1 DEF vars, Orderly
    <3> QED BY <3>1, <3>2
  <2> QED BY <2>2
<1> QED
  BY <1>1, Steps, LookKeeps, EndKeeps, EditKeeps, AdvanceKeeps, LoopRunsKeeps, ManualRunsKeeps,
     RequestKeeps, ManualWaitsKeeps, StartKeeps, AnswerKeeps DEF Elsewhere

\* The prober keeps to its order: the invariant the other theorems rest on.
THEOREM InOrder == Spec => [](TypeOK /\ Orderly)
BY InitOrderly, StepKeeps, PTL DEF Spec

\* The prober's variables keep their types, whatever pools, settings and edits.
THEOREM TypeCorrect == Spec => []TypeOK
BY InOrder, PTL

\* Two runs never overlap, the status view tells which pool is probed, and
\* however often the operator asks one manual run is under way or waiting.
THEOREM RunsTakeTurns == Spec => []OneRunAtATime
<1>1. ASSUME TypeOK, Orderly PROVE OneRunAtATime
  <2>1. manual.spawned \in Nat /\ manual.pool \in Nat
    BY <1>1, PoolsGiven DEF TypeOK
  <2> QED BY <1>1, <2>1 DEF Orderly, OneRunAtATime
<1> QED BY <1>1, InOrder, PTL

-----------------------------------------------------------------------------
\* Backing off.

\* A pool that was told to hold off until a time is not looked at before it.
HeldBack == past.early = FALSE /\ \A p \in Names : past.until[p] <= seen[p].notBefore

LEMMA BackOffStep ==
  ASSUME TypeOK, Orderly, HeldBack, [Next]_vars
  PROVE  HeldBack'
<1>0. \A p \in Names : past.until[p] \in Nat /\ seen[p].notBefore \in Nat /\ now \in Nat
  BY DEF TypeOK
<1>1. ASSUME NEW k \in 1..Len(Pools), Look(k) PROVE HeldBack'
  <2> DEFINE p == Pools[k]
  <2>1. p \in Names
    BY PoolsGiven
  <2>a. seen'[p] = SeenAfter(p, recheck[p]) /\ \A q \in Names \ {p} : seen'[q] = seen[q]
    BY <1>1, LookDoes
  <2>b. /\ past'.until[p] = (IF secs[p] = 0 THEN 0 ELSE past.until[p])
        /\ \A q \in Names \ {p} : past'.until[q] = past.until[q]
    BY <1>1, LookRemembers
  <2>2. past'.until[p] <= seen'[p].notBefore
    <3>1. CASE secs[p] = 0
      <4>1. seen'[p] = NotSeen
        BY <2>a, <3>1 DEF SeenAfter
      <4> QED BY <2>b, <3>1, <4>1 DEF NotSeen
    <3>2. CASE secs[p] # 0
      <4>1. seen'[p].notBefore = seen[p].notBefore
        BY <2>a, <3>2 DEF SeenAfter
      <4>2. past'.until[p] = past.until[p]
        BY <2>b, <3>2
      <4> QED BY <2>1, <4>1, <4>2 DEF HeldBack
    <3> QED BY <3>1, <3>2
  <2>3. \A q \in Names \ {p} : past'.until[q] <= seen'[q].notBefore
    BY <2>a, <2>b DEF HeldBack
  <2>4. past'.early = FALSE
    <3>1. Picked(p, recheck[p]) # {} => ~(now < seen[p].notBefore)
      BY DEF Picked, LeftAlone, BackingOff
    <3>2. past.until[p] <= seen[p].notBefore
      BY <2>1 DEF HeldBack
    <3>3. ~(Picked(p, recheck[p]) # {} /\ now < past.until[p])
      BY <1>0, <2>1, <3>1, <3>2
    <3>4. past'.early \in BOOLEAN /\ ~past'.early
      BY <1>1, <3>3, LookRemembers DEF HeldBack, Past
    <3> QED BY <3>4
  <2> QED BY <2>2, <2>3, <2>4 DEF HeldBack
<1>2. CASE RunEnds
  <2>1. ASSUME NEW q \in Names PROVE past'.until[q] <= seen'[q].notBefore
    <3>1. CASE q # run.pool
      BY <1>2, <3>1, EndDoes DEF HeldBack
    <3>2. CASE q = run.pool
      <4>1. seen'[q].notBefore \in Nat
        BY <1>2, EndDoes
      <4> QED BY <1>2, <3>2, <4>1, EndDoes DEF HeldBack
    <3> QED BY <3>1, <3>2
  <2>2. past'.early = FALSE
    BY <1>2, EndDoes DEF HeldBack
  <2> QED BY <2>1, <2>2 DEF HeldBack
<1>3. CASE Edit
  BY <1>3, EditDoes DEF HeldBack
<1>4. CASE Advance
  BY <1>4 DEF Advance, HeldBack
<1>5. CASE Elsewhere
  BY <1>5, ElsewhereStays DEF ScheduleStays, HeldBack
<1> QED BY <1>1, <1>2, <1>3, <1>4, <1>5, Steps

\* After a 429 the pool is left alone for as long as the back-off says: nobody
\* is claimed before that, unless probing was turned off in between.
THEOREM BackOffKept == Spec => []BackOffIsKept
<1>1. Init => HeldBack
  BY DEF Init, HeldBack, NotSeen
<1>2. HeldBack => BackOffIsKept
  BY DEF HeldBack, BackOffIsKept
<1> QED BY <1>1, <1>2, BackOffStep, InOrder, PTL DEF Spec

-----------------------------------------------------------------------------
\* Nobody is forgotten.

\* Since the tick began without a reload or a moment passing since, each pool
\* the loop has looked at has all of its accounts booked for later.
LookedAt(i)     == loop.pool = 0 \/ i <= loop.pool
BookedAhead(p)  == ~LeftAlone(p) => \A a \in accts[p] : a \in DOMAIN seen[p].due /\ now < seen[p].due[a]
LookedAtBooked  == loop.ticked => \A i \in 1..Len(Pools) : LookedAt(i) => BookedAhead(Pools[i])

\* No booking is further away than two of the longest intervals.
BookedNear == \A p \in Names : \A a \in DOMAIN seen[p].due : seen[p].due[a] <= now + 2 * past.longest[p]

\* What a look books.
LEMMA LookBooks ==
  ASSUME TypeOK, NEW k \in 1..Len(Pools), Look(k), BookedNear
  PROVE  LET p == Pools[k]
         IN  /\ BookedAhead(p)'
             /\ \A a \in DOMAIN seen'[p].due : seen'[p].due[a] <= now + 2 * past'.longest[p]
             /\ \A q \in Names \ {p} : BookedAhead(q) => BookedAhead(q)'
<1> DEFINE p == Pools[k]
           again == recheck[p]
<1>1. /\ p \in Names /\ seen'[p] = SeenAfter(p, again)
      /\ \A q \in Names \ {p} : seen'[q] = seen[q]
      /\ UNCHANGED <<now, secs, accts>>
  BY LookDoes DEF Look
<1>2. past'.longest[p] = (IF secs[p] = 0 THEN 0 ELSE Max({past.longest[p], Floor(secs[p])}))
  BY LookRemembers
<1>3. /\ past.longest[p] \in Nat /\ secs[p] \in Nat /\ now \in Nat
      /\ seen[p].due \in [DOMAIN seen[p].due -> Nat]
  BY <1>1, SettingsAssumption DEF TypeOK, OfSome
<1>4. \A q \in Names \ {p} : BookedAhead(q) => BookedAhead(q)'
  BY <1>1 DEF BookedAhead, LeftAlone, BackingOff
<1>5. CASE secs[p] = 0
  <2>1. seen'[p] = NotSeen
    BY <1>1, <1>5 DEF SeenAfter
  <2>2. DOMAIN seen'[p].due = {}
    BY <2>1 DEF NotSeen
  <2>3. LeftAlone(p)'
    BY <1>1, <1>5 DEF LeftAlone
  <2> QED BY <1>4, <2>2, <2>3 DEF BookedAhead
<1>6. CASE secs[p] # 0
  <2> DEFINE far == past'.longest[p]
  <2>1. far \in Nat /\ past.longest[p] <= far /\ Floor(secs[p]) <= far /\ Floor(secs[p]) \in Nat
    <3> DEFINE old  == past.longest[p]
               wait == Floor(secs[p])
    <3>1. wait \in Nat
      BY <1>3, FloorType
    <3>2. far = Max({old, wait}) /\ old \in Nat
      BY <1>2, <1>3, <1>6
    <3> HIDE DEF old, wait, far
    <3>3. far \in Nat /\ old <= far /\ wait <= far
      BY <3>1, <3>2, LargerOfTwo
    <3> QED BY <3>1, <3>3 DEF old, wait
  <2>2. \A a \in DOMAIN seen[p].due : seen[p].due[a] <= now + 2 * far
    <3> HIDE DEF far
    <3>1. \A a \in DOMAIN seen[p].due : seen[p].due[a] <= now + 2 * past.longest[p] /\ seen[p].due[a] \in Nat
      BY <1>1, <1>3 DEF BookedNear
    <3>2. now \in Nat /\ past.longest[p] \in Nat
      BY <1>3
    <3>3. now + 2 * past.longest[p] <= now + 2 * far
      BY <2>1, <3>2
    <3>4. now + 2 * past.longest[p] \in Nat /\ now + 2 * far \in Nat
      BY <2>1, <3>2
    <3> QED BY <3>1, <3>3, <3>4
  <2>3. CASE BackingOff(p)
    <3>1. seen'[p] = seen[p]
      BY <1>1, <1>6, <2>3 DEF SeenAfter
    <3>2. LeftAlone(p)'
      BY <1>1, <2>3, <3>1 DEF LeftAlone, BackingOff
    <3> QED BY <1>4, <2>2, <3>1, <3>2 DEF BookedAhead
  <2>4. CASE ~BackingOff(p)
    <3> DEFINE due == [a \in accts[p] |-> IF DueNow(p, a, again) THEN Booked(p, a, again) ELSE seen[p].due[a]]
    <3>1. seen'[p].due = due /\ DOMAIN due = accts[p]
      BY <1>1, <1>6, <2>4 DEF SeenAfter
    <3>2. ASSUME NEW a \in accts[p] PROVE now < due[a] /\ due[a] <= now + 2 * far
      <4>1. CASE DueNow(p, a, again)
        <5>1. /\ Booked(p, a, again) \in Nat /\ now < Booked(p, a, again)
              /\ Booked(p, a, again) <= now + 2 * Floor(secs[p])
          BY <1>1, <4>1, BookedLater
        <5>2. due[a] = Booked(p, a, again)
          BY <4>1
        <5> HIDE DEF due, far
        <5> QED BY <1>3, <2>1, <5>1, <5>2
      <4>2. CASE ~DueNow(p, a, again)
        <5>1. a \in DOMAIN seen[p].due /\ ~(seen[p].due[a] <= now)
          BY <4>2 DEF DueNow, Standing
        <5>2. due[a] = seen[p].due[a]
          BY <4>2
        <5>3. seen[p].due[a] \in Nat
          BY <1>3, <5>1
        <5> HIDE DEF due, far
        <5> QED BY <1>3, <2>2, <5>1, <5>2, <5>3
      <4> QED BY <4>1, <4>2
    <3> HIDE DEF due
    <3>3. BookedAhead(p)'
      BY <1>1, <3>1, <3>2 DEF BookedAhead
    <3> QED BY <1>4, <3>1, <3>2, <3>3
  <2> QED BY <2>3, <2>4
<1> QED BY <1>5, <1>6

\* Where the loop is after a run.
LEMMA EndGoesOn ==
  ASSUME TypeOK, Orderly, RunEnds
  PROVE  /\ loop'.ticked = loop.ticked
         /\ loop'.pool = loop.pool \/ (loop'.pool = 0 /\ loop.pool = Len(Pools))
         /\ run.by = "loop" => loop'.claim = {}
         /\ run.by # "loop" => loop' = loop
<1>1. run.by \in {"loop", "manual"}
  BY DEF RunEnds, TypeOK
<1>2. loop \in [pool : 0..Len(Pools), claim : SUBSET Accounts, ticked : BOOLEAN]
  BY DEF TypeOK
<1>3. \/ loop' = loop /\ run.by = "manual"
      \/ loop' = [loop EXCEPT !.pool = IF loop.pool = Len(Pools) THEN 0 ELSE loop.pool, !.claim = {}]
  BY <1>1 DEF RunEnds
<1>4. run.by = "manual" => loop' = loop
  BY DEF RunEnds
<1> QED BY <1>1, <1>2, <1>3, <1>4

LEMMA BookedStep ==
  ASSUME TypeOK, Orderly, LookedAtBooked, BookedNear, [Next]_vars
  PROVE  LookedAtBooked' /\ BookedNear'
<1>1. ASSUME NEW k \in 1..Len(Pools), Look(k), k = loop.pool + 1
      PROVE  LookedAtBooked' /\ BookedNear'
  <2> DEFINE p == Pools[k]
  <2>1. p \in Names /\ UNCHANGED <<now, secs, accts>> /\ k \in Nat /\ k <= Len(Pools) /\ Len(Pools) \in Nat
    BY <1>1, PoolsGiven DEF Look
  <2>2. /\ loop'.pool \in {0, k} /\ (loop'.pool = 0 => k = Len(Pools))
        /\ loop'.ticked <=> loop.pool = 0 \/ loop.ticked
        /\ \A q \in Names \ {p} : seen'[q] = seen[q]
    BY <1>1, LookDoes
  <2>3. \A q \in Names \ {p} : past'.longest[q] = past.longest[q]
    BY <1>1, LookRemembers
  <2>4. /\ BookedAhead(p)'
        /\ \A a \in DOMAIN seen'[p].due : seen'[p].due[a] <= now + 2 * past'.longest[p]
        /\ \A q \in Names \ {p} : BookedAhead(q) => BookedAhead(q)'
    BY <1>1, LookBooks
  <2>5. BookedNear'
    BY <2>1, <2>2, <2>3, <2>4 DEF BookedNear
  <2>6. LookedAtBooked'
    <3>1. SUFFICES ASSUME loop'.ticked, NEW i \in 1..Len(Pools), LookedAt(i)' PROVE BookedAhead(Pools[i])'
      BY DEF LookedAtBooked
    <3>2. CASE Pools[i] = p
      BY <2>4, <3>2
    <3>3. CASE Pools[i] # p
      <4>1. i < k
        BY <2>1, <2>2, <3>1, <3>3 DEF LookedAt
      <4>2. loop.pool # 0 /\ LookedAt(i)
        BY <1>1, <2>1, <4>1 DEF LookedAt, TypeOK
      <4>3. BookedAhead(Pools[i]) /\ Pools[i] \in Names
        BY <2>2, <3>1, <4>2, PoolsGiven DEF LookedAtBooked
      <4> QED BY <2>4, <3>3, <4>3
    <3> QED BY <3>2, <3>3
  <2> QED BY <2>5, <2>6
<1>2. CASE RunEnds
  <2>1. /\ \A q \in Names : seen'[q].due = seen[q].due
        /\ \A q \in Names : seen'[q] = seen[q] \/ now < seen'[q].notBefore
        /\ UNCHANGED <<now, secs, accts, past.longest>>
    BY <1>2, EndDoes
  <2>2. \A q \in Names : BookedAhead(q) => BookedAhead(q)'
    BY <2>1 DEF BookedAhead, LeftAlone, BackingOff
  <2>3. BookedNear'
    BY <2>1 DEF BookedNear
  <2>4. LookedAtBooked'
    <3>1. SUFFICES ASSUME loop'.ticked, NEW i \in 1..Len(Pools), LookedAt(i)' PROVE BookedAhead(Pools[i])'
      BY DEF LookedAtBooked
    <3>2. loop.ticked /\ (loop'.pool = loop.pool \/ (loop'.pool = 0 /\ loop.pool = Len(Pools)))
      BY <1>2, <3>1, EndGoesOn
    <3>3. LookedAt(i)
      BY <3>1, <3>2, PoolsGiven DEF LookedAt
    <3>4. BookedAhead(Pools[i]) /\ Pools[i] \in Names
      BY <3>2, <3>3, PoolsGiven DEF LookedAtBooked
    <3> QED BY <2>2, <3>4
  <2> QED BY <2>3, <2>4
<1>3. CASE Edit
  <2>1. loop'.ticked = FALSE /\ UNCHANGED <<seen, now, past.longest>>
    BY <1>3, EditDoes, Rung
  <2> QED BY <2>1 DEF LookedAtBooked, BookedNear
<1>4. CASE Advance
  <2>1. loop'.ticked = FALSE /\ now' = now + 1 /\ UNCHANGED <<seen, past>>
    BY <1>4, Rung DEF Advance
  <2>2. ASSUME NEW p \in Names, NEW a \in DOMAIN seen[p].due
        PROVE  seen[p].due[a] <= now + 1 + 2 * past.longest[p]
    <3>1. seen[p].due[a] \in Nat /\ now \in Nat /\ past.longest[p] \in Nat
      BY DEF TypeOK, OfSome
    <3>2. seen[p].due[a] <= now + 2 * past.longest[p]
      BY DEF BookedNear
    <3> QED BY <3>1, <3>2
  <2> QED BY <2>1, <2>2 DEF LookedAtBooked, BookedNear
<1>5. CASE Elsewhere
  <2>1. ScheduleStays
    BY <1>5, ElsewhereStays
  <2>2. \A q \in Names : BookedAhead(q) => BookedAhead(q)'
    BY <2>1 DEF ScheduleStays, BookedAhead, LeftAlone, BackingOff
  <2> QED BY <2>1, <2>2, PoolsGiven DEF ScheduleStays, LookedAtBooked, LookedAt, BookedNear
<1> QED BY <1>1, <1>2, <1>3, <1>4, <1>5, Steps

\* Between two ticks every account of a pool that is on and not backing off is
\* booked, for later, and no further away than two of the longest intervals.
THEOREM NobodyIsForgotten == Spec => []NobodyForgotten
<1>1. Init => LookedAtBooked /\ BookedNear
  BY DEF Init, LookedAtBooked, BookedNear, LoopIdle, NotSeen
<1>2. ASSUME TypeOK, LookedAtBooked, BookedNear PROVE NobodyForgotten
  <2>1. SUFFICES ASSUME loop = LoopIdle, NEW p \in Names, ~LeftAlone(p), NEW a \in accts[p]
                 PROVE  /\ a \in DOMAIN seen[p].due
                        /\ seen[p].due[a] \in (now + 1)..(now + 2 * past.longest[p])
    BY DEF NobodyForgotten
  <2>2. loop.pool = 0 /\ loop.ticked
    BY <2>1 DEF LoopIdle
  <2>3. BookedAhead(p)
    BY <1>2, <2>2, PoolsGiven DEF LookedAtBooked, LookedAt
  <2>4. a \in DOMAIN seen[p].due /\ now < seen[p].due[a] /\ seen[p].due[a] <= now + 2 * past.longest[p]
    BY <1>2, <2>1, <2>3 DEF BookedAhead, BookedNear
  <2>5. seen[p].due[a] \in Nat /\ now \in Nat /\ past.longest[p] \in Nat
    BY <1>2, <2>4 DEF TypeOK, OfSome
  <2> QED BY <2>4, <2>5
<1> QED BY <1>1, <1>2, BookedStep, InOrder, PTL DEF Spec

-----------------------------------------------------------------------------
\* New credentials are probed.

\* The loop has yet to notice that the account has a new credential ...
Pending(p, a) == a \in recheck[p] \/ a \notin DOMAIN seen[p].due

\* ... or has claimed it, and its probe has not begun.
Claimed(p, a) ==
    /\ loop.pool # 0 /\ Pools[loop.pool] = p /\ a \in loop.claim
    /\ run.by = "loop" => run.pool = p /\ a \in DOMAIN run.at /\ run.at[a] = "waiting"

Owed(a) == \E p \in Names : a \in accts[p] /\ (Pending(p, a) \/ Claimed(p, a))

\* Every account with a new credential that has not been passed over is one of
\* these.
AllOwed == \A a \in past.fresh \ past.missed : Owed(a)

\* Since the tick began without a reload since, the loop has taken the new
\* credentials of the pools it has looked at.
RecheckTaken == loop.ticked => \A i \in 1..Len(Pools) : LookedAt(i) => recheck[Pools[i]] = {}

\* The accounts that are new to the loop, whoever they are, stay so or are claimed.
LEMMA LookClaims ==
  ASSUME TypeOK, Orderly, NEW k \in 1..Len(Pools), Look(k), loop.claim = {}, AllOwed
  PROVE  AllOwed'
<1> DEFINE p == Pools[k]
           again == recheck[p]
<1>0. k \in Nat /\ k # 0
  BY PoolsGiven
<1>1. /\ p \in Names /\ recheck'[p] = {} /\ \A q \in Names \ {p} : recheck'[q] = recheck[q]
      /\ seen'[p] = SeenAfter(p, again) /\ \A q \in Names \ {p} : seen'[q] = seen[q]
      /\ loop'.pool = (IF Picked(p, again) = {} /\ k = Len(Pools) THEN 0 ELSE k)
      /\ loop'.claim = Picked(p, again)
  BY LookDoes
<1>2. /\ past'.fresh = past.fresh
      /\ past'.missed = past.missed \cup (IF LeftAlone(p) THEN again ELSE {})
  BY LookRemembers
<1>3. UNCHANGED <<now, secs, accts, run>> /\ run.by # "loop"
  <2>1. lock # "loop"
    BY DEF Orderly
  <2> QED BY <2>1, NoRunFields DEF Look, Orderly
<1>4. SUFFICES ASSUME NEW a \in past'.fresh \ past'.missed PROVE Owed(a)'
  BY DEF AllOwed
<1>5. PICK q \in Names : a \in accts[q] /\ Pending(q, a)
  BY <1>2, <1>4 DEF AllOwed, Owed, Claimed
<1>6. CASE q # p
  <2>1. Pending(q, a)'
    BY <1>1, <1>5, <1>6 DEF Pending
  <2> QED BY <1>3, <1>5, <2>1 DEF Owed
<1>7. CASE q = p /\ LeftAlone(p)
  <2>1. a \notin again
    BY <1>2, <1>4, <1>7
  <2>2. a \notin DOMAIN seen[p].due
    BY <1>5, <1>7, <2>1 DEF Pending
  <2>3. seen'[p] = NotSeen \/ seen'[p] = seen[p]
    BY <1>1, <1>7 DEF SeenAfter, LeftAlone
  <2>4. a \notin DOMAIN seen'[p].due
    BY <2>2, <2>3 DEF NotSeen
  <2> QED BY <1>3, <1>5, <1>7, <2>4 DEF Owed, Pending
<1>8. CASE q = p /\ ~LeftAlone(p)
  <2>1. a \in Picked(p, again)
    BY <1>5, <1>8 DEF Picked, DueNow, Standing, Pending
  <2>2. Claimed(p, a)'
    BY <1>0, <1>1, <1>3, <2>1 DEF Claimed
  <2> QED BY <1>3, <1>5, <1>8, <2>2 DEF Owed
<1> QED BY <1>6, <1>7, <1>8

\* A reload adds to them only what the loop has yet to notice.
LEMMA EditOwes ==
  ASSUME TypeOK, Edit, AllOwed
  PROVE  AllOwed'
<1>1. PICK p \in Names : \/ \E s \in Intervals : SetInterval(p, s)
                         \/ \E a \in Range(Listed[p]) : Relogin(p, a) \/ Join(p, a) \/ Leave(p, a)
  BY DEF Edit
<1>2. /\ UNCHANGED <<seen, run>> /\ loop'.pool = loop.pool /\ loop'.claim = loop.claim
  BY EditDoes, Rung
<1>3. past \in Past /\ DOMAIN recheck = Names /\ DOMAIN accts = Names
  BY DEF TypeOK, Past
<1>4. ASSUME \A q \in Names : recheck[q] \subseteq recheck'[q],
             NEW a, Owed(a), \A q \in Names : a \in accts[q] => a \in accts'[q]
      PROVE  Owed(a)'
  BY <1>2, <1>4 DEF Owed, Pending, Claimed
<1>5. CASE \E s \in Intervals : SetInterval(p, s)
  <2>1. UNCHANGED <<accts, recheck, past.fresh, past.missed>>
    BY <1>3, <1>5 DEF SetInterval, Past
  <2> QED BY <1>4, <2>1 DEF AllOwed
<1>6. ASSUME NEW a \in Range(Listed[p]), Relogin(p, a) PROVE AllOwed'
  <2>1. /\ recheck' = [recheck EXCEPT ![p] = recheck[p] \cup {a}] /\ accts' = accts /\ a \in accts[p]
        /\ past'.fresh = past.fresh \cup {a} /\ past'.missed = past.missed \ {a}
    BY <1>3, <1>6 DEF Relogin, Past
  <2>2. /\ a \in recheck'[p] /\ \A q \in Names : recheck[q] \subseteq recheck'[q]
    BY <1>3, <2>1
  <2>3. Owed(a)'
    BY <2>1, <2>2 DEF Owed, Pending
  <2>4. ASSUME NEW b \in past'.fresh \ past'.missed, b # a PROVE Owed(b)'
    BY <1>4, <2>1, <2>2, <2>4 DEF AllOwed
  <2> QED BY <2>3, <2>4 DEF AllOwed
<1>7. ASSUME NEW a \in Range(Listed[p]), Join(p, a) PROVE AllOwed'
  <2> DEFINE new == {a} \ DOMAIN seen[p].due
  <2>1. /\ accts' = [accts EXCEPT ![p] = accts[p] \cup {a}] /\ recheck' = recheck
        /\ past'.fresh = past.fresh \cup new /\ past'.missed = past.missed \ new
    BY <1>3, <1>7 DEF Join, Past
  <2>2. /\ a \in accts'[p] /\ \A q \in Names : accts[q] \subseteq accts'[q]
    BY <1>3, <2>1
  <2>3. ASSUME a \in new PROVE Owed(a)'
    BY <1>2, <2>2, <2>3 DEF Owed, Pending
  <2>4. ASSUME NEW b \in past.fresh \ past.missed PROVE Owed(b)'
    BY <1>4, <2>1, <2>2, <2>4 DEF AllOwed
  <2> QED BY <2>1, <2>3, <2>4 DEF AllOwed
<1>8. ASSUME NEW a \in Range(Listed[p]), Leave(p, a) PROVE AllOwed'
  <2>1. /\ accts' = [accts EXCEPT ![p] = accts[p] \ {a}] /\ recheck' = recheck
        /\ past'.fresh = past.fresh \ {a} /\ past'.missed = past.missed \ {a}
    BY <1>3, <1>8 DEF Leave, Past
  <2>2. \A b : b # a => \A q \in Names : b \in accts[q] => b \in accts'[q]
    BY <1>3, <2>1
  <2> QED BY <1>4, <2>1, <2>2 DEF AllOwed
<1> QED BY <1>1, <1>5, <1>6, <1>7, <1>8

\* A run that has not begun with an account still owes it, and so does one that
\* begins; the account is passed over when it steps aside.
LEMMA RunOwes ==
  ASSUME TypeOK, Orderly, AllOwed, RunEnds \/ Elsewhere
  PROVE  AllOwed'
<1>1. ASSUME past'.fresh \ past'.missed \subseteq past.fresh \ past.missed, UNCHANGED <<accts, recheck>>,
             \A q \in Names : seen'[q].due = seen[q].due,
             \A a \in past'.fresh \ past'.missed : \A q \in Names : Claimed(q, a) => Claimed(q, a)'
      PROVE  AllOwed'
  <2>1. \A a : \A q \in Names : Pending(q, a) => Pending(q, a)'
    BY <1>1 DEF Pending
  <2> QED BY <1>1, <2>1 DEF AllOwed, Owed
<1>2. CASE RunEnds
  <2>1. /\ \A a \in DOMAIN run.at : run.at[a] = "done"
        /\ \A q \in Names : seen'[q].due = seen[q].due
        /\ UNCHANGED <<accts, recheck, past.fresh, past.missed>>
    BY <1>2, EndDoes
  <2>2. ASSUME NEW a, NEW q \in Names, Claimed(q, a) PROVE Claimed(q, a)'
    <3>1. run.by # "loop"
      BY <2>1, <2>2 DEF Claimed
    <3>2. \/ run' = NoRun
          \/ run' = RunOf(Pools[manual.pool + 1], accts[Pools[manual.pool + 1]], "manual")
      BY <1>2 DEF RunEnds
    <3>3. run'.by # "loop"
      BY <3>2 DEF RunOf, NoRun
    <3>4. loop' = loop
      BY <1>2, <3>1, EndGoesOn
    <3> QED BY <2>2, <3>3, <3>4 DEF Claimed
  <2> QED BY <1>1, <2>1, <2>2
<1>3. CASE LoopRuns
  <2>1. /\ UNCHANGED <<accts, recheck, seen, past, loop>>
        /\ run' = RunOf(Pools[loop.pool], loop.claim, "loop")
    BY <1>3 DEF LoopRuns, RunStarts
  <2>2. /\ run'.pool = Pools[loop.pool] /\ run'.at = [a \in loop.claim |-> "waiting"]
    BY <2>1 DEF RunOf
  <2>3. ASSUME NEW a, NEW q \in Names, Claimed(q, a) PROVE Claimed(q, a)'
    BY <2>1, <2>2, <2>3 DEF Claimed
  <2> QED BY <1>1, <2>1, <2>3
<1>4. CASE ManualRuns
  <2>1. /\ UNCHANGED <<accts, recheck, seen, past, loop>>
        /\ run' = RunOf(Pools[1], accts[Pools[1]], "manual")
    BY <1>4 DEF ManualRuns, RunStarts
  <2>2. ASSUME NEW a, NEW q \in Names, Claimed(q, a) PROVE Claimed(q, a)'
    BY <2>1, <2>2 DEF Claimed, RunOf
  <2> QED BY <1>1, <2>1, <2>2
<1>5. ASSUME NEW b \in Accounts, StartProbe(b) PROVE AllOwed'
  <2>1. PICK v \in {"done", "asked"} :
              /\ run' = [run EXCEPT !.at[b] = v, !.halted = run.halted]
              /\ past'.fresh = (IF v = "done" THEN past.fresh ELSE past.fresh \ {b})
              /\ past'.missed = (IF v = "done" THEN past.missed \cup ({b} \cap past.fresh)
                                               ELSE past.missed \ {b})
    BY <1>5, StartDoes
  <2>2. UNCHANGED <<accts, recheck, seen, loop>> /\ run # NoRun /\ b \in DOMAIN run.at /\ run.halted \in BOOLEAN
    BY <1>5, StartDoes DEF TypeOK
  <2>3. /\ run'.pool = run.pool /\ run'.by = run.by /\ DOMAIN run'.at = DOMAIN run.at
        /\ \A a \in DOMAIN run.at \ {b} : run'.at[a] = run.at[a]
    BY <2>1, <2>2, AccountMoves DEF Turns
  <2>4. past'.fresh \ past'.missed \subseteq (past.fresh \ past.missed) \ {b}
    BY <2>1
  <2>5. ASSUME NEW a, a # b, NEW q \in Names, Claimed(q, a) PROVE Claimed(q, a)'
    BY <2>2, <2>3, <2>5 DEF Claimed
  <2> QED BY <1>1, <2>2, <2>4, <2>5
<1>6. ASSUME NEW b \in Accounts, Answer(b) PROVE AllOwed'
  <2>1. /\ run # NoRun /\ b \in DOMAIN run.at /\ run.at[b] = "asked"
        /\ UNCHANGED <<accts, recheck, seen, past, loop>>
    BY <1>6 DEF Answer
  <2>2. PICK limited \in BOOLEAN : run' = [run EXCEPT !.at[b] = "done", !.halted = run.halted \/ limited]
    BY <1>6 DEF Answer
  <2>3. (run.halted \/ limited) \in BOOLEAN
    OBVIOUS
  <2>4. /\ run'.pool = run.pool /\ run'.by = run.by /\ DOMAIN run'.at = DOMAIN run.at
        /\ \A a \in DOMAIN run.at \ {b} : run'.at[a] = run.at[a]
    BY <2>1, <2>2, <2>3, AccountMoves DEF Turns
  <2>5. ASSUME NEW a, NEW q \in Names, Claimed(q, a) PROVE Claimed(q, a)'
    BY <2>1, <2>4, <2>5 DEF Claimed
  <2> QED BY <1>1, <2>1, <2>5
<1>7. CASE RequestManual \/ ManualWaits \/ TheEnd \/ UNCHANGED vars
  BY <1>1, <1>7 DEF RequestManual, ManualWaits, TheEnd, vars, Claimed
<1> QED BY <1>2, <1>3, <1>4, <1>5, <1>6, <1>7 DEF Elsewhere

LEMMA OwedStep ==
  ASSUME TypeOK, Orderly, AllOwed, RecheckTaken, [Next]_vars
  PROVE  AllOwed' /\ RecheckTaken'
<1>1. ASSUME NEW k \in 1..Len(Pools), Look(k), k = loop.pool + 1, loop.claim = {}
      PROVE  AllOwed' /\ RecheckTaken'
  <2>1. /\ recheck'[Pools[k]] = {} /\ \A q \in Names \ {Pools[k]} : recheck'[q] = recheck[q]
        /\ loop'.pool \in {0, k} /\ (loop'.pool = 0 => k = Len(Pools))
        /\ loop'.ticked <=> loop.pool = 0 \/ loop.ticked
    BY <1>1, LookDoes
  <2>2. SUFFICES ASSUME loop'.ticked, NEW i \in 1..Len(Pools), LookedAt(i)', Pools[i] # Pools[k]
                 PROVE  recheck'[Pools[i]] = {}
    BY <1>1, <2>1, LookClaims DEF RecheckTaken
  <2>3. k \in Nat /\ k <= Len(Pools) /\ Len(Pools) \in Nat /\ i \in Nat /\ i <= Len(Pools) /\ loop.pool \in Nat
    <3>1. Len(Pools) \in Nat
      BY PoolsGiven
    <3>2. loop.pool \in 0..Len(Pools)
      BY DEF TypeOK
    <3> QED BY <3>1, <3>2
  <2>4. i < k
    BY <2>1, <2>2, <2>3 DEF LookedAt
  <2>5. loop.ticked /\ LookedAt(i)
    BY <1>1, <2>1, <2>2, <2>3, <2>4 DEF LookedAt
  <2> QED BY <2>1, <2>2, <2>5, PoolsGiven DEF RecheckTaken
<1>2. CASE RunEnds
  <2>1. UNCHANGED recheck
    BY <1>2, EndDoes
  <2>2. ASSUME loop'.ticked, NEW i \in 1..Len(Pools), LookedAt(i)' PROVE recheck[Pools[i]] = {}
    <3>1. loop.ticked /\ (loop'.pool = loop.pool \/ (loop'.pool = 0 /\ loop.pool = Len(Pools)))
      BY <1>2, <2>2, EndGoesOn
    <3>2. LookedAt(i)
      BY <2>2, <3>1, PoolsGiven DEF LookedAt
    <3> QED BY <3>1, <3>2 DEF RecheckTaken
  <2> QED BY <1>2, <2>1, <2>2, RunOwes DEF RecheckTaken
<1>3. CASE Edit
  <2>1. loop'.ticked = FALSE
    BY <1>3, EditDoes, Rung
  <2> QED BY <1>3, <2>1, EditOwes DEF RecheckTaken
<1>4. CASE Advance
  <2>1. /\ loop'.ticked = FALSE /\ loop'.pool = loop.pool /\ loop'.claim = loop.claim
        /\ UNCHANGED <<accts, recheck, seen, run, past>>
    BY <1>4, Rung DEF Advance
  <2> QED BY <2>1 DEF AllOwed, RecheckTaken, Owed, Pending, Claimed
<1>5. CASE Elsewhere
  <2>1. UNCHANGED <<recheck, loop>>
    BY <1>5, ElsewhereStays DEF ScheduleStays
  <2> QED BY <1>5, <2>1, RunOwes DEF RecheckTaken, LookedAt
<1> QED BY <1>1, <1>2, <1>3, <1>4, <1>5, Steps

\* A new credential is probed by the next tick, unless the account was passed
\* over: its pool off or backing off, or a 429 drawn.
THEOREM FreshLoginsAreProbed == Spec => []FreshLoginIsProbed
<1>1. Init => LookedAtBooked /\ BookedNear /\ AllOwed /\ RecheckTaken
  BY PoolsGiven DEF Init, LookedAtBooked, BookedNear, LoopIdle, NotSeen, AllOwed, RecheckTaken
<1>2. ASSUME TypeOK, LookedAtBooked, AllOwed, RecheckTaken PROVE FreshLoginIsProbed
  <2>1. SUFFICES ASSUME loop = LoopIdle, NEW a \in past.fresh \ past.missed
                 PROVE  \E p \in Names : LeftAlone(p) /\ a \in accts[p]
    BY DEF FreshLoginIsProbed
  <2>2. loop.pool = 0 /\ loop.ticked
    BY <2>1 DEF LoopIdle
  <2>3. PICK p \in Names : a \in accts[p] /\ Pending(p, a)
    BY <1>2, <2>1, <2>2 DEF AllOwed, Owed, Claimed
  <2>4. BookedAhead(p) /\ recheck[p] = {}
    BY <1>2, <2>2, PoolsGiven DEF LookedAtBooked, RecheckTaken, LookedAt
  <2>5. LeftAlone(p)
    BY <2>3, <2>4 DEF BookedAhead, Pending
  <2> QED BY <2>3, <2>5
<1> QED BY <1>1, <1>2, BookedStep, OwedStep, InOrder, PTL DEF Spec

-----------------------------------------------------------------------------
\* Turns are spread.

\* On a clock face of w hours, x is at least s hours after y, and y after x.
Apart(w, s, x, y) == \E k \in Int, r \in s..(w - s) : x = y + k * w + r

\* Two hands stay apart when one of them goes round, whichever it is.
LEMMA ApartTurns ==
  ASSUME NEW w \in Nat, NEW s \in Nat, NEW x \in Int, NEW y \in Int, Apart(w, s, x, y)
  PROVE  Apart(w, s, y, x) /\ Apart(w, s, x + w, y) /\ Apart(w, s, x, y + w) /\ Apart(w, s, x + w, y + w)
<1>1. PICK k \in Int, r \in s..(w - s) : x = y + k * w + r
  BY DEF Apart
<1>2. Apart(w, s, y, x)
  <2>1. (-k - 1) * w = -(k * w) - w
    OBVIOUS
  <2>2. w - r \in s..(w - s) /\ -k - 1 \in Int
    OBVIOUS
  <2>3. y = x + (-k - 1) * w + (w - r)
    BY <1>1, <2>1
  <2> QED BY <2>2, <2>3 DEF Apart
<1>3. Apart(w, s, x + w, y)
  <2>1. (k + 1) * w = k * w + w /\ k + 1 \in Int
    OBVIOUS
  <2>2. x + w = y + (k + 1) * w + r
    BY <1>1, <2>1
  <2> QED BY <2>1, <2>2 DEF Apart
<1>4. Apart(w, s, x, y + w)
  <2>1. (k - 1) * w = k * w - w /\ k - 1 \in Int
    OBVIOUS
  <2>2. x = (y + w) + (k - 1) * w + r
    BY <1>1, <2>1
  <2> QED BY <2>1, <2>2 DEF Apart
<1>5. Apart(w, s, x + w, y + w)
  <2>1. x + w = (y + w) + k * w + r
    BY <1>1
  <2> QED BY <2>1 DEF Apart
<1> QED BY <1>2, <1>3, <1>4, <1>5

\* What apart means for the hand that is ahead.
LEMMA ApartMod ==
  ASSUME NEW w \in Nat \ {0}, NEW s \in Nat, NEW x \in Nat, NEW y \in Nat, x >= y, Apart(w, s, x, y)
  PROVE  (x - y) % w \in s..(w - s)
<1>1. PICK k \in Int, r \in s..(w - s) : x = y + k * w + r
  BY DEF Apart
<1> DEFINE d == x - y
           q == d \div w
           m == d % w
<1>2. d \in Nat /\ d = k * w + r
  BY <1>1
<1>3. m \in 0..(w - 1) /\ q \in Int /\ d = w * q + m
  BY <1>2
<1> HIDE DEF d, q, m
<1>4. w * (q - k) = r - m
  <2>1. w * (q - k) = w * q - k * w
    BY <1>3
  <2> QED BY <1>2, <1>3, <2>1
<1>5. q - k \in {0, 1} /\ (q - k = 1 => m = 0 /\ r = w)
  <2> DEFINE e == q - k
  <2>1. e \in Int /\ w * e = r - m
    BY <1>3, <1>4
  <2> HIDE DEF e
  <2>2. r - m > -w /\ r - m <= w
    BY <1>3
  <2>3. CASE e >= 2
    <3>1. w * e = 2 * w + w * (e - 2) /\ w * (e - 2) \in Nat
      BY <2>1, <2>3
    <3> QED BY <2>1, <2>2, <3>1
  <2>4. CASE e <= -1
    <3>1. w * e = -w - w * (-1 - e) /\ w * (-1 - e) \in Nat
      BY <2>1, <2>4
    <3> QED BY <2>1, <2>2, <3>1
  <2>5. CASE e = 0
    BY <2>5 DEF e
  <2>6. CASE e = 1
    <3>1. w = r - m
      BY <2>1, <2>6
    <3>2. r = w /\ m = 0
      BY <1>3, <3>1
    <3> QED BY <2>6, <3>2 DEF e
  <2> QED BY <2>1, <2>3, <2>4, <2>5, <2>6
<1>6. CASE q - k = 0
  BY <1>3, <1>4, <1>6 DEF m, d
<1>7. CASE q - k = 1
  BY <1>5, <1>7 DEF m, d
<1> QED BY <1>5, <1>6, <1>7

\* The turns of the second round are a share of the interval apart, and so are
\* the last and the first.
LEMMA SharesApart ==
  ASSUME NEW w \in Nat, NEW n \in Nat \ {0}, NEW c \in Nat, NEW d \in Nat, d < c, c < n
  PROVE  (w * c) \div n - (w * d) \div n \in (w \div n)..(w - w \div n)
<1> DEFINE x == w * c
           y == w * d
           qx == x \div n
           qy == y \div n
           s == w \div n
<1>1. /\ x \in Nat /\ y \in Nat /\ x >= y + w /\ x <= w * n - w
  <2>1. x = y + w + w * (c - d - 1) /\ w * (c - d - 1) \in Nat
    OBVIOUS
  <2>2. w * n = x + w + w * (n - c - 1) /\ w * (n - c - 1) \in Nat
    OBVIOUS
  <2> QED BY <2>1, <2>2
<1> HIDE DEF x, y
<1>2. /\ qx \in Nat /\ n * qx <= x /\ x < n * qx + n
      /\ qy \in Nat /\ n * qy <= y /\ y < n * qy + n
      /\ s \in Nat /\ n * s <= w /\ w < n * s + n
  BY <1>1
<1> HIDE DEF qx, qy, s
<1>3. qx - qy >= s
  <2>1. SUFFICES ASSUME qx - qy <= s - 1 PROVE FALSE
    BY <1>2
  <2>2. n * s = n * (qx - qy) + n + n * (s - 1 - (qx - qy)) /\ n * (s - 1 - (qx - qy)) \in Nat
    BY <1>2, <2>1
  <2>3. n * (qx - qy) = n * qx - n * qy
    BY <1>2
  <2> QED BY <1>1, <1>2, <2>2, <2>3
<1>4. qx - qy <= w - s
  <2>1. SUFFICES ASSUME qx >= w - s + 1 PROVE FALSE
    BY <1>2
  <2>2. n * qx = n * (w - s) + n + n * (qx - (w - s) - 1) /\ n * (qx - (w - s) - 1) \in Nat
    BY <1>2, <2>1
  <2>3. n * (w - s) = w * n - n * s
    BY <1>2
  <2> QED BY <1>1, <1>2, <2>2, <2>3
<1> QED BY <1>2, <1>3, <1>4 DEF qx, qy, s, x, y

\* Of two accounts one is listed before the other.
LEMMA ListedApart ==
  ASSUME TypeOK, NEW p \in Names, NEW a \in accts[p], NEW b \in accts[p], a # b
  PROVE  /\ Place(p, a) \in Nat /\ Place(p, b) \in Nat /\ Place(p, a) # Place(p, b)
         /\ Place(p, b) < Place(p, a) => Cardinality(Earlier(p, b)) < Cardinality(Earlier(p, a))
<1>1. DOMAIN Listed[p] \subseteq Nat
  BY PoolsAssumption, LenProperties
<1>2. \A c \in accts[p] : Place(p, c) \in DOMAIN Listed[p] /\ Listed[p][Place(p, c)] = c
  <2>1. SUFFICES ASSUME NEW c \in accts[p] PROVE Place(p, c) \in DOMAIN Listed[p] /\ Listed[p][Place(p, c)] = c
    OBVIOUS
  <2>2. PICK i \in DOMAIN Listed[p] : Listed[p][i] = c
    BY DEF TypeOK, Range
  <2> QED BY <2>2 DEF Place
<1>3. Place(p, a) \in Nat /\ Place(p, b) \in Nat /\ Place(p, a) # Place(p, b)
  BY <1>1, <1>2
<1>4. ASSUME Place(p, b) < Place(p, a)
      PROVE  Cardinality(Earlier(p, b)) < Cardinality(Earlier(p, a))
  <2>1. b \notin Earlier(p, b) /\ Earlier(p, b) \cup {b} \in SUBSET Earlier(p, a)
    BY <1>1, <1>2, <1>3, <1>4 DEF Earlier
  <2>2. /\ IsFiniteSet(Earlier(p, a)) /\ IsFiniteSet(Earlier(p, b))
        /\ Cardinality(Earlier(p, a)) \in Nat /\ Cardinality(Earlier(p, b)) \in Nat
    BY Counted
  <2>3. Cardinality(Earlier(p, b) \cup {b}) = Cardinality(Earlier(p, b)) + 1
    BY <2>1, <2>2, FS_AddElement
  <2>4. Cardinality(Earlier(p, b) \cup {b}) <= Cardinality(Earlier(p, a))
    BY <2>1, <2>2, FS_Subset
  <2> QED BY <2>2, <2>3, <2>4
<1> QED BY <1>3, <1>4

Share(p) == Floor(secs[p]) \div Cardinality(accts[p])

\* All accounts of the pool are booked, and any two of them are apart.
AllSpread(p) ==
    /\ DOMAIN seen[p].due = accts[p]
    /\ \A a, b \in accts[p] : a # b => Apart(Floor(secs[p]), Share(p), seen[p].due[a], seen[p].due[b])

TurnsSpread ==
    \A p \in Names :
       /\ ~seen[p].on => DOMAIN seen[p].due = {}
       /\ past.steady[p] => secs[p] # 0 /\ seen[p].on /\ AllSpread(p)

LEMMA ShareTyped ==
  ASSUME TypeOK, NEW p \in Names, accts[p] # {}
  PROVE  /\ Floor(secs[p]) \in Nat \ {0} /\ now \in Nat
         /\ Cardinality(accts[p]) \in Nat \ {0} /\ Share(p) \in Nat
<1>1. secs[p] \in Nat /\ now \in Nat
  BY SettingsAssumption, BoundsAssumption DEF TypeOK
<1>2. Floor(secs[p]) \in Nat /\ Floor(secs[p]) > 0
  BY <1>1, FloorType
<1>3. Cardinality(accts[p]) \in Nat \ {0}
  BY Counted
<1> HIDE DEF Floor
<1> DEFINE w == Floor(secs[p])
           n == Cardinality(accts[p])
<1>4. w \in Nat /\ n \in Nat \ {0} /\ Share(p) = w \div n
  BY <1>2, <1>3 DEF Share
<1> HIDE DEF w, n
<1>5. Share(p) \in Nat
  BY <1>4
<1> QED BY <1>1, <1>2, <1>3, <1>5

\* The first time that a pool is looked at, its accounts are spread.
LEMMA FirstSpread ==
  ASSUME TypeOK, NEW p \in Names, NEW a \in accts[p], NEW b \in accts[p], a # b
  PROVE  Apart(Floor(secs[p]), Share(p), SpreadOut(p, a), SpreadOut(p, b))
<1> DEFINE w == Floor(secs[p])
           n == Cardinality(accts[p])
           qa == (w * Cardinality(Earlier(p, a))) \div n
           qb == (w * Cardinality(Earlier(p, b))) \div n
           s == w \div n
<1>1. w \in Nat /\ w > 0 /\ now \in Nat /\ n \in Nat \ {0}
  BY ShareTyped
<1>2. /\ Cardinality(Earlier(p, a)) \in Nat /\ Cardinality(Earlier(p, b)) \in Nat
      /\ Cardinality(Earlier(p, a)) < n /\ Cardinality(Earlier(p, b)) < n
  BY Counted
<1>3. qa \in 0..w /\ qb \in 0..w
  <2> DEFINE c == Cardinality(Earlier(p, a))
             d == Cardinality(Earlier(p, b))
  <2>1. c \in Nat /\ d \in Nat /\ c <= n /\ d <= n
    BY <1>1, <1>2
  <2> HIDE DEF c, d, w, n
  <2>2. (w * c) \div n \in 0..w /\ (w * d) \div n \in 0..w
    BY <1>1, <2>1, ShareBound
  <2> QED BY <2>2 DEF c, d
<1>4. /\ SpreadOut(p, a) = now + w + qa /\ SpreadOut(p, b) = now + w + qb
      /\ Share(p) = s /\ s \in Nat
  BY ShareTyped DEF SpreadOut, Share
<1>5. CASE Place(p, b) < Place(p, a)
  <2>1. qa - qb \in s..(w - s)
    BY <1>1, <1>2, <1>5, ListedApart, SharesApart
  <2> HIDE DEF w, n, qa, qb, s
  <2>2. SpreadOut(p, a) = SpreadOut(p, b) + 0 * w + (qa - qb)
    BY <1>1, <1>3, <1>4
  <2>3. Apart(w, s, SpreadOut(p, a), SpreadOut(p, b))
    BY <2>1, <2>2 DEF Apart
  <2> QED BY <1>4, <2>3 DEF w
<1>6. CASE Place(p, a) < Place(p, b)
  <2>1. qb - qa \in s..(w - s)
    BY <1>1, <1>2, <1>6, ListedApart, SharesApart
  <2> HIDE DEF w, n, qa, qb, s
  <2>2. SpreadOut(p, b) = SpreadOut(p, a) + 0 * w + (qb - qa)
    BY <1>1, <1>3, <1>4
  <2>3. Apart(w, s, SpreadOut(p, b), SpreadOut(p, a))
    BY <2>1, <2>2 DEF Apart
  <2>4. SpreadOut(p, a) \in Int /\ SpreadOut(p, b) \in Int
    BY <1>1, <1>3, <1>4
  <2> QED BY <1>1, <1>3, <1>4, <2>3, <2>4, ApartTurns DEF w
<1> QED BY <1>5, <1>6, ListedApart

\* An account that is due, and has not slipped a whole interval, keeps its place
\* on the clock.
LEMMA LaterSpread ==
  ASSUME TypeOK, NEW p \in Names, NEW again, AllSpread(p), Standing(p, again) = accts[p],
         \A a \in accts[p] : seen[p].due[a] + Floor(secs[p]) > now,
         NEW a \in accts[p], NEW b \in accts[p], a # b
  PROVE  LET next(c) == IF DueNow(p, c, again) THEN Booked(p, c, again) ELSE seen[p].due[c]
         IN  Apart(Floor(secs[p]), Share(p), next(a), next(b))
<1> DEFINE next(c) == IF DueNow(p, c, again) THEN Booked(p, c, again) ELSE seen[p].due[c]
           w == Floor(secs[p])
           x == seen[p].due[a]
           y == seen[p].due[b]
<1>1. w \in Nat /\ w > 0 /\ Share(p) \in Nat
  BY ShareTyped
<1>2. x \in Nat /\ y \in Nat /\ Apart(w, Share(p), x, y)
  BY DEF AllSpread, TypeOK, OfSome
<1>3. next(a) \in {x, x + w} /\ next(b) \in {y, y + w}
  BY DEF Booked
<1> HIDE DEF next, w, x, y
<1>4. Apart(w, Share(p), next(a), next(b))
  BY <1>1, <1>2, <1>3, ApartTurns
<1> QED BY <1>4 DEF next, w

\* What a look does to the spread.
LEMMA LookSpreads ==
  ASSUME TypeOK, TurnsSpread, NEW k \in 1..Len(Pools), Look(k)
  PROVE  LET p == Pools[k]
         IN  /\ ~seen'[p].on => DOMAIN seen'[p].due = {}
             /\ past'.steady[p] => secs'[p] # 0 /\ seen'[p].on /\ AllSpread(p)'
<1> DEFINE p == Pools[k]
           again == recheck[p]
<1>1. p \in Names /\ seen'[p] = SeenAfter(p, again) /\ UNCHANGED <<secs, accts>>
  BY LookDoes DEF Look
<1>2. past'.steady[p] = (IF LeftAlone(p) THEN past.steady[p] ELSE KeepsTurns(p, again))
  BY LookRemembers
<1>3. CASE secs[p] = 0
  <2>1. seen'[p] = NotSeen /\ ~past'.steady[p]
    BY <1>1, <1>2, <1>3 DEF SeenAfter, LeftAlone, TurnsSpread
  <2> QED BY <2>1 DEF NotSeen
<1>4. CASE secs[p] # 0 /\ BackingOff(p)
  <2>1. seen'[p] = seen[p] /\ past'.steady[p] = past.steady[p]
    BY <1>1, <1>2, <1>4 DEF SeenAfter, LeftAlone
  <2>2. AllSpread(p) => AllSpread(p)'
    BY <1>1, <2>1 DEF AllSpread, Share
  <2> QED BY <1>1, <2>1, <2>2 DEF TurnsSpread
<1>5. CASE secs[p] # 0 /\ ~BackingOff(p)
  <2> DEFINE next(c) == IF DueNow(p, c, again) THEN Booked(p, c, again) ELSE seen[p].due[c]
             due == [a \in accts[p] |-> next(a)]
  <2>1. seen'[p] = [on |-> TRUE, notBefore |-> seen[p].notBefore, due |-> due]
    BY <1>1, <1>5 DEF SeenAfter
  <2>2. seen'[p].on /\ seen'[p].due = due /\ DOMAIN due = accts[p] /\ \A a \in accts[p] : due[a] = next(a)
    BY <2>1
  <2>3. past'.steady[p] => KeepsTurns(p, again)
    BY <1>2, <1>5 DEF LeftAlone
  <2>4. SUFFICES ASSUME KeepsTurns(p, again), NEW a \in accts[p], NEW b \in accts[p], a # b
                 PROVE  Apart(Floor(secs[p]), Share(p), next(a), next(b))
    <3> HIDE DEF due, next
    <3> QED BY <1>1, <1>5, <2>2, <2>3 DEF AllSpread, Share
  <2>5. CASE seen[p].on
    <3>1. AllSpread(p) /\ Standing(p, again) = accts[p] /\ \A c \in accts[p] : seen[p].due[c] + Floor(secs[p]) > now
      BY <1>1, <2>4, <2>5 DEF KeepsTurns, TurnsSpread
    <3> QED BY <1>1, <2>4, <3>1, LaterSpread
  <2>6. CASE ~seen[p].on
    <3>1. Standing(p, again) = {}
      BY <1>1, <2>6 DEF TurnsSpread, Standing
    <3>2. next(a) = SpreadOut(p, a) /\ next(b) = SpreadOut(p, b)
      BY <2>6, <3>1 DEF DueNow, Booked
    <3> QED BY <1>1, <2>4, <3>2, FirstSpread
  <2> QED BY <2>5, <2>6
<1> QED BY <1>3, <1>4, <1>5

LEMMA SpreadStep ==
  ASSUME TypeOK, Orderly, TurnsSpread, [Next]_vars
  PROVE  TurnsSpread'
<1>1. ASSUME NEW k \in 1..Len(Pools), Look(k) PROVE TurnsSpread'
  <2> DEFINE p == Pools[k]
  <2>1. p \in Names /\ UNCHANGED <<secs, accts>> /\ \A q \in Names \ {p} : seen'[q] = seen[q]
    BY <1>1, LookDoes DEF Look
  <2>2. \A q \in Names \ {p} : past'.steady[q] = past.steady[q]
    BY <1>1, LookRemembers
  <2>3. /\ ~seen'[p].on => DOMAIN seen'[p].due = {}
        /\ past'.steady[p] => secs'[p] # 0 /\ seen'[p].on /\ AllSpread(p)'
    BY <1>1, LookSpreads
  <2>4. \A q \in Names \ {p} : AllSpread(q) => AllSpread(q)'
    BY <2>1 DEF AllSpread, Share
  <2> QED BY <2>1, <2>2, <2>3, <2>4 DEF TurnsSpread
<1>2. ASSUME \A q \in Names : /\ seen'[q].on = seen[q].on /\ seen'[q].due = seen[q].due
                              /\ past'.steady[q] => past.steady[q] /\ secs'[q] = secs[q] /\ accts'[q] = accts[q]
      PROVE  TurnsSpread'
  BY <1>2 DEF TurnsSpread, AllSpread, Share
<1>3. CASE RunEnds
  <2>1. \A q \in Names : seen'[q].on = seen[q].on /\ seen'[q].due = seen[q].due
    BY <1>3, EndDoes
  <2> QED BY <1>2, <1>3, <2>1, EndDoes
<1>4. CASE Edit
  BY <1>2, <1>4, EditDoes
<1>5. CASE Advance
  BY <1>2, <1>5 DEF Advance
<1>6. CASE Elsewhere
  BY <1>2, <1>6, ElsewhereStays DEF ScheduleStays
<1> QED BY <1>1, <1>3, <1>4, <1>5, <1>6, Steps

\* While the accounts of a pool only take turns, any two turns are a fair share
\* of the interval apart.
THEOREM TurnsStaySpread == Spec => []TurnsAreSpread
<1>1. Init => TurnsSpread
  BY DEF Init, TurnsSpread, NotSeen
<1>2. ASSUME TypeOK, TurnsSpread PROVE TurnsAreSpread
  <2>1. SUFFICES ASSUME NEW p \in Names, past.steady[p],
                        NEW a \in DOMAIN seen[p].due, NEW b \in DOMAIN seen[p].due,
                        a # b, seen[p].due[a] >= seen[p].due[b]
                 PROVE  (seen[p].due[a] - seen[p].due[b]) % Floor(secs[p])
                           \in Share(p)..(Floor(secs[p]) - Share(p))
    BY DEF TurnsAreSpread, Share
  <2> DEFINE w == Floor(secs[p])
             x == seen[p].due[a]
             y == seen[p].due[b]
  <2>2. a \in accts[p] /\ b \in accts[p] /\ Apart(w, Share(p), x, y)
    BY <1>2, <2>1 DEF TurnsSpread, AllSpread
  <2>3. w \in Nat \ {0} /\ Share(p) \in Nat /\ x \in Nat /\ y \in Nat /\ x >= y
    BY <1>2, <2>1, <2>2, ShareTyped DEF TypeOK, OfSome
  <2> HIDE DEF w, x, y
  <2>4. (x - y) % w \in Share(p)..(w - Share(p))
    BY <2>2, <2>3, ApartMod
  <2> QED BY <2>4 DEF w, x, y
<1> QED BY <1>1, <1>2, SpreadStep, InOrder, PTL DEF Spec
============================================================================
