------------------------------- MODULE Prober -------------------------------
(***************************************************************************)
(* The background quota probe (src/src/prober.rs): a loop that claims the  *)
(* accounts whose turn it is, pool by pool, and runs them under one lock;  *)
(* the operator's manual runs, which take the same lock; the usage         *)
(* endpoint's answers, which may push a pool's schedule out; and the       *)
(* reloads that replace credentials, intervals and accounts meanwhile.     *)
(*                                                                         *)
(* A unit of time is the longest a probe waits for its answer: the loop    *)
(* wakes at least once in every unit it is not running anything.           *)
(***************************************************************************)
EXTENDS Naturals, Sequences, FiniteSets, SequencesExt, FiniteSetsExt

CONSTANTS
    Pools,         \* The names of the pools, in display order.
    Listed,        \* The accounts of each pool, in the order of its config.
    Intervals,     \* The settings of quotaProbeSeconds; 0 is off.
    Starts,        \* Bound: the intervals (secs) and accounts (accts) the server starts with.
    MinInterval,   \* MIN_INTERVAL.
    MaxBackoff,    \* MAX_BACKOFF.
    ManualGap,     \* MANUAL_MIN_GAP.
    MaxNow,        \* Bound: how long a behaviour is followed.
    MaxEdits       \* Bound: how many reloads change something.

Names    == Range(Pools)
Accounts == UNION {Range(Listed[p]) : p \in Names}

NoPool   == 0

ASSUME BoundsAssumption == /\ MaxNow \in Nat /\ MaxEdits \in Nat
                           /\ {MinInterval, MaxBackoff, ManualGap} \subseteq Nat \ {0}

\* The default pool is always there, and an account is listed once: load gives
\* every entry an id of its own.
ASSUME PoolsAssumption ==
    /\ Pools \in Seq(Names) /\ Pools # <<>> /\ NoPool \notin Names
    /\ \A p \in Names : Listed[p] \in Seq(Range(Listed[p])) /\ IsInjective(Listed[p])

ASSUME SettingsAssumption ==
    /\ Intervals \subseteq Nat
    /\ \A s \in Starts : /\ s.secs \in [Names -> Intervals]
                          /\ s.accts \in [Names -> SUBSET Accounts]
                          /\ \A p \in Names : s.accts[p] \subseteq Range(Listed[p])

VARIABLES
    now,
    secs,        \* Each pool's interval, as the last reload set it.
    accts,       \* The OAuth accounts of each pool.
    recheck,     \* ProbeState::recheck: the accounts whose credential was replaced.
    seen,        \* Prober::seen: per pool on, notBefore and due.
    loop,        \* Prober::run: its pool (0 between ticks), what it claimed, and whether it
                 \* has ticked with no reload after.
    manual,      \* probe_all of the operator: how many tasks have not reached the lock, and the
                 \* pool of the one that has it (0 when none has).
    lastManual,  \* When one was last started; Never before the first.
    lock,        \* Prober::running: "free", "loop" or "manual".
    waiters,     \* Who waits for it, in order.
    run,         \* probe_pool: how far each account is, and whether a 429 has come.
    probing,     \* ProbeState::running of each pool, as the status view shows it.
    edits,       \* Bound: the reloads so far.
    past         \* History, for the properties only; see below.

vars == <<now, secs, accts, recheck, seen, loop, manual, lastManual, lock, waiters, run, probing, edits, past>>

(***************************************************************************)
(* "past" is what the properties remember: per pool when the back-off of   *)
(* its last 429 ends (until), the longest interval since it came on        *)
(* (longest), and whether its accounts have only taken turns since then    *)
(* (steady); of the accounts those whose new credential has not been       *)
(* probed yet (fresh), and those the loop looked at while it could not     *)
(* probe them, or that a 429 made step aside (missed); and whether it has  *)
(* claimed anybody it should have left alone (early).                      *)
(***************************************************************************)

Never     == MaxNow + 1   \* No time the model can reach.
NotSeen   == [on |-> FALSE, notBefore |-> 0, due |-> [a \in {} |-> 0]]
NoRun     == [pool |-> NoPool, at |-> [a \in {} |-> "done"], secs |-> 0, halted |-> FALSE, by |-> "free"]
LoopIdle  == [pool |-> 0, claim |-> {}, ticked |-> TRUE]
NoManual  == [spawned |-> 0, pool |-> 0]

Floor(s) == Max({s, MinInterval})

\* Manager::oauth_accounts are the accounts of accts[p], in the config's order.
Place(p, a)   == CHOOSE i \in DOMAIN Listed[p] : Listed[p][i] = a
Earlier(p, a) == {b \in accts[p] : Place(p, b) < Place(p, a)}

----------------------------------------------------------------------------
(* The schedule. *)

\* The bookings that stand: of accounts the pool still has, with the
\* credential they were booked with.
Standing(p, again) == {a \in DOMAIN seen[p].due : a \in accts[p] \ again}

\* The second round is spread over the interval.
SpreadOut(p, a) ==
    now + Floor(secs[p]) + (Floor(secs[p]) * Cardinality(Earlier(p, a))) \div Cardinality(accts[p])

\* Mutant: every turn is an interval on from the last.
BookedInArrears(p, a, again) ==
    IF a \in Standing(p, again) THEN seen[p].due[a] + Floor(secs[p])
    ELSE IF seen[p].on THEN now + Floor(secs[p])
    ELSE SpreadOut(p, a)

\* Mutant: the second round is not spread out.
BookedTogether(p, a, again) ==
    IF a \in Standing(p, again) /\ seen[p].due[a] + Floor(secs[p]) > now THEN seen[p].due[a] + Floor(secs[p])
    ELSE now + Floor(secs[p])

\* The turn of an account after this one: it keeps its phase unless it has
\* slipped a whole interval.
Booked(p, a, again) ==
    IF a \in Standing(p, again)
    THEN IF seen[p].due[a] + Floor(secs[p]) > now THEN seen[p].due[a] + Floor(secs[p])
                                                   ELSE now + Floor(secs[p])
    ELSE IF seen[p].on THEN now + Floor(secs[p])
    ELSE SpreadOut(p, a)

\* Mutant: a new credential does not bring the turn forward.
DueWhenBooked(p, a, again) == a \notin Standing(p, {}) \/ seen[p].due[a] <= now

DueNow(p, a, again) == a \notin Standing(p, again) \/ seen[p].due[a] <= now

\* Mutant: the back-off is forgotten.
NeverBackingOff(p) == FALSE

BackingOff(p) == now < seen[p].notBefore

LeftAlone(p) == secs[p] = 0 \/ BackingOff(p)

\* claim_due, with the accounts whose credential was replaced: who is to be
\* probed, and the schedule after it.
Picked(p, again) == IF LeftAlone(p) THEN {} ELSE {a \in accts[p] : DueNow(p, a, again)}

SeenAfter(p, again) ==
    IF secs[p] = 0 THEN NotSeen
    ELSE IF BackingOff(p) THEN seen[p]
    ELSE [on |-> TRUE, notBefore |-> seen[p].notBefore,
          due |-> [a \in accts[p] |-> IF DueNow(p, a, again) THEN Booked(p, a, again) ELSE seen[p].due[a]]]

----------------------------------------------------------------------------
(* The loop. *)

\* An account keeps its turn if it is only moved by whole intervals.
KeepsTurns(p, again) ==
    /\ ~seen[p].on \/ past.steady[p]
    /\ seen[p].on => /\ Standing(p, again) = accts[p]
                     /\ \A a \in accts[p] : seen[p].due[a] + Floor(secs[p]) > now

\* A tick wakes up, or goes on to its next pool: linked accounts are read
\* again, the replaced credentials taken, and the accounts that are due
\* claimed; with nobody due the next pool's turn comes.
Look(k) ==
    LET p == Pools[k]
        picked == Picked(p, recheck[p])
        ticked == loop.pool = 0 \/ loop.ticked
    IN  /\ recheck' = [recheck EXCEPT ![p] = {}]
        /\ seen' = [seen EXCEPT ![p] = SeenAfter(p, recheck[p])]
        /\ loop' = [pool |-> IF picked = {} /\ k = Len(Pools) THEN 0 ELSE k, claim |-> picked, ticked |-> ticked]
        /\ waiters' = IF picked # {} THEN Append(waiters, "loop") ELSE waiters
        /\ past' = [past EXCEPT
              !.missed = @ \cup (IF LeftAlone(p) THEN recheck[p] ELSE {}),
              !.longest[p] = IF secs[p] = 0 THEN 0 ELSE Max({@, Floor(secs[p])}),
              !.steady[p] = IF LeftAlone(p) THEN @ ELSE KeepsTurns(p, recheck[p]),
              !.until[p] = IF secs[p] = 0 THEN 0 ELSE @,
              !.early = @ \/ (picked # {} /\ now < past.until[p])]
        /\ UNCHANGED <<now, secs, accts, manual, lastManual, lock, run, probing, edits>>

\* The sleep of TICK is over, or a reload has rung.
Tick == /\ loop.pool = 0 /\ ~loop.ticked
        /\ Look(1)

NextPool == /\ loop.pool # 0 /\ loop.claim = {}
            /\ Look(loop.pool + 1)

----------------------------------------------------------------------------
(* A run of one pool, by whoever holds the lock. *)

\* probe_run_started; the accounts are probed one after the other's start.
RunOf(p, who, by) ==
    [pool |-> p, at |-> [a \in who |-> "waiting"], secs |-> secs[p], halted |-> FALSE, by |-> by]

RunStarts(p, who, by) ==
    /\ run' = RunOf(p, who, by)
    /\ probing' = [probing EXCEPT ![p] = TRUE]

LoopRuns ==
    /\ lock = "free" /\ waiters # <<>> /\ Head(waiters) = "loop"
    /\ lock' = "loop"
    /\ waiters' = Tail(waiters)
    /\ RunStarts(Pools[loop.pool], loop.claim, "loop")
    /\ UNCHANGED <<now, secs, accts, recheck, seen, loop, manual, lastManual, edits, past>>

\* probe_all, from its first pool.  (The mutant does not wait for its turn.)
ManualBarges ==
    /\ waiters # <<>> /\ Head(waiters) = "manual"
    /\ lock' = "manual"
    /\ waiters' = Tail(waiters)
    /\ manual' = [manual EXCEPT !.pool = 1]
    /\ RunStarts(Pools[1], accts[Pools[1]], "manual")
    /\ UNCHANGED <<now, secs, accts, recheck, seen, loop, lastManual, edits, past>>

ManualRuns ==
    /\ lock = "free" /\ waiters # <<>> /\ Head(waiters) = "manual"
    /\ lock' = "manual"
    /\ waiters' = Tail(waiters)
    /\ manual' = [manual EXCEPT !.pool = 1]
    /\ RunStarts(Pools[1], accts[Pools[1]], "manual")
    /\ UNCHANGED <<now, secs, accts, recheck, seen, loop, lastManual, edits, past>>

\* probe_one after its stagger: it steps aside when the run has drawn a 429,
\* and otherwise makes its token fresh and asks.
StartProbe(a) ==
    /\ run # NoRun /\ a \in DOMAIN run.at
    /\ run.at[a] = "waiting"
    /\ \A b \in DOMAIN run.at : Place(run.pool, b) < Place(run.pool, a) => run.at[b] # "waiting"
    /\ run' = [run EXCEPT !.at[a] = IF run.halted \/ a \notin accts[run.pool] THEN "done" ELSE "asked"]
    /\ past' = IF run'.at[a] = "done" THEN [past EXCEPT !.missed = @ \cup ({a} \cap past.fresh)]
               ELSE [past EXCEPT !.fresh = @ \ {a}, !.missed = @ \ {a}]
    /\ UNCHANGED <<now, secs, accts, recheck, seen, loop, manual, lastManual, lock, waiters, probing, edits>>

\* The usage endpoint gives its last answer (a 401 is asked again once, with a
\* refreshed token), or none in time; it may be a 429.
Answer(a) ==
    /\ run # NoRun /\ a \in DOMAIN run.at
    /\ run.at[a] = "asked"
    /\ \E limited \in BOOLEAN : run' = [run EXCEPT !.at[a] = "done", !.halted = @ \/ limited]
    /\ UNCHANGED <<now, secs, accts, recheck, seen, loop, manual, lastManual, lock, waiters, probing, edits, past>>

\* Mutant: the cap is forgotten.
HeldOffUncapped(s) == now + 2 * Floor(s)

\* back_off: for twice the interval the run began with.
HeldOff(s) == now + Min({2 * Floor(s), MaxBackoff})

\* The run is over, and the lock free unless a manual run has more pools.
RunEnds ==
    /\ run # NoRun /\ \A a \in DOMAIN run.at : run.at[a] = "done"
    /\ LET p == run.pool
           backs == run.halted /\ run.secs > 0
           more == run.by = "manual" /\ manual.pool < Len(Pools)
           q == Pools[manual.pool + 1]
           ended == [probing EXCEPT ![p] = FALSE]
       IN  /\ seen' = IF backs THEN [seen EXCEPT ![p].notBefore = HeldOff(run.secs)] ELSE seen
           /\ past' = IF backs THEN [past EXCEPT !.until[p] = HeldOff(run.secs)] ELSE past
           /\ IF more
              THEN /\ run' = RunOf(q, accts[q], "manual")
                   /\ probing' = [ended EXCEPT ![q] = TRUE]
                   /\ manual' = [manual EXCEPT !.pool = @ + 1]
                   /\ UNCHANGED <<lock, loop>>
              ELSE /\ run' = NoRun
                   /\ probing' = ended
                   /\ lock' = "free"
                   /\ manual' = IF run.by = "manual" THEN [manual EXCEPT !.pool = 0] ELSE manual
                   /\ loop' = IF run.by = "manual" THEN loop
                              ELSE [loop EXCEPT !.pool = IF @ = Len(Pools) THEN 0 ELSE @, !.claim = {}]
    /\ UNCHANGED <<now, secs, accts, recheck, lastManual, waiters, edits>>

----------------------------------------------------------------------------
(* The operator, and time. *)

\* request_manual: not moments after the last one, nor while a run is under way.
RequestManual ==
    /\ lastManual = Never \/ now >= lastManual + ManualGap
    /\ lock = "free" /\ waiters = <<>>
    /\ lastManual' = now
    /\ manual' = [manual EXCEPT !.spawned = @ + 1]
    /\ UNCHANGED <<now, secs, accts, recheck, seen, loop, lock, waiters, run, probing, edits, past>>

\* The task it spawned reaches the lock.
ManualWaits ==
    /\ manual.spawned > 0
    /\ manual' = [manual EXCEPT !.spawned = @ - 1]
    /\ waiters' = Append(waiters, "manual")
    /\ UNCHANGED <<now, secs, accts, recheck, seen, loop, lastManual, lock, run, probing, edits, past>>

\* Every reload rings the loop.
Reloaded == /\ edits < MaxEdits
            /\ edits' = edits + 1
            /\ loop' = [loop EXCEPT !.ticked = FALSE]
            /\ UNCHANGED <<now, manual, lastManual, lock, waiters, run, probing, seen>>

SetInterval(p, s) ==
    /\ s # secs[p]
    /\ secs' = [secs EXCEPT ![p] = s]
    /\ past' = [past EXCEPT !.steady[p] = FALSE]
    /\ Reloaded
    /\ UNCHANGED <<accts, recheck>>

\* Manager::sync_config takes another credential.
Relogin(p, a) ==
    /\ a \in accts[p]
    /\ recheck' = [recheck EXCEPT ![p] = @ \cup {a}]
    /\ past' = [past EXCEPT !.fresh = @ \cup {a}, !.missed = @ \ {a}]
    /\ Reloaded
    /\ UNCHANGED <<secs, accts>>

\* An account is logged in, under a new id, or removed.  An entry put back
\* before the loop has noticed keeps its turn: that is no login.
Join(p, a) ==
    /\ a \in Range(Listed[p]) \ accts[p]
    /\ accts' = [accts EXCEPT ![p] = @ \cup {a}]
    /\ LET new == {a} \ DOMAIN seen[p].due
       IN  past' = [past EXCEPT !.steady[p] = FALSE, !.fresh = @ \cup new, !.missed = @ \ new]
    /\ Reloaded
    /\ UNCHANGED <<secs, recheck>>

Leave(p, a) ==
    /\ a \in accts[p]
    /\ accts' = [accts EXCEPT ![p] = @ \ {a}]
    /\ past' = [past EXCEPT !.steady[p] = FALSE, !.fresh = @ \ {a}, !.missed = @ \ {a}]
    /\ Reloaded
    /\ UNCHANGED <<secs, recheck>>

\* Time does not pass while something could be done at once.
Advance ==
    /\ now < MaxNow
    /\ manual.spawned = 0
    /\ loop.pool = 0 => loop.ticked
    /\ loop.pool # 0 => loop.claim # {}
    /\ lock = "free" => waiters = <<>>
    /\ now' = now + 1
    /\ loop' = [loop EXCEPT !.ticked = FALSE]
    /\ UNCHANGED <<secs, accts, recheck, seen, manual, lastManual, lock, waiters, run, probing, edits, past>>

\* The behaviours end here.
TheEnd == /\ now = MaxNow /\ loop = LoopIdle /\ run = NoRun /\ manual = NoManual
          /\ UNCHANGED vars

----------------------------------------------------------------------------
Init ==
    /\ now = 0
    /\ \E s \in Starts : secs = s.secs /\ accts = s.accts
    /\ recheck = [p \in Names |-> {}]
    /\ seen = [p \in Names |-> NotSeen]
    /\ loop = [LoopIdle EXCEPT !.ticked = FALSE]
    /\ manual = NoManual /\ lastManual = Never
    /\ lock = "free" /\ waiters = <<>> /\ run = NoRun
    /\ probing = [p \in Names |-> FALSE]
    /\ edits = 0
    /\ past = [until |-> [p \in Names |-> 0], longest |-> [p \in Names |-> 0],
               steady |-> [p \in Names |-> FALSE], fresh |-> {}, missed |-> {}, early |-> FALSE]

Next == \/ Tick \/ NextPool \/ LoopRuns \/ ManualRuns \/ RunEnds
        \/ \E a \in Accounts : StartProbe(a) \/ Answer(a)
        \/ RequestManual \/ ManualWaits
        \/ \E p \in Names : \/ \E s \in Intervals : SetInterval(p, s)
                             \/ \E a \in Range(Listed[p]) : Relogin(p, a) \/ Join(p, a) \/ Leave(p, a)
        \/ Advance \/ TheEnd

Spec == Init /\ [][Next]_vars

----------------------------------------------------------------------------
(* Properties. *)

Turns == {"waiting", "asked", "done"}

\* Something is kept of each of some accounts of a pool.
OfSome(p, f, S) == DOMAIN f \subseteq Range(Listed[p]) /\ f \in [DOMAIN f -> S]

TypeOK ==
    /\ now \in 0..MaxNow
    /\ secs \in [Names -> Intervals]
    /\ accts \in [Names -> SUBSET Accounts] /\ recheck \in [Names -> SUBSET Accounts]
    /\ \A p \in Names :
         /\ accts[p] \cup recheck[p] \subseteq Range(Listed[p])
         /\ OfSome(p, seen[p].due, Nat)
         /\ seen[p] \in [on : BOOLEAN, notBefore : 0..(MaxNow + MaxBackoff), due : {seen[p].due}]
    /\ DOMAIN seen = Names
    /\ loop \in [pool : 0..Len(Pools), claim : SUBSET Accounts, ticked : BOOLEAN]
    /\ manual \in [spawned : Nat, pool : 0..Len(Pools)] /\ lastManual \in 0..MaxNow \cup {Never}
    /\ lock \in {"free", "loop", "manual"} /\ waiters \in Seq({"loop", "manual"})
    /\ run # NoRun => /\ run \in [pool : Names, at : {run.at}, secs : Intervals,
                                  halted : BOOLEAN, by : {"loop", "manual"}]
                      /\ OfSome(run.pool, run.at, Turns)
    /\ probing \in [Names -> BOOLEAN] /\ edits \in 0..MaxEdits
    /\ past \in [until : [Names -> Nat], longest : [Names -> Nat], steady : [Names -> BOOLEAN],
                 fresh : SUBSET Accounts, missed : SUBSET Accounts, early : BOOLEAN]

\* Between two ticks nobody is overdue and nobody forgotten: every account of a
\* pool that is on and not backing off is booked for a time to come, at most
\* twice the longest interval the pool has had away; so a long back-off is not
\* followed by a burst of missed turns.
NobodyForgotten ==
    loop = LoopIdle =>
       \A p \in Names : ~LeftAlone(p) =>
          \A a \in accts[p] : /\ a \in DOMAIN seen[p].due
                              /\ seen[p].due[a] \in (now + 1)..(now + 2 * past.longest[p])

\* While the accounts of a pool only take turns, their readings are of
\* different ages: any two turns are a fair share of the interval apart,
\* whichever way round.
TurnsAreSpread ==
    \A p \in Names : past.steady[p] /\ Cardinality(accts[p]) > 1 =>
       LET wait  == Floor(secs[p])
           share == wait \div Cardinality(accts[p])
       IN  \A a, b \in DOMAIN seen[p].due : a # b /\ seen[p].due[a] >= seen[p].due[b] =>
              (seen[p].due[a] - seen[p].due[b]) % wait \in share..(wait - share)

\* An account whose credential was replaced, or that was just logged in, is
\* probed by the next tick, unless its pool was off, backing off or drew a 429
\* then.
FreshLoginIsProbed ==
    loop = LoopIdle => past.fresh \subseteq past.missed \cup UNION {accts[p] : p \in {q \in Names : LeftAlone(q)}}

\* After a 429 the schedule leaves the pool alone for twice the interval of that
\* run, cap included, unless probing is turned off in between: no account is
\* probed that was claimed after it.
BackOffIsKept == ~past.early

\* The runs never overlap, and the status view tells which pool is probed: a
\* second run would ask the usage endpoint about accounts the first one is at.
\* However often the operator asks, one manual run is under way or waiting.
OneRunAtATime ==
    /\ run # NoRun <=> lock # "free"
    /\ run # NoRun => run.by = lock /\ (lock = "manual" <=> manual.pool # 0)
    /\ \A p \in Names : probing[p] <=> run.pool = p
    /\ IsInjective(waiters)
    /\ "manual" \in Range(waiters) => manual.spawned = 0 /\ manual.pool = 0
    /\ manual.spawned + (IF manual.pool = 0 THEN 0 ELSE 1) <= 1
=============================================================================
