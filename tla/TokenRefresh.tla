--------------------------- MODULE TokenRefresh ---------------------------
(***************************************************************************)
(* How the server keeps the OAuth credential of ONE account usable:        *)
(* Manager::ensure_token_fresh, called by request handlers and by the      *)
(* quota prober, the detached write of a rotated pair to the config file,  *)
(* the reload that takes a re-login from that file, and the 401 handling   *)
(* of forward::attempt.  Accounts share nothing here but the file, which   *)
(* Config::update rewrites entry by entry under its locks.                 *)
(*                                                                         *)
(* An access/refresh pair is a natural number, in the order the provider   *)
(* granted them.  The provider gives every access token the same lifetime, *)
(* so the order of `expires_at` is the order of the grants, and the two    *)
(* predicates the code has on `expires_at` are the two watermarks          *)
(* expiringTo (is_expiring_soon) and expiredTo (e <= now).                 *)
(***************************************************************************)
EXTENDS Naturals, FiniteSets

CONSTANTS Requests,      \* request handlers: OnRefreshFail::MarkDead
          Probes,        \* quota probes: OnRefreshFail::Keep
          RefreshTries,  \* attempts inside one refresh_access_token call
          MaxPairs,      \* bound: pairs the provider grants in a behaviour
          MaxLogins,     \* bound: logins run by the operator
          MaxRevoked     \* bound: pairs the provider cuts off

ASSUME CallersDisjoint == Requests \cap Probes = {}
ASSUME BoundsAreNat == /\ RefreshTries \in Nat \ {0}
                       /\ MaxPairs \in Nat \ {0}
                       /\ MaxLogins \in Nat /\ MaxRevoked \in Nat

Callers == Requests \cup Probes
Pair    == 1 .. MaxPairs
None    == 0
Free    == "free"            \* nobody holds the account's refresh lock

ASSUME FreeIsNobody == Free \notin Callers

VARIABLES
  minted, spent, revoked,    \* provider: pairs granted, rotated out, cut off
  mem, status, dead, recent, \* Account: pair held, status, dead_refresh_token,
                             \* last_refresh_at younger than the forced floor
  disk, writers,             \* the config entry; spawn_blocking writes pending
  unwritten,                 \* history: pairs whose write did not reach the entry
  lock, call,                \* refresh_locks[id]; the callers
  snap,                      \* a reload's copy of the entry, between load and sync
  login,                     \* a pair `corrall login` has got but not yet written
  expiringTo, expiredTo,     \* time
  logins, unkept             \* history: logins run; pairs whose successor
                             \* the provider granted but we did not keep

provider == <<minted, spent, revoked>>
account  == <<mem, status, dead, recent>>
file     == <<disk, writers, unwritten>>
environment == <<snap, login, expiringTo, expiredTo, logins, unkept>>
vars     == <<provider, account, file, lock, call, environment>>

\* The states of a caller.  "send": the token is on its way to the upstream.
PC == {"idle", "check", "wait", "net", "granted", "persist", "return", "send"}
Refreshing == {"net", "granted", "persist"}
\* Where a handler is suspended, so that a client that hangs up drops it.
Suspended  == {"wait", "send"} \cup Refreshing

PairOrNone == {None} \cup Pair
CallState ==
  {x \in [pc : PC, force : BOOLEAN, rt : PairOrNone, before : PairOrNone,
          cred : PairOrNone, got : PairOrNone, tries : 0 .. RefreshTries - 1] :
     /\ x.pc \in {"wait"} \cup Refreshing => x.rt \in Pair
     /\ x.pc \in {"granted", "persist"} => x.got \in Pair}

Idle == [pc |-> "idle", force |-> FALSE, rt |-> None, before |-> None,
         cred |-> None, got |-> None, tries |-> 0]

TypeOK ==
  /\ minted \in Pair /\ spent \subseteq Pair /\ revoked \subseteq Pair
  /\ mem \in Pair /\ disk \in Pair /\ writers \subseteq Pair
  /\ unwritten \subseteq Pair
  /\ status \in {"Active", "Error"} /\ dead \in PairOrNone /\ recent \in BOOLEAN
  /\ lock \in {Free} \cup Callers /\ snap \in PairOrNone
  /\ login \in PairOrNone
  /\ call \in [Callers -> CallState]
  /\ expiringTo \in PairOrNone /\ expiredTo \in PairOrNone
  /\ logins \in 0 .. MaxLogins /\ unkept \subseteq Pair

Init ==
  /\ minted = 1 /\ spent = {} /\ revoked = {}
  /\ mem = 1 /\ status = "Active" /\ dead = None /\ recent = FALSE
  /\ disk = 1 /\ writers = {} /\ unwritten = {}
  /\ lock = Free /\ call = [c \in Callers |-> Idle] /\ snap = None /\ login = None
  /\ expiringTo = None /\ expiredTo = None
  /\ logins = 0 /\ unkept = {}

---------------------------------------------------------------------------
ExpiringSoon(p) == p <= expiringTo
Expired(p)      == p <= expiredTo

\* Mutant: a probe's failure counts like a request's.
KillsAlways(c) == c \in Callers

\* OnRefreshFail::kills, on the expiry the account has when it is asked.
Kills(c) == c \in Requests \/ Expired(mem)

MarkedError(c) == Kills(c) /\ status # "Error"

\* ensure_token_fresh before the lock: does this caller need a refresh?
Needs(c) ==
  /\ dead # mem
  /\ IF call[c].force THEN ~recent ELSE ExpiringSoon(mem)

\* ... and after it: has a peer refreshed while this caller waited?
StillNeeds(c) ==
  IF call[c].force THEN mem = call[c].rt /\ ~recent ELSE ExpiringSoon(mem)

Moves(c, to) == call' = [call EXCEPT ![c] = to]

\* ensure_token_fresh hands back whatever credential the account holds then.
\* A request sends it; a probe, and a request after a 401, look at it first.
Return(c) ==
  Moves(c, [pc |-> IF c \in Requests /\ ~call[c].force THEN "send" ELSE "return",
            force |-> call[c].force, rt |-> None, before |-> call[c].before,
            cred |-> mem, got |-> None, tries |-> 0])

---------------------------------------------------------------------------
\* One call of ensure_token_fresh.

\* A request is routed to the account (select keeps a copy of its
\* credential); a probe starts.
Begin(c) ==
  /\ call[c].pc = "idle"
  /\ c \in Requests => status = "Active"
  /\ Moves(c, [Idle EXCEPT !.pc = "check", !.before = mem])
  /\ UNCHANGED <<provider, account, file, lock, environment>>

\* The first critical section: the dead-token fast path, the floor of a
\* forced refresh, the expiry of an ordinary one.
Check(c) ==
  /\ call[c].pc = "check"
  /\ status' = IF dead = mem /\ MarkedError(c) THEN "Error" ELSE status
  /\ IF Needs(c) THEN Moves(c, [call[c] EXCEPT !.pc = "wait", !.rt = mem])
                 ELSE Return(c)
  /\ UNCHANGED <<provider, mem, dead, recent, file, lock, environment>>

\* Mutant: the refresh is not serialised.
AcquireUnserialised(c) ==
  /\ call[c].pc = "wait"
  /\ IF StillNeeds(c)
       THEN /\ lock' = c
            /\ Moves(c, [call[c] EXCEPT !.pc = "net", !.rt = mem])
       ELSE /\ Return(c)
            /\ UNCHANGED lock
  /\ UNCHANGED <<provider, account, file, environment>>

\* The account's refresh lock is granted and the need is checked again.
Acquire(c) ==
  /\ call[c].pc = "wait"
  /\ lock = Free
  /\ IF StillNeeds(c)
       THEN /\ lock' = c
            /\ Moves(c, [call[c] EXCEPT !.pc = "net", !.rt = mem])
       ELSE /\ Return(c)
            /\ UNCHANGED lock
  /\ UNCHANGED <<provider, account, file, environment>>

\* Mutant: one attempt too many.
TryAgainOnceMore(c) ==
  /\ Moves(c, [call[c] EXCEPT !.tries = @ + 1])
  /\ UNCHANGED lock

\* One attempt of refresh_access_token that brought no answer.  The loop
\* tries the same token again, RefreshTries times in all, then the refresh
\* fails with Transient, which leaves the account as it is.
TryAgain(c) ==
  /\ call[c].tries + 1 < RefreshTries
  /\ Moves(c, [call[c] EXCEPT !.tries = @ + 1])
  /\ UNCHANGED lock

GiveUp(c) == Return(c) /\ lock' = Free

AttemptFails(c) ==
  /\ call[c].pc = "net"
  /\ IF call[c].tries + 1 < RefreshTries THEN TryAgain(c) ELSE GiveUp(c)
  /\ UNCHANGED <<provider, account, file, environment>>

\* The provider rotates a live refresh token and the answer arrives.
Granted(c) ==
  /\ call[c].pc = "net" /\ call[c].rt \notin spent \cup revoked
  /\ minted < MaxPairs
  /\ minted' = minted + 1 /\ spent' = spent \cup {call[c].rt}
  /\ Moves(c, [call[c] EXCEPT !.pc = "granted", !.got = minted + 1])
  /\ UNCHANGED <<revoked, account, file, lock, environment>>

\* The provider rotates it and the answer is lost: before its headers (one
\* more attempt) or in its body (Transient at once).
GrantLost(c) ==
  /\ call[c].pc = "net" /\ call[c].rt \notin spent \cup revoked
  /\ minted < MaxPairs
  /\ minted' = minted + 1 /\ spent' = spent \cup {call[c].rt}
  /\ unkept' = unkept \cup {call[c].rt}
  /\ TryAgain(c) \/ GiveUp(c)
  /\ UNCHANGED <<revoked, account, file, snap, login, expiringTo, expiredTo, logins>>

\* Any other status is RefreshError::Rejected, for a token the provider no
\* longer takes and for one it merely would not serve now (a 429).  The account
\* is judged as it is when the answer arrives and remembers the token presented.
Rejected(c) ==
  /\ call[c].pc = "net"
  /\ status' = IF Kills(c) THEN "Error" ELSE status
  /\ dead'   = IF Kills(c) THEN call[c].rt ELSE dead
  /\ GiveUp(c)
  /\ UNCHANGED <<provider, mem, recent, file, environment>>

\* The new pair replaces whatever the account holds and a blocking task is
\* started to write it to the file.
Install(c) ==
  /\ call[c].pc = "granted"
  /\ mem' = call[c].got /\ status' = "Active" /\ dead' = None /\ recent' = TRUE
  /\ writers' = writers \cup {call[c].got}
  /\ Moves(c, [call[c] EXCEPT !.pc = "persist"])
  /\ UNCHANGED <<provider, disk, unwritten, lock, environment>>

\* The caller awaits the write, then lets the lock go.
Persisted(c) ==
  /\ call[c].pc = "persist" /\ call[c].got \notin writers
  /\ lock' = Free
  /\ Return(c)
  /\ UNCHANGED <<provider, account, file, environment>>

---------------------------------------------------------------------------
\* What a caller does with the credential it was handed.

\* A probe gives up on an account that needs_login.
ProbeSends(c) ==
  /\ c \in Probes /\ call[c].pc = "return" /\ ~call[c].force
  /\ Moves(c, IF status = "Error" /\ dead = mem THEN Idle
                                               ELSE [call[c] EXCEPT !.pc = "send"])
  /\ UNCHANGED <<provider, account, file, lock, environment>>

Accepted(c) ==
  /\ call[c].pc = "send" /\ call[c].cred \notin revoked /\ ~Expired(call[c].cred)
  /\ Moves(c, Idle)
  /\ UNCHANGED <<provider, account, file, lock, environment>>

\* A 401, drawn by a token that expired, was cut off or was rotated out: a
\* forced refresh, which a probe gives one try.
Unauthorized(c) ==
  /\ call[c].pc = "send"
  /\ call[c].cred \in revoked \cup spent \/ Expired(call[c].cred)
  /\ Moves(c, [call[c] EXCEPT !.pc = "check", !.force = TRUE])
  /\ UNCHANGED <<provider, account, file, lock, environment>>

\* After the forced refresh a request retries if it holds another token than
\* the one it was routed with, and else marks the account (mark_error).
AfterForced(c) ==
  /\ call[c].pc = "return" /\ call[c].force
  /\ status' = IF c \in Requests /\ call[c].cred = call[c].before THEN "Error" ELSE status
  /\ Moves(c, Idle)
  /\ UNCHANGED <<provider, mem, dead, recent, file, lock, environment>>

\* Mutant: the handler itself writes the file, so a hang-up loses the write.
CancelDropsWrite(c) ==
  /\ c \in Requests /\ call[c].pc \in Suspended
  /\ lock' = IF lock = c THEN Free ELSE lock
  /\ writers' = IF call[c].pc = "persist" THEN writers \ {call[c].got} ELSE writers
  /\ Moves(c, Idle)
  /\ UNCHANGED <<provider, account, disk, unwritten, environment>>

\* Mutant: the lock is a flag and not a guard.
CancelKeepsLock(c) ==
  /\ c \in Requests /\ call[c].pc \in Suspended
  /\ Moves(c, Idle)
  /\ UNCHANGED <<provider, account, file, lock, environment>>

\* The client hangs up: hyper drops the handler's future where it is
\* suspended.  The lock's guard goes with it; a write under way does not.
Cancel(c) ==
  /\ c \in Requests /\ call[c].pc \in Suspended
  /\ lock' = IF lock = c THEN Free ELSE lock
  /\ unkept' = IF call[c].pc = "granted" THEN unkept \cup {call[c].rt} ELSE unkept
  /\ Moves(c, Idle)
  /\ UNCHANGED <<provider, account, file, snap, login, expiringTo, expiredTo, logins>>

---------------------------------------------------------------------------
\* The file, the operator, the provider, time, and a crash.

\* The spawn_blocking task: Config::update rewrites the account's entry.
Persist(p) ==
  /\ p \in writers
  /\ disk' = p /\ writers' = writers \ {p}
  /\ UNCHANGED <<provider, account, unwritten, lock, call, environment>>

\* ... or it fails, or finds no such entry in this fleet's pool, or one that
\* only imports its pair: the task ends, a line is logged at most, and nobody
\* tries again.
PersistFails(p) ==
  /\ p \in writers
  /\ writers' = writers \ {p} /\ unwritten' = unwritten \cup {p}
  /\ UNCHANGED <<provider, account, disk, lock, call, environment>>

\* `corrall login`: another grant, independent of the pair the server holds,
\* then the profile lookup, then Config::update.
LoginGranted ==
  /\ login = None /\ logins < MaxLogins /\ minted < MaxPairs
  /\ minted' = minted + 1 /\ login' = minted + 1 /\ logins' = logins + 1
  /\ UNCHANGED <<spent, revoked, account, file, lock, call, snap, expiringTo, expiredTo,
                 unkept>>

LoginWritten ==
  /\ login # None
  /\ disk' = login /\ login' = None
  /\ UNCHANGED <<provider, account, writers, unwritten, lock, call, snap, expiringTo, expiredTo,
                 logins, unkept>>

\* A reload reads the file, then syncs the fleet with what it read.
ReloadLoads ==
  /\ snap = None
  /\ snap' = disk
  /\ UNCHANGED <<provider, account, file, lock, call, login, expiringTo, expiredTo,
                 logins, unkept>>

\* Mutant: the file always wins.
TakesAnyFromFile(p) == p # mem

\* sync_config takes a pair that differs and is not older.
TakesFromFile(p) == p # mem /\ p >= mem

ReloadSyncs ==
  /\ snap # None
  /\ mem' = IF TakesFromFile(snap) THEN snap ELSE mem
  /\ status' = IF TakesFromFile(snap) THEN "Active" ELSE status
  /\ snap' = None
  /\ UNCHANGED <<provider, dead, recent, file, lock, call, login, expiringTo, expiredTo,
                 logins, unkept>>

\* The provider cuts a pair off: a logout, a password change.
Revoke(p) ==
  /\ p <= minted /\ p \notin spent \cup revoked /\ Cardinality(revoked) < MaxRevoked
  /\ revoked' = revoked \cup {p}
  /\ UNCHANGED <<minted, spent, account, file, lock, call, environment>>

\* Time.  A pair is installed and written in less than the floor of a forced
\* refresh and far less than a token's lifetime: neither passes meanwhile.
Settled == writers = {} /\ \A c \in Callers : call[c].pc \notin {"granted", "persist"}

FloorPasses ==
  /\ recent /\ Settled
  /\ recent' = FALSE
  /\ UNCHANGED <<provider, mem, status, dead, file, lock, call, environment>>

NextExpires ==
  /\ Settled
  /\ \/ expiringTo < minted /\ expiringTo' = expiringTo + 1 /\ UNCHANGED expiredTo
     \/ expiredTo < expiringTo /\ expiredTo' = expiredTo + 1 /\ UNCHANGED expiringTo
  /\ UNCHANGED <<provider, account, file, lock, call, snap, login, logins, unkept>>

\* The server dies and comes back with the pair on disk.
Crash ==
  /\ mem' = disk /\ status' = "Active" /\ dead' = None /\ recent' = FALSE
  /\ writers' = {} /\ lock' = Free /\ snap' = None
  /\ call' = [c \in Callers |-> Idle]
  /\ unkept' = unkept \cup (spent \cap {disk})
  /\ UNCHANGED <<provider, disk, unwritten, login, expiringTo, expiredTo, logins>>

---------------------------------------------------------------------------
Step(c) ==
  \/ Check(c) \/ Acquire(c)
  \/ Granted(c) \/ GrantLost(c) \/ AttemptFails(c) \/ Rejected(c)
  \/ Install(c) \/ Persisted(c)
  \/ ProbeSends(c) \/ Accepted(c) \/ Unauthorized(c) \/ AfterForced(c)

Environment ==
  \/ \E p \in Pair : Persist(p) \/ PersistFails(p) \/ Revoke(p)
  \/ LoginGranted \/ LoginWritten \/ ReloadLoads \/ ReloadSyncs
  \/ FloorPasses \/ NextExpires \/ Crash

Next == (\E c \in Callers : Begin(c) \/ Step(c) \/ Cancel(c)) \/ Environment

Spec == Init /\ [][Next]_vars

\* The runtime polls every caller whose future is ready, its mutex serves the
\* waiters in order (hence SF), and a blocking write ends, one way or the other.
FairSpec ==
  /\ Spec
  /\ \A c \in Callers : WF_vars(Step(c)) /\ SF_vars(Acquire(c))
  /\ \A p \in Pair : WF_vars(Persist(p) \/ PersistFails(p))

---------------------------------------------------------------------------
\* Only the caller holding the account's lock talks to the token endpoint or
\* waits for the write that follows: concurrent callers share one refresh.
OneRefreshAtATime ==
  \A c \in Callers : call[c].pc \in Refreshing => lock = c

\* The server never opens a refresh with a refresh token it has itself spent
\* and whose successor it received: not from a caller that waited for the
\* lock, not after a reload, not from a file written late.
NoReplay ==
  \A c \in Callers :
    call[c].pc = "net" /\ call[c].tries = 0 => call[c].rt \notin spent \ unkept

\* With no write pending and no login made beside the server, the file holds
\* the pair in memory, so that a restart loses nothing, unless the very write
\* of that pair failed: whoever hangs up, reloads or dies in between, and
\* whatever writes of other pairs were lost.
FileKeepsUp ==
  writers = {} /\ logins = 0 /\ mem \notin unwritten => disk = mem

\* Only a live request may take an account with a usable token out of
\* rotation: a probe that fails to refresh leaves it alone.
ProbeNeverDisables ==
  [][status = "Active" /\ status' = "Error" /\ ~Expired(mem)
       => \E r \in Requests : call'[r] # call[r]]_vars

\* Every caller that asks for a token is answered, whatever the provider does
\* and whoever hangs up while holding the lock.
EveryCallerAnswered ==
  \A c \in Callers : call[c].pc = "check" ~> call[c].pc \in {"idle", "send"}

\* An account goes into error about the pair it holds at that moment: never
\* about one that a re-login has just replaced.
ErrorIsAboutHeldPair ==
  [][status = "Active" /\ status' = "Error" =>
       \E c \in Callers : /\ call'[c] # call[c]
                          /\ mem \in {call[c].rt, call[c].cred, dead}]_vars
===========================================================================
