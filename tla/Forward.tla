------------------------------ MODULE Forward ------------------------------
(***************************************************************************)
(* forward::forward and forward::attempt: how one client request is tried  *)
(* on the accounts of its pool until it is answered, and what each answer  *)
(* of an upstream does to the account it came from (Manager::hold,         *)
(* clear_rate_limited, mark_error, mark_entitlement_denied, update_quota,  *)
(* note_headerless_429) while other requests are under way.                *)
(*                                                                         *)
(* Which of the available accounts Fleet::select prefers is ranking, left  *)
(* out: it may be any of them.  Durations are in ticks of about fifteen    *)
(* seconds; recoveries whose length nothing here depends on end at any     *)
(* time.  An upstream's answers are the classes attempt tells apart.       *)
(***************************************************************************)
EXTENDS Naturals, FiniteSets

CONSTANTS Requests, Accounts,
          Pin,           \* the account a request is pinned to, or NoPin
          NoPin,
          HoldTicks,     \* info.hold_ms of a request
          MaxAttempts,   \* MAX_ATTEMPTS
          MaxRetries,    \* retries of the same account in one request (4)
          MaxHops,       \* MAX_RATE_LIMIT_HOPS
          Answers,       \* bound: the classes upstreams answer with
          Readings,      \* bound: what quota headers can say, "at the threshold"
          Sound          \* accounts whose upstream and login never fail

\* Classes of answers.  "lost": none came, or the connection broke.
\* "quota": a rejected 5h or 7d window; "family": a rejected family window.
\* "short" .. "long": other 429s, by retry-after; "bare": without one.
AllAnswers == {"ok", "lost", "connect", "quota", "family", "short", "mid", "long",
               "bare", "401", "denied", "403", "5xx"}

Pause      == 1   \* HEADERLESS_429_PAUSE_SECONDS, INLINE_RETRY_AFTER_MAX_SECONDS
LongPause  == 2   \* a retry-after beyond the inline limit
QuotaHold  == 3   \* to the reset of a window
FleetBare  == 2   \* FLEET_429_ACCOUNTS
LoopLimit  == 3 * MaxAttempts

ASSUME Pinning == Pin \in [Requests -> Accounts \cup {NoPin}] /\ NoPin \notin Accounts
ASSUME Holding == HoldTicks \in [Requests -> Nat]
ASSUME Limits  == /\ MaxAttempts \in Nat \ {0} /\ MaxRetries \in Nat
                  /\ MaxHops \in Nat \ {0}
ASSUME Upstreams == /\ Answers \subseteq AllAnswers /\ Readings \subseteq BOOLEAN
                    /\ Sound \subseteq Accounts
ASSUME Pool == IsFiniteSet(Accounts)
\* Four retries to six accounts: retries alone do not reach the loop's limit.
ASSUME Patience == MaxRetries <= 2 * MaxAttempts

VARIABLES acc,   \* the accounts of the pool
          req    \* the requests

vars == <<acc, req>>

\* full: the last reading is at the switch threshold.  quota: the hold is a
\* quota rejection.  cool: the entitlement cooldown.  bare: a headerless 429
\* within FLEET_429_WINDOW_MS.  probed: read or revalidated within the floor.
AccountState == [err : BOOLEAN, held : 0 .. QuotaHold, quota : BOOLEAN, full : BOOLEAN,
                 cool : BOOLEAN, bare : BOOLEAN, probed : BOOLEAN]

Healthy == [err |-> FALSE, held |-> 0, quota |-> FALSE, full |-> FALSE,
            cool |-> FALSE, bare |-> FALSE, probed |-> FALSE]

\* "wire": send() is connecting.  "out": the upstream has the request.
PC == {"idle", "select", "fresh", "admit", "wire", "out", "judge", "forced", "sleep"}
Verdicts == {"none", "gone", "served", "lost", "spent", "failing", "gaveUp", "tooMany",
             "limited", "persisted", "refused", "pinFailed", "pinUnavailable"}

\* taken (history): an upstream may be running the request, or has run it.
\* live: selected to revalidate a reading at the threshold.
RequestState ==
  [pc : PC, at : Accounts \cup {NoPin}, kind : AllAnswers \cup {"none"},
   tried : SUBSET Accounts, attempts : 0 .. LoopLimit, retries : 0 .. MaxRetries,
   hops : 0 .. MaxHops, wait : 0 .. LongPause, left : Nat, answer : Verdicts,
   taken : BOOLEAN, live : BOOLEAN]

AtRest(verdict) ==
  [pc |-> "idle", at |-> NoPin, kind |-> "none", tried |-> {}, attempts |-> 0,
   retries |-> 0, hops |-> 0, wait |-> 0, left |-> 0, answer |-> verdict,
   taken |-> FALSE, live |-> FALSE]

TypeOK == /\ acc \in [Accounts -> AccountState]
          /\ req \in [Requests -> RequestState]

Init == /\ acc = [a \in Accounts |-> Healthy]
        /\ req = [r \in Requests |-> AtRest("none")]

Account(a, state) == acc' = [acc EXCEPT ![a] = state]
Goes(r, state)    == req' = [req EXCEPT ![r] = state]

---------------------------------------------------------------------------
\* Fleet::unavailable_reason_for.
Reason(a) ==
  CASE acc[a].err      -> "error"
    [] acc[a].held > 0 -> "throttled"
    [] acc[a].cool     -> "denied"
    [] acc[a].full     -> "quota"
    [] OTHER           -> "none"

Pinned(r)    == Pin[r] # NoPin
Available(r) == {a \in Accounts \ req[r].tried : Reason(a) = "none"}
Soft(r)      == {a \in Accounts \ req[r].tried : Reason(a) = "quota" /\ ~acc[a].probed}

\* exhausted_info: accounts whose recovery is only a matter of time.
HeldBack == {a \in Accounts : Reason(a) \in {"throttled", "quota"}}

Arrive(r) ==
  /\ req[r].pc = "idle"
  /\ Goes(r, [AtRest("none") EXCEPT !.pc = "select", !.left = HoldTicks[r]])
  /\ UNCHANGED acc

Chosen(r, a)     == [req[r] EXCEPT !.at = a, !.attempts = @ + 1]
Try(r, a, live)  == Goes(r, [Chosen(r, a) EXCEPT !.pc = "fresh", !.live = live])

Sleeping(r, w) == [req[r] EXCEPT !.pc = "sleep", !.wait = w]

\* Nothing can serve: hold the request and start over, or answer it.
Exhausted(r) ==
  \/ /\ req[r].left > 0
     /\ \E w \in IF HeldBack = {} THEN {Pause} ELSE {Pause, LongPause} :
          Goes(r, [Sleeping(r, w) EXCEPT !.attempts = @ + 1, !.tried = {}])
  \/ /\ req[r].left = 0
     /\ Goes(r, AtRest(IF req[r].tried # {} /\ HeldBack = {} THEN "failing" ELSE "spent"))

\* The top of the loop: Fleet::select, in one critical section.
Select(r) ==
  /\ req[r].pc = "select"
  /\ \/ /\ req[r].attempts = LoopLimit
        /\ Goes(r, AtRest("gaveUp")) /\ UNCHANGED acc
     \/ /\ req[r].attempts < LoopLimit /\ Pinned(r)
        /\ IF Reason(Pin[r]) \in {"none", "quota"} THEN Try(r, Pin[r], FALSE)
                                                   ELSE Goes(r, AtRest("pinUnavailable"))
        /\ UNCHANGED acc
     \/ /\ req[r].attempts < LoopLimit /\ ~Pinned(r)
        /\ \/ \E a \in Available(r) : Try(r, a, FALSE) /\ UNCHANGED acc
           \/ /\ Available(r) = {}
              /\ \E a \in Soft(r) : /\ Try(r, a, TRUE)
                                    /\ Account(a, [acc[a] EXCEPT !.probed = TRUE])
           \/ /\ Available(r) = {} /\ Soft(r) = {}
              /\ Exhausted(r) /\ UNCHANGED acc

---------------------------------------------------------------------------
\* How an attempt ends, for the loop.

Excluding(r) == [req[r] EXCEPT !.pc = "select", !.tried = @ \cup {req[r].at}]

\* Mutant: the limit on failed accounts is reached one early.
FailoverOneEarly(r) ==
  Goes(r, IF Pinned(r) THEN AtRest("pinFailed")
          ELSE IF Cardinality(Excluding(r).tried) + 1 >= MaxAttempts THEN AtRest("tooMany")
          ELSE Excluding(r))

\* Attempt::Failover.
Failover(r) ==
  Goes(r, IF Pinned(r) THEN AtRest("pinFailed")
          ELSE IF Cardinality(Excluding(r).tried) >= MaxAttempts THEN AtRest("tooMany")
          ELSE Excluding(r))

Retrying(r, w) == [Sleeping(r, w) EXCEPT !.retries = @ + 1, !.tried = @ \ {req[r].at}]

\* Mutant: the retry limit is off by one.
RetrySameOnceMore(r, w) ==
  Goes(r, IF req[r].retries > MaxRetries THEN AtRest("persisted")
          ELSE Retrying(r, w))

\* Attempt::RetrySame.
RetrySame(r, w) ==
  Goes(r, IF req[r].retries >= MaxRetries THEN AtRest("persisted")
          ELSE Retrying(r, w))

\* Attempt::RateLimitedHop.
Hop(r) ==
  Goes(r, IF Pinned(r) \/ req[r].hops + 1 >= MaxHops THEN AtRest("limited")
          ELSE IF Cardinality(Excluding(r).tried) >= MaxAttempts THEN AtRest("tooMany")
          ELSE [Excluding(r) EXCEPT !.hops = @ + 1])

\* Manager::hold: the account is throttled, whatever it was before.
Throttled(a, ticks, quota) == [acc[a] EXCEPT !.held = ticks, !.quota = quota]
Hold(a, ticks, quota) == Account(a, [Throttled(a, ticks, quota) EXCEPT !.err = FALSE])

\* Manager::clear_rate_limited.
Unheld(a) == Throttled(a, 0, FALSE)

---------------------------------------------------------------------------
\* forward::attempt, up to the send.

\* ensure_token_fresh: a token that is good or cannot be refreshed now, one
\* whose refresh was rejected (the old credential comes back all the same),
\* one refreshed.
Freshen(r) ==
  /\ req[r].pc = "fresh"
  /\ Goes(r, [req[r] EXCEPT !.pc = "admit"])
  /\ LET a == req[r].at IN
     \/ UNCHANGED acc
     \/ a \notin Sound /\ "401" \in Answers /\ Account(a, [acc[a] EXCEPT !.err = TRUE])
     \/ Account(a, [acc[a] EXCEPT !.err = FALSE])

\* Mutant: waits for the account it was given instead of moving on.
AdmitWaits(r) ==
  /\ req[r].pc = "admit"
  /\ Pinned(r) \/ Reason(req[r].at) = "none"
  /\ Goes(r, [req[r] EXCEPT !.pc = "wire"])
  /\ UNCHANGED acc

\* A slot of the storm ramp is granted and the account looked at once more,
\* unless the request is pinned.
Admit(r) ==
  /\ req[r].pc = "admit"
  /\ IF ~Pinned(r) /\ Reason(req[r].at) # "none"
       THEN Failover(r)
       ELSE Goes(r, [req[r] EXCEPT !.pc = "wire"])
  /\ UNCHANGED acc

---------------------------------------------------------------------------
\* The upstream's answer.

CanAnswer(a, k) == k \in Answers /\ (a \in Sound => k = "ok")

\* Nothing left this side.
ConnectFails(r) ==
  /\ req[r].pc = "wire" /\ CanAnswer(req[r].at, "connect")
  /\ Failover(r) /\ UNCHANGED acc

\* The connection stands and the request goes over it: from now on the
\* upstream may be running it, whatever this side gets to know.
Leaves(r) ==
  /\ req[r].pc = "wire"
  /\ Goes(r, [req[r] EXCEPT !.pc = "out", !.taken = TRUE])
  /\ UNCHANGED acc

\* Mutant: a request that timed out moves to a sibling.
NoAnswerResends(r) ==
  /\ req[r].pc \in {"wire", "out"} /\ CanAnswer(req[r].at, "lost")
  /\ Failover(r) /\ UNCHANGED acc

\* No headers in time, or the connection died with the request on it.
NoAnswer(r) ==
  /\ req[r].pc \in {"wire", "out"} /\ CanAnswer(req[r].at, "lost")
  /\ Goes(r, AtRest("lost")) /\ UNCHANGED acc

\* Every answer but a 2xx or the client's own 4xx is taken for the upstream's
\* word that it has not run the request, as the code takes a 5xx.
Received(r, k) == [req[r] EXCEPT !.kind = k, !.taken = (k = "ok")]

\* Headers: update_quota, and clear_rate_limited unless they say 429.
Headers(r, k) ==
  /\ req[r].pc = "out" /\ k \notin {"connect", "lost"} /\ CanAnswer(req[r].at, k)
  /\ LET a == req[r].at
         limited == k \in {"quota", "family", "short", "mid", "long", "bare"}
     IN \E reading \in {acc[a].full} \cup (IF a \in Sound THEN {FALSE} ELSE Readings) :
          Account(a, IF limited THEN [acc[a] EXCEPT !.full = reading]
                     ELSE [Unheld(a) EXCEPT !.full = reading])
  /\ Goes(r, [Received(r, k) EXCEPT !.pc = "judge"])

Judging(r, kinds) == req[r].pc = "judge" /\ req[r].kind \in kinds

\* A 2xx, or a 4xx that is the client's own: the body is relayed, or cannot
\* be read and the request is not resent.  A pin relays 403 and 5xx as well.
Relay(r) ==
  /\ Judging(r, {"ok"} \cup IF Pinned(r) THEN {"403", "5xx"} ELSE {})
  /\ Goes(r, AtRest("served")) \/ (req[r].kind = "ok" /\ Goes(r, AtRest("lost")))
  /\ UNCHANGED acc

\* A 403, a 5xx, a family window: another account.
MoveOn(r) ==
  /\ Judging(r, {"family"} \cup IF Pinned(r) THEN {} ELSE {"403", "5xx"})
  /\ Failover(r) /\ UNCHANGED acc

QuotaRejected(r) ==
  /\ Judging(r, {"quota"})
  /\ Hold(req[r].at, QuotaHold, TRUE) /\ Failover(r)

Denied(r) ==
  /\ Judging(r, {"denied"})
  /\ Account(req[r].at, [acc[req[r].at] EXCEPT !.cool = TRUE]) /\ Failover(r)

\* A 429 without retry-after: upstream-wide when another account had one too.
BareLimit(r) ==
  /\ Judging(r, {"bare"})
  /\ LET a == req[r].at IN
     IF Cardinality({a} \cup {b \in Accounts : acc[b].bare}) >= FleetBare
       THEN /\ Account(a, [acc[a] EXCEPT !.bare = TRUE])
            /\ Goes(r, AtRest("refused"))
       ELSE /\ Account(a, [Throttled(a, Pause, FALSE) EXCEPT !.err = FALSE, !.bare = TRUE])
            /\ RetrySame(r, Pause)

\* A 429 with one: absorbed inline when short, or when the request may be
\* held; else one hop.
TimedLimit(r) ==
  /\ Judging(r, {"short", "mid", "long"})
  /\ LET ra == IF req[r].kind = "short" THEN Pause ELSE LongPause IN
     /\ Hold(req[r].at, ra, FALSE)
     /\ IF req[r].kind = "short" \/ (req[r].kind = "mid" /\ HoldTicks[r] > 0)
          THEN RetrySame(r, ra)
          ELSE Hop(r)

Unauthorized(r) ==
  /\ Judging(r, {"401"})
  /\ Goes(r, [req[r] EXCEPT !.pc = "forced"]) /\ UNCHANGED acc

\* After the forced refresh: another token, or mark_error.
AfterForced(r) ==
  /\ req[r].pc = "forced"
  /\ LET a == req[r].at IN
     \/ Account(a, [acc[a] EXCEPT !.err = FALSE]) /\ RetrySame(r, 0)
     \/ Account(a, [acc[a] EXCEPT !.err = TRUE])  /\ Failover(r)

Wake(r) ==
  /\ req[r].pc = "sleep" /\ req[r].wait = 0
  /\ Goes(r, [req[r] EXCEPT !.pc = "select"])
  /\ UNCHANGED acc

\* The client hangs up and the handler is dropped.
Cancel(r) ==
  /\ req[r].pc # "idle"
  /\ Goes(r, AtRest("gone"))
  /\ UNCHANGED acc

---------------------------------------------------------------------------
\* Time, the operator and the prober.

Less(n) == IF n > 0 THEN n - 1 ELSE 0

Tick ==
  /\ acc' = [a \in Accounts |-> [acc[a] EXCEPT !.held = Less(@), !.quota = @ /\ acc[a].held > 1]]
  /\ req' = [r \in Requests |-> [req[r] EXCEPT !.wait = Less(@), !.left = Less(@)]]

\* A window resets, a cooldown or a floor ends, a login or a re-enable lifts
\* an error.
Recovers(a) ==
  /\ \/ acc[a].full   /\ Account(a, [acc[a] EXCEPT !.full = FALSE])
     \/ acc[a].cool   /\ Account(a, [acc[a] EXCEPT !.cool = FALSE])
     \/ acc[a].bare   /\ Account(a, [acc[a] EXCEPT !.bare = FALSE])
     \/ acc[a].probed /\ Account(a, [acc[a] EXCEPT !.probed = FALSE])
     \/ acc[a].err    /\ Account(a, [acc[a] EXCEPT !.err = FALSE])
  /\ UNCHANGED req

\* Manager::apply_usage: a reading below the threshold lifts a quota hold, and
\* any reading counts as a revalidation.
UsageRead(a) ==
  /\ \E reading \in IF a \in Sound THEN {FALSE} ELSE Readings :
       Account(a, IF acc[a].quota /\ ~reading
                    THEN [Unheld(a) EXCEPT !.full = FALSE, !.probed = TRUE]
                    ELSE [acc[a] EXCEPT !.full = reading, !.probed = TRUE])
  /\ UNCHANGED req

---------------------------------------------------------------------------
Step(r) ==
  \/ Select(r) \/ Freshen(r) \/ Admit(r)
  \/ ConnectFails(r) \/ Leaves(r) \/ NoAnswer(r) \/ (\E k \in Answers : Headers(r, k))
  \/ Relay(r) \/ MoveOn(r) \/ QuotaRejected(r) \/ Denied(r) \/ BareLimit(r)
  \/ TimedLimit(r) \/ Unauthorized(r) \/ AfterForced(r) \/ Wake(r)

Next ==
  \/ \E r \in Requests : Arrive(r) \/ Step(r) \/ Cancel(r)
  \/ \E a \in Accounts : Recovers(a) \/ UsageRead(a)
  \/ Tick

Spec == Init /\ [][Next]_vars

\* Ready handlers are polled, sends are bounded by timers, time passes.
FairSpec == Spec /\ WF_vars(Tick) /\ \A r \in Requests : WF_vars(Step(r))

---------------------------------------------------------------------------
(* What the loop promises.                                                 *)

PhaseOf(q) == IF q.pc = "idle" THEN "idle"
              ELSE IF q.pc \in {"out", "judge"} THEN "out" ELSE "trying"

Phase  == [r \in Requests |-> PhaseOf(req[r])]
Billed == [r \in Requests |-> req[r].taken]

OA == INSTANCE OneAnswer WITH phase <- Phase, billed <- Billed

\* A request that has left goes back to the loop, to be sent to another account
\* or again, only when its upstream has answered that it did not run it: not
\* after a timeout, a lost connection or an answer cut short (the comment at
\* forward.rs:427).  Through failovers, retries, hops, holds and refreshes the
\* loop does what OneAnswer says.
Implements == OA!Spec

\* While one account works, no storm of failures, limits, rejected logins or
\* spent windows on the others, whatever other requests do to them, makes an
\* unpinned request end as if nothing could serve it (forward.rs:192-218,
\* 235-245): the bookkeeping of tried accounts reaches it before a bound does.
HeadroomServes ==
  Sound # {} /\ Cardinality(Accounts) <= MaxAttempts =>
    \A r \in Requests :
      ~Pinned(r) => req[r].answer \notin {"spent", "failing", "tooMany", "gaveUp"}

\* Every request is answered or gone, held or not, whatever upstreams answer
\* and however the accounts change under it: no chain of failovers, retries
\* and holds is endless (forward.rs:165-306).
EveryRequestAnswered ==
  \A r \in Requests : req[r].pc # "idle" ~> req[r].pc = "idle"

(* What the repository says of it, and the code does not do.               *)

\* An account at the threshold, chosen to revalidate its reading with a live
\* request (manager.rs:1989, 2014), gets that request unless something else
\* than the reading came in between.
Revalidated ==
  [][\A r \in Requests :
       req[r].pc = "admit" /\ req[r].live /\ Reason(req[r].at) = "quota"
         => req'[r].pc # "select"]_vars

=============================================================================
