--------------------------- MODULE Forward_proofs ---------------------------
(***************************************************************************)
(* The request loop is type correct and implements OneAnswer, for every    *)
(* set of requests and accounts, every bound and every class of answers;   *)
(* and it finds the account that works, whatever becomes of the others.    *)
(*                                                                         *)
(* The argument: a step moves one request (Moves) or lets time pass.       *)
(* Whatever the step, a request leaves only from "wire", is judged only    *)
(* once it is out, and while its upstream may be running it, or has run    *)
(* it, goes nowhere but to the judgement of its answer or to "idle"        *)
(* (Keeps).  That, with an account to speak of while an attempt is made,   *)
(* and a request that is out being marked so (Sensible), is all OneAnswer  *)
(* asks for.                                                               *)
(***************************************************************************)
EXTENDS Forward, FiniteSetTheorems, TLAPS

Attempting == {"fresh", "admit", "wire", "out", "judge", "forced"}

\* An attempt is made on an account, and what an upstream may be running is out or
\* having its answer read.
Sensible(q) == /\ q \in RequestState
               /\ q.pc \in Attempting => q.at \in Accounts
               /\ q.taken <=> q.pc = "out" \/ (q.pc = "judge" /\ q.kind = "ok")

IInv == /\ acc \in [Accounts -> AccountState]
        /\ req \in [Requests -> RequestState]
        /\ \A r \in Requests : Sensible(req[r])

\* From q to s, as OneAnswer sees it.
Keeps(q, s) ==
  /\ q.pc = "idle" => s.pc = "select"
  /\ s.pc = "out" => q.pc = "wire"
  /\ s.pc = "judge" => q.pc = "out"
  /\ q.taken => s.pc \in {"idle", "judge"}

Moves(r) == /\ req' = [req EXCEPT ![r] = req'[r]]
            /\ Sensible(req'[r])
            /\ Keeps(req[r], req'[r])

---------------------------------------------------------------------------
\* A request put in a sensible state it may go to.
LEMMA GoesMoves ==
  ASSUME IInv, NEW r \in Requests, NEW s, Goes(r, s), Sensible(s), Keeps(req[r], s)
  PROVE  Moves(r)
<1>1. req'[r] = s
  BY DEF Goes, IInv
<1> QED BY <1>1 DEF Moves, Goes

\* A request that ends leaves nothing behind.
LEMMA RestMoves ==
  ASSUME IInv, NEW r \in Requests, NEW v \in Verdicts, Goes(r, AtRest(v)),
         req[r].pc # "idle"
  PROVE  Moves(r)
<1>1. Sensible(AtRest(v))
  BY Limits DEF Sensible, AtRest, RequestState, PC, LoopLimit, LongPause, Attempting
<1>2. Keeps(req[r], AtRest(v))
  BY DEF Keeps, AtRest
<1> QED BY <1>1, <1>2, GoesMoves

LEMMA ExcludingTyped ==
  ASSUME IInv, NEW r \in Requests, req[r].at \in Accounts, ~req[r].taken
  PROVE  /\ Excluding(r) \in RequestState
         /\ Excluding(r).pc = "select" /\ ~Excluding(r).taken
         /\ Excluding(r).hops = req[r].hops
<1> DEFINE tried == req[r].tried \cup {req[r].at}
<1>1. req[r] \in RequestState /\ "select" \in PC
  BY DEF IInv, PC
<1>2. tried \in SUBSET Accounts
  BY <1>1 DEF RequestState
<1>3. Excluding(r) = [req[r] EXCEPT !.pc = "select", !.tried = tried]
  BY DEF Excluding
<1> HIDE DEF tried
<1> QED BY <1>1, <1>2, <1>3 DEF RequestState

LEMMA FailoverMoves ==
  ASSUME IInv, NEW r \in Requests, Failover(r), req[r].at \in Accounts,
         req[r].pc \in Attempting, ~req[r].taken
  PROVE  Moves(r)
<1>1. CASE Goes(r, Excluding(r))
  <2>1. Sensible(Excluding(r)) /\ Keeps(req[r], Excluding(r))
    BY ExcludingTyped DEF RequestState, Sensible, Keeps, Attempting
  <2> QED BY <1>1, <2>1, GoesMoves
<1>2. CASE \E v \in Verdicts : Goes(r, AtRest(v))
  BY <1>2, RestMoves DEF Attempting
<1> QED BY <1>1, <1>2 DEF Failover, Verdicts

LEMMA SleepingTyped ==
  ASSUME IInv, NEW r \in Requests, NEW w \in 0 .. LongPause, ~req[r].taken
  PROVE  /\ Sleeping(r, w) \in RequestState
         /\ Sleeping(r, w).pc = "sleep" /\ ~Sleeping(r, w).taken
         /\ Sleeping(r, w).retries = req[r].retries
         /\ Sleeping(r, w).attempts = req[r].attempts
<1> DEFINE q == req[r]
           s == [q EXCEPT !.pc = "sleep", !.wait = w]
<1>1. q \in RequestState /\ "sleep" \in PC /\ s = Sleeping(r, w) /\ ~q.taken
  BY DEF IInv, PC, Sleeping
<1> HIDE DEF q
<1>2. s \in RequestState
  BY <1>1 DEF RequestState
<1>3. s.pc = "sleep" /\ ~s.taken /\ s.retries = q.retries /\ s.attempts = q.attempts
  BY <1>1 DEF RequestState
<1> QED BY <1>1, <1>2, <1>3 DEF q

LEMMA RetryingTyped ==
  ASSUME IInv, NEW r \in Requests, NEW w \in 0 .. LongPause, ~req[r].taken,
         req[r].retries < MaxRetries
  PROVE  /\ Retrying(r, w) \in RequestState
         /\ Retrying(r, w).pc = "sleep" /\ ~Retrying(r, w).taken
<1> DEFINE q == Sleeping(r, w)
<1>1. /\ q \in RequestState /\ q.pc = "sleep" /\ ~q.taken
      /\ q.retries = req[r].retries
  BY SleepingTyped
<1>2. q.retries + 1 \in 0 .. MaxRetries
  BY <1>1, Limits DEF IInv, RequestState
<1> HIDE DEF q
<1>3. LET s == [q EXCEPT !.retries = @ + 1, !.tried = @ \ {req[r].at}]
      IN  s \in RequestState /\ s.pc = "sleep" /\ ~s.taken
  BY <1>1, <1>2 DEF RequestState
<1> QED BY <1>3 DEF Retrying, q

LEMMA RetrySameMoves ==
  ASSUME IInv, NEW r \in Requests, NEW w \in 0 .. LongPause, RetrySame(r, w),
         req[r].at \in Accounts, req[r].pc \in Attempting, ~req[r].taken
  PROVE  Moves(r)
<1>1. CASE req[r].retries < MaxRetries /\ Goes(r, Retrying(r, w))
  <2>1. Sensible(Retrying(r, w)) /\ Keeps(req[r], Retrying(r, w))
    BY <1>1, RetryingTyped DEF RequestState, Sensible, Keeps, Attempting
  <2> QED BY <1>1, <2>1, GoesMoves
<1>2. CASE \E v \in Verdicts : Goes(r, AtRest(v))
  BY <1>2, RestMoves DEF Attempting
<1>3. req[r].retries >= MaxRetries \/ req[r].retries < MaxRetries
  BY Limits DEF IInv, RequestState
<1> QED BY <1>1, <1>2, <1>3 DEF RetrySame, Verdicts

LEMMA HopMoves ==
  ASSUME IInv, NEW r \in Requests, Hop(r), req[r].at \in Accounts,
         req[r].pc \in Attempting, ~req[r].taken
  PROVE  Moves(r)
<1>1. CASE ~(req[r].hops + 1 >= MaxHops) /\ Goes(r, [Excluding(r) EXCEPT !.hops = @ + 1])
  <2> DEFINE q == Excluding(r)
  <2>1. q \in RequestState /\ q.pc = "select" /\ ~q.taken /\ q.hops = req[r].hops
    BY ExcludingTyped
  <2>2. q.hops + 1 \in 0 .. MaxHops
    BY <1>1, <2>1, Limits DEF RequestState
  <2> HIDE DEF q
  <2>3. Sensible([q EXCEPT !.hops = @ + 1])
    BY <2>1, <2>2 DEF RequestState, Sensible, Attempting
  <2>4. Keeps(req[r], [q EXCEPT !.hops = @ + 1])
    BY <2>1 DEF RequestState, Keeps, Attempting
  <2> QED BY <1>1, <2>3, <2>4, GoesMoves DEF q
<1>2. CASE \E v \in Verdicts : Goes(r, AtRest(v))
  BY <1>2, RestMoves DEF Attempting
<1> QED BY <1>1, <1>2 DEF Hop, Verdicts

LEMMA TryMoves ==
  ASSUME IInv, NEW r \in Requests, NEW a \in Accounts, NEW live \in BOOLEAN,
         Try(r, a, live), req[r].pc = "select", req[r].attempts < LoopLimit
  PROVE  Moves(r)
<1> DEFINE s == [Chosen(r, a) EXCEPT !.pc = "fresh", !.live = live]
<1>1. req[r].attempts + 1 \in 0 .. LoopLimit /\ ~req[r].taken
  BY Limits DEF IInv, Sensible, RequestState, LoopLimit
<1>2. /\ Chosen(r, a) \in RequestState /\ Chosen(r, a).at = a
      /\ ~Chosen(r, a).taken
  BY <1>1 DEF IInv, RequestState, Chosen
<1>3. Sensible(s) /\ Keeps(req[r], s)
  BY <1>1, <1>2 DEF RequestState, PC, Sensible, Keeps, Attempting
<1> QED BY <1>3, GoesMoves DEF Try

LEMMA ExhaustedMoves ==
  ASSUME IInv, NEW r \in Requests, Exhausted(r), req[r].pc = "select",
         req[r].attempts < LoopLimit
  PROVE  Moves(r)
<1>1. ASSUME NEW w \in {Pause, LongPause},
             Goes(r, [Sleeping(r, w) EXCEPT !.attempts = @ + 1, !.tried = {}])
      PROVE  Moves(r)
  <2> DEFINE q == Sleeping(r, w)
  <2>1. req[r].attempts + 1 \in 0 .. LoopLimit /\ ~req[r].taken
    BY Limits DEF IInv, Sensible, RequestState, LoopLimit
  <2>2. w \in 0 .. LongPause
    BY DEF Pause, LongPause
  <2>3. /\ q \in RequestState /\ q.pc = "sleep" /\ ~q.taken
        /\ q.attempts = req[r].attempts
    BY <2>1, <2>2, SleepingTyped
  <2> HIDE DEF q
  <2>4. Sensible([q EXCEPT !.attempts = @ + 1, !.tried = {}])
    BY <2>1, <2>3 DEF RequestState, Sensible, Attempting
  <2>5. Keeps(req[r], [q EXCEPT !.attempts = @ + 1, !.tried = {}])
    BY <2>1, <2>3 DEF RequestState, Keeps, Attempting
  <2> QED BY <1>1, <2>4, <2>5, GoesMoves DEF q
<1>2. CASE \E v \in Verdicts : Goes(r, AtRest(v))
  BY <1>2, RestMoves
<1> QED BY <1>1, <1>2 DEF Exhausted, Verdicts

---------------------------------------------------------------------------
(* One step per action: where the request goes, and what becomes of the    *)
(* accounts.                                                               *)

AccTyped == acc \in [Accounts -> AccountState]

LEMMA AccountTyped ==
  ASSUME IInv, NEW a \in Accounts, NEW s \in AccountState, Account(a, s)
  PROVE  AccTyped'
BY DEF IInv, AccTyped, Account

LEMMA ThrottledTyped ==
  ASSUME IInv, NEW a \in Accounts, NEW t \in 0 .. QuotaHold, NEW b \in BOOLEAN
  PROVE  Throttled(a, t, b) \in AccountState
BY DEF IInv, Throttled, AccountState

LEMMA UnheldTyped ==
  ASSUME IInv, NEW a \in Accounts
  PROVE  Unheld(a) \in AccountState
<1>1. 0 \in 0 .. QuotaHold
  BY DEF QuotaHold
<1>2. Throttled(a, 0, FALSE) \in AccountState
  BY <1>1, ThrottledTyped
<1> QED BY <1>2 DEF Unheld

LEMMA HoldTyped ==
  ASSUME IInv, NEW a \in Accounts, NEW t \in 0 .. QuotaHold, NEW b \in BOOLEAN,
         Hold(a, t, b)
  PROVE  AccTyped'
<1> DEFINE q == Throttled(a, t, b)
<1>1. q \in AccountState
  BY ThrottledTyped
<1> HIDE DEF q
<1>2. [q EXCEPT !.err = FALSE] \in AccountState
  BY <1>1 DEF AccountState
<1> QED BY <1>2, AccountTyped DEF Hold, q

LEMMA SameAcc == ASSUME IInv, UNCHANGED acc PROVE AccTyped'
BY DEF IInv, AccTyped

LEMMA ArriveStep ==
  ASSUME IInv, NEW r \in Requests, Arrive(r)
  PROVE  Moves(r) /\ AccTyped'
<1> DEFINE q == AtRest("none")
<1>1. q \in RequestState /\ q.pc = "idle" /\ ~q.taken
  BY Limits DEF AtRest, RequestState, PC, Verdicts, LoopLimit, LongPause
<1>2. HoldTicks[r] \in Nat /\ ~req[r].taken
  BY Holding DEF IInv, Sensible, Arrive
<1> HIDE DEF q
<1>3. Sensible([q EXCEPT !.pc = "select", !.left = HoldTicks[r]])
  BY <1>1, <1>2 DEF RequestState, PC, Sensible, Attempting
<1>4. Keeps(req[r], [q EXCEPT !.pc = "select", !.left = HoldTicks[r]])
  BY <1>1, <1>2 DEF RequestState, Keeps
<1>5. Moves(r)
  BY <1>3, <1>4, GoesMoves DEF Arrive, q
<1> QED BY <1>5, SameAcc DEF Arrive

LEMMA SelectStep ==
  ASSUME IInv, NEW r \in Requests, Select(r)
  PROVE  Moves(r) /\ AccTyped'
<1> USE DEF Select
<1>1. CASE Goes(r, AtRest("gaveUp")) /\ UNCHANGED acc
  BY <1>1, RestMoves, SameAcc DEF Verdicts
<1>2. CASE Goes(r, AtRest("pinUnavailable")) /\ UNCHANGED acc
  BY <1>2, RestMoves, SameAcc DEF Verdicts
<1>3. CASE req[r].attempts < LoopLimit /\ Pinned(r) /\ Try(r, Pin[r], FALSE) /\ UNCHANGED acc
  BY <1>3, Pinning, TryMoves, SameAcc DEF Pinned
<1>4. CASE /\ req[r].attempts < LoopLimit
           /\ \E a \in Available(r) : Try(r, a, FALSE) /\ UNCHANGED acc
  BY <1>4, TryMoves, SameAcc DEF Available
<1>5. CASE /\ req[r].attempts < LoopLimit
           /\ \E a \in Soft(r) : Try(r, a, TRUE) /\ Account(a, [acc[a] EXCEPT !.probed = TRUE])
  <2>1. PICK a \in Soft(r) : Try(r, a, TRUE) /\ Account(a, [acc[a] EXCEPT !.probed = TRUE])
    BY <1>5
  <2>2. [acc[a] EXCEPT !.probed = TRUE] \in AccountState /\ a \in Accounts
    BY DEF Soft, IInv, AccountState
  <2> QED BY <1>5, <2>1, <2>2, TryMoves, AccountTyped
<1>6. CASE req[r].attempts < LoopLimit /\ Exhausted(r) /\ UNCHANGED acc
  BY <1>6, ExhaustedMoves, SameAcc
<1> QED BY <1>1, <1>2, <1>3, <1>4, <1>5, <1>6

\* Steps that only change "pc".
LEMMA TurnMoves ==
  ASSUME IInv, NEW r \in Requests, NEW pc \in PC, Goes(r, [req[r] EXCEPT !.pc = pc]),
         req[r].pc # "idle", ~req[r].taken, pc \notin {"out", "judge"},
         pc \in Attempting => req[r].at \in Accounts
  PROVE  Moves(r)
<1> DEFINE s == [req[r] EXCEPT !.pc = pc]
<1>1. Sensible(s) /\ Keeps(req[r], s)
  BY DEF IInv, Sensible, RequestState, Keeps
<1> QED BY <1>1, GoesMoves

LEMMA FreshenStep ==
  ASSUME IInv, NEW r \in Requests, Freshen(r)
  PROVE  Moves(r) /\ AccTyped'
<1>1. req[r].at \in Accounts /\ ~req[r].taken
  BY DEF IInv, Sensible, Freshen, Attempting
<1>2. Moves(r)
  BY <1>1, TurnMoves DEF Freshen, PC
<1>3. \A b \in BOOLEAN : [acc[req[r].at] EXCEPT !.err = b] \in AccountState
  BY <1>1 DEF IInv, AccountState
<1>4. AccTyped'
  BY <1>1, <1>3, AccountTyped, SameAcc DEF Freshen
<1> QED BY <1>2, <1>4

LEMMA AdmitStep ==
  ASSUME IInv, NEW r \in Requests, Admit(r)
  PROVE  Moves(r) /\ AccTyped'
<1>1. req[r].at \in Accounts /\ ~req[r].taken /\ req[r].pc \in Attempting
  BY DEF IInv, Sensible, Admit, Attempting
<1>2. CASE Failover(r)
  BY <1>1, <1>2, FailoverMoves, SameAcc DEF Admit
<1>3. CASE Goes(r, [req[r] EXCEPT !.pc = "wire"])
  BY <1>1, <1>3, TurnMoves, SameAcc DEF Admit, PC
<1> QED BY <1>2, <1>3 DEF Admit

LEMMA LeavesStep ==
  ASSUME IInv, NEW r \in Requests, Leaves(r)
  PROVE  Moves(r) /\ AccTyped'
<1> DEFINE q == req[r]
           s == [q EXCEPT !.pc = "out", !.taken = TRUE]
<1>1. q \in RequestState /\ q.pc = "wire" /\ q.at \in Accounts /\ ~q.taken
  BY DEF IInv, Sensible, Leaves, Attempting
<1>2. Goes(r, s) /\ UNCHANGED acc
  BY DEF Leaves
<1> HIDE DEF q
<1>3. Sensible(s) /\ Keeps(q, s)
  BY <1>1 DEF RequestState, PC, Sensible, Keeps
<1> HIDE DEF s
<1> QED BY <1>2, <1>3, GoesMoves, SameAcc DEF q

LEMMA ReceivedTyped ==
  ASSUME IInv, NEW r \in Requests, NEW k \in AllAnswers
  PROVE  LET q == Received(r, k)
         IN  /\ q \in RequestState /\ q.kind = k /\ q.taken = (k = "ok")
             /\ q.at = req[r].at
<1> DEFINE p == req[r]
           q == [p EXCEPT !.kind = k, !.taken = (k = "ok")]
<1>1. p \in RequestState /\ q = Received(r, k)
  BY DEF IInv, Received
<1> HIDE DEF p
<1>2. k \in AllAnswers \cup {"none"} /\ (k = "ok") \in BOOLEAN
  OBVIOUS
<1>3. q \in RequestState
  BY <1>1, <1>2 DEF RequestState
<1>4. q.kind = k /\ q.taken = (k = "ok") /\ q.at = p.at
  BY <1>1 DEF RequestState
<1> HIDE DEF q
<1> QED BY <1>1, <1>3, <1>4 DEF p

LEMMA HeadersStep ==
  ASSUME IInv, NEW r \in Requests, NEW k \in Answers, Headers(r, k)
  PROVE  Moves(r) /\ AccTyped'
<1>1. req[r].at \in Accounts /\ req[r].pc = "out" /\ k \in AllAnswers
  BY Upstreams DEF IInv, Sensible, Headers, Attempting
<1>2. Moves(r)
  <2> DEFINE q == Received(r, k)
  <2>1. q \in RequestState /\ q.kind = k /\ q.taken = (k = "ok") /\ q.at = req[r].at
    BY <1>1, ReceivedTyped
  <2> HIDE DEF q
  <2>2. Sensible([q EXCEPT !.pc = "judge"]) /\ Keeps(req[r], [q EXCEPT !.pc = "judge"])
    BY <1>1, <2>1 DEF RequestState, PC, Sensible, Keeps
  <2> QED BY <2>2, GoesMoves DEF q, Headers
<1>3. AccTyped'
  <2> DEFINE a == req[r].at
  <2>1. PICK reading \in {acc[a].full} \cup (IF a \in Sound THEN {FALSE} ELSE Readings) :
             \/ Account(a, [acc[a] EXCEPT !.full = reading])
             \/ Account(a, [Unheld(a) EXCEPT !.full = reading])
    BY DEF Headers
  <2>2. reading \in BOOLEAN
    BY <1>1, Upstreams DEF IInv, AccountState
  <2>3. [acc[a] EXCEPT !.full = reading] \in AccountState
    BY <1>1, <2>2 DEF IInv, AccountState
  <2>4. Unheld(a) \in AccountState
    BY <1>1, UnheldTyped
  <2>5. [Unheld(a) EXCEPT !.full = reading] \in AccountState
    BY <2>2, <2>4 DEF AccountState
  <2> QED BY <1>1, <2>1, <2>3, <2>5, AccountTyped
<1> QED BY <1>2, <1>3

\* What holds of a request whose answer is being judged.
LEMMA JudgedIs ==
  ASSUME IInv, NEW r \in Requests, NEW kinds, Judging(r, kinds)
  PROVE  /\ req[r].at \in Accounts /\ req[r].pc \in Attempting
         /\ "ok" \notin kinds => ~req[r].taken
BY DEF IInv, Sensible, Judging, Attempting

LEMMA RelayStep ==
  ASSUME IInv, NEW r \in Requests, Relay(r)
  PROVE  Moves(r) /\ AccTyped'
BY RestMoves, SameAcc DEF Relay, Judging, Verdicts

LEMMA MoveOnStep ==
  ASSUME IInv, NEW r \in Requests, MoveOn(r)
  PROVE  Moves(r) /\ AccTyped'
BY JudgedIs, FailoverMoves, SameAcc DEF MoveOn

LEMMA QuotaRejectedStep ==
  ASSUME IInv, NEW r \in Requests, QuotaRejected(r)
  PROVE  Moves(r) /\ AccTyped'
<1>1. req[r].at \in Accounts /\ req[r].pc \in Attempting /\ ~req[r].taken
  BY JudgedIs DEF QuotaRejected
<1>2. QuotaHold \in 0 .. QuotaHold
  BY DEF QuotaHold
<1> QED BY <1>1, <1>2, FailoverMoves, HoldTyped DEF QuotaRejected

LEMMA DeniedStep ==
  ASSUME IInv, NEW r \in Requests, Denied(r)
  PROVE  Moves(r) /\ AccTyped'
<1>1. req[r].at \in Accounts /\ req[r].pc \in Attempting /\ ~req[r].taken
  BY JudgedIs DEF Denied
<1>2. [acc[req[r].at] EXCEPT !.cool = TRUE] \in AccountState
  <2> DEFINE p == acc[req[r].at]
  <2>1. p \in AccountState
    BY <1>1 DEF IInv
  <2> HIDE DEF p
  <2>2. [p EXCEPT !.cool = TRUE] \in AccountState
    BY <2>1 DEF AccountState
  <2> QED BY <2>2 DEF p
<1> QED BY <1>1, <1>2, FailoverMoves, AccountTyped DEF Denied

LEMMA BareLimitStep ==
  ASSUME IInv, NEW r \in Requests, BareLimit(r)
  PROVE  Moves(r) /\ AccTyped'
<1> DEFINE a == req[r].at
           q == Throttled(a, Pause, FALSE)
<1>1. a \in Accounts /\ req[r].pc \in Attempting /\ ~req[r].taken
  BY JudgedIs DEF BareLimit
<1>2. [acc[a] EXCEPT !.bare = TRUE] \in AccountState
  BY <1>1 DEF IInv, AccountState
<1>3. Pause \in 0 .. QuotaHold /\ Pause \in 0 .. LongPause
  BY DEF Pause, QuotaHold, LongPause
<1>4. q \in AccountState
  BY <1>1, <1>3, ThrottledTyped
<1>5. CASE /\ Account(a, [acc[a] EXCEPT !.bare = TRUE]) /\ Goes(r, AtRest("refused"))
  BY <1>1, <1>2, <1>5, AccountTyped, RestMoves DEF Attempting, Verdicts
<1>6. CASE /\ Account(a, [q EXCEPT !.err = FALSE, !.bare = TRUE]) /\ RetrySame(r, Pause)
  <2> HIDE DEF q
  <2>1. [q EXCEPT !.err = FALSE, !.bare = TRUE] \in AccountState
    BY <1>4 DEF AccountState
  <2>2. AccTyped'
    BY <1>1, <1>6, <2>1, AccountTyped
  <2> QED BY <1>1, <1>3, <1>6, <2>2, RetrySameMoves
<1> QED BY <1>5, <1>6 DEF BareLimit

LEMMA TimedLimitStep ==
  ASSUME IInv, NEW r \in Requests, TimedLimit(r)
  PROVE  Moves(r) /\ AccTyped'
<1> DEFINE ra == IF req[r].kind = "short" THEN Pause ELSE LongPause
<1>1. req[r].at \in Accounts /\ req[r].pc \in Attempting /\ ~req[r].taken
  BY JudgedIs DEF TimedLimit
<1>2. ra \in 0 .. QuotaHold /\ ra \in 0 .. LongPause
  BY DEF Pause, QuotaHold, LongPause
<1>3. Hold(req[r].at, ra, FALSE) /\ (RetrySame(r, ra) \/ Hop(r))
  BY DEF TimedLimit
<1> HIDE DEF ra
<1>4. AccTyped'
  BY <1>1, <1>2, <1>3, HoldTyped
<1> QED BY <1>1, <1>2, <1>3, <1>4, RetrySameMoves, HopMoves

LEMMA UnauthorizedStep ==
  ASSUME IInv, NEW r \in Requests, Unauthorized(r)
  PROVE  Moves(r) /\ AccTyped'
<1>1. req[r].at \in Accounts /\ req[r].pc \in Attempting /\ ~req[r].taken
  BY JudgedIs DEF Unauthorized
<1>2. req[r].pc # "idle"
  BY <1>1 DEF Attempting
<1> QED BY <1>1, <1>2, TurnMoves, SameAcc DEF Unauthorized, PC

LEMMA AfterForcedStep ==
  ASSUME IInv, NEW r \in Requests, AfterForced(r)
  PROVE  Moves(r) /\ AccTyped'
<1>1. req[r].at \in Accounts /\ req[r].pc \in Attempting /\ ~req[r].taken
  BY DEF IInv, Sensible, AfterForced, Attempting
<1>2. \A b \in BOOLEAN : [acc[req[r].at] EXCEPT !.err = b] \in AccountState
  BY <1>1 DEF IInv, AccountState
<1>3. AccTyped'
  BY <1>1, <1>2, AccountTyped DEF AfterForced
<1>4. 0 \in 0 .. LongPause
  BY DEF LongPause
<1> QED BY <1>1, <1>3, <1>4, RetrySameMoves, FailoverMoves DEF AfterForced

LEMMA WakeStep ==
  ASSUME IInv, NEW r \in Requests, Wake(r)
  PROVE  Moves(r) /\ AccTyped'
<1>1. ~req[r].taken
  BY DEF IInv, Sensible, Wake
<1> QED BY <1>1, TurnMoves, SameAcc DEF Wake, PC, Attempting

LEMMA RequestStep ==
  ASSUME IInv, NEW r \in Requests, Arrive(r) \/ Step(r) \/ Cancel(r)
  PROVE  Moves(r) /\ AccTyped'
<1>1. CASE Cancel(r)
  BY <1>1, RestMoves, SameAcc DEF Cancel, Verdicts
<1>2. CASE ConnectFails(r)
  <2>1. req[r].at \in Accounts /\ req[r].pc \in Attempting /\ ~req[r].taken
    BY <1>2 DEF IInv, Sensible, ConnectFails, Attempting
  <2> QED BY <1>2, <2>1, FailoverMoves, SameAcc DEF ConnectFails
<1>3. CASE NoAnswer(r)
  BY <1>3, RestMoves, SameAcc DEF NoAnswer, Verdicts
<1>4. CASE \E k \in Answers : Headers(r, k)
  BY <1>4, HeadersStep
<1> QED
  BY <1>1, <1>2, <1>3, <1>4, ArriveStep, SelectStep, FreshenStep, AdmitStep, RelayStep,
     MoveOnStep, QuotaRejectedStep, DeniedStep, BareLimitStep, TimedLimitStep,
     UnauthorizedStep, AfterForcedStep, WakeStep, LeavesStep DEF Step

LEMMA MovesPreserves ==
  ASSUME IInv, NEW r \in Requests, Moves(r), AccTyped'
  PROVE  IInv'
BY DEF IInv, Moves, AccTyped, Sensible

---------------------------------------------------------------------------
\* Time: pauses, holds and deadlines shrink.
LEMMA TickStep ==
  ASSUME IInv, Tick
  PROVE  /\ IInv'
         /\ \A r \in Requests : req'[r].pc = req[r].pc /\ req'[r].taken = req[r].taken
<1>1. ASSUME NEW a \in Accounts PROVE acc'[a] \in AccountState
  <2>1. /\ Less(acc[a].held) \in 0 .. QuotaHold
        /\ acc[a] \in AccountState
    BY DEF IInv, AccountState, Less, QuotaHold
  <2>2. acc'[a] = [acc[a] EXCEPT !.held = Less(@), !.quota = @ /\ acc[a].held > 1]
    BY DEF Tick
  <2>3. (acc[a].quota /\ acc[a].held > 1) \in BOOLEAN
    OBVIOUS
  <2> QED BY <2>1, <2>2, <2>3 DEF AccountState
<1>2. ASSUME NEW r \in Requests
      PROVE  /\ Sensible(req'[r])
             /\ req'[r].pc = req[r].pc /\ req'[r].taken = req[r].taken
  <2>1. /\ Less(req[r].wait) \in 0 .. LongPause /\ Less(req[r].left) \in Nat
        /\ Sensible(req[r])
    BY DEF IInv, RequestState, Less, LongPause
  <2>2. req'[r] = [req[r] EXCEPT !.wait = Less(@), !.left = Less(@)]
    BY DEF Tick
  <2>3. req'[r] \in RequestState
    BY <2>1, <2>2 DEF RequestState, Sensible
  <2>4. /\ req'[r].pc = req[r].pc /\ req'[r].taken = req[r].taken /\ req'[r].at = req[r].at
        /\ req'[r].kind = req[r].kind
    BY <2>1, <2>2 DEF RequestState, Sensible
  <2> QED BY <2>1, <2>3, <2>4 DEF Sensible
<1>3. acc' = [a \in Accounts |-> acc'[a]] /\ req' = [r \in Requests |-> req'[r]]
  BY DEF Tick
<1> QED BY <1>1, <1>2, <1>3 DEF IInv, Sensible

LEMMA OutsideStep ==
  ASSUME IInv, NEW a \in Accounts, Recovers(a) \/ UsageRead(a)
  PROVE  IInv' /\ UNCHANGED req
<1>1. AccTyped' /\ UNCHANGED req
  <2>1. CASE Recovers(a)
    <3>1. /\ [acc[a] EXCEPT !.full = FALSE] \in AccountState
          /\ [acc[a] EXCEPT !.cool = FALSE] \in AccountState
          /\ [acc[a] EXCEPT !.bare = FALSE] \in AccountState
          /\ [acc[a] EXCEPT !.probed = FALSE] \in AccountState
          /\ [acc[a] EXCEPT !.err = FALSE] \in AccountState
      BY DEF IInv, AccountState
    <3> QED BY <2>1, <3>1, AccountTyped DEF Recovers
  <2>2. CASE UsageRead(a)
    <3>1. PICK reading \in (IF a \in Sound THEN {FALSE} ELSE Readings) :
               \/ Account(a, [Unheld(a) EXCEPT !.full = FALSE, !.probed = TRUE])
               \/ Account(a, [acc[a] EXCEPT !.full = reading, !.probed = TRUE])
      BY <2>2 DEF UsageRead
    <3>2. reading \in BOOLEAN /\ Unheld(a) \in AccountState /\ acc[a] \in AccountState
      BY Upstreams, UnheldTyped DEF IInv
    <3>3. [Unheld(a) EXCEPT !.full = FALSE, !.probed = TRUE] \in AccountState
      BY <3>2 DEF AccountState
    <3>4. [acc[a] EXCEPT !.full = reading, !.probed = TRUE] \in AccountState
      BY <3>2 DEF AccountState
    <3> QED BY <2>2, <3>1, <3>3, <3>4, AccountTyped DEF UsageRead
  <2> QED BY <2>1, <2>2
<1> QED BY <1>1 DEF IInv, AccTyped, Sensible

LEMMA StepPreserves ==
  ASSUME IInv, [Next]_vars
  PROVE  IInv'
<1>1. CASE \E r \in Requests : Arrive(r) \/ Step(r) \/ Cancel(r)
  BY <1>1, RequestStep, MovesPreserves
<1>2. CASE \E a \in Accounts : Recovers(a) \/ UsageRead(a)
  BY <1>2, OutsideStep
<1>3. CASE Tick
  BY <1>3, TickStep
<1>4. CASE UNCHANGED vars
  BY <1>4 DEF vars, IInv, Sensible
<1> QED BY <1>1, <1>2, <1>3, <1>4 DEF Next

LEMMA InitIInv == Init => IInv
<1> SUFFICES ASSUME Init PROVE IInv
  OBVIOUS
<1>1. Healthy \in AccountState
  BY DEF Healthy, AccountState, QuotaHold
<1>2. Sensible(AtRest("none"))
  BY Limits DEF Sensible, AtRest, RequestState, PC, Verdicts, LoopLimit, LongPause, Attempting
<1>3. \A r \in Requests : req[r] = AtRest("none")
  BY DEF Init
<1> QED BY <1>1, <1>2, <1>3 DEF Init, IInv, Sensible

LEMMA AlwaysIInv == Spec => []IInv
<1>1. IInv /\ [Next]_vars => IInv'
  BY StepPreserves
<1> QED BY InitIInv, <1>1, PTL DEF Spec

\* The loop is type correct: its counters never pass their bounds, and an
\* attempt is always made on an account of the pool (forward.rs:137-306).
THEOREM TypeCorrect == Spec => []TypeOK
<1>1. IInv => TypeOK
  BY DEF IInv, TypeOK
<1> QED BY AlwaysIInv, <1>1, PTL

---------------------------------------------------------------------------
(* The refinement.                                                         *)

LEMMA Mapped ==
  ASSUME IInv, NEW r \in Requests, Moves(r)
  PROVE  /\ Phase' = [Phase EXCEPT ![r] = PhaseOf(req'[r])]
         /\ Billed' = [Billed EXCEPT ![r] = req'[r].taken]
<1>1. \A s \in Requests : s # r => req'[s] = req[s]
  BY DEF Moves, IInv
<1> QED BY <1>1 DEF Phase, Billed

LEMMA MoveMaps ==
  ASSUME IInv, NEW r \in Requests, Moves(r)
  PROVE  [OA!Next]_OA!vars
<1> DEFINE q == req[r]
           s == req'[r]
<1>1. /\ Phase' = [Phase EXCEPT ![r] = PhaseOf(s)]
      /\ Billed' = [Billed EXCEPT ![r] = s.taken]
      /\ Phase[r] = PhaseOf(q) /\ Billed[r] = q.taken
      /\ Phase = [Phase EXCEPT ![r] = Phase[r]]
      /\ Billed = [Billed EXCEPT ![r] = Billed[r]]
  BY Mapped DEF Phase, Billed
<1>2. /\ Sensible(q) /\ Sensible(s) /\ Keeps(q, s)
      /\ q.taken \in BOOLEAN /\ s.taken \in BOOLEAN
  BY DEF IInv, Moves, Sensible, RequestState
<1> HIDE DEF q, s
<1>3. CASE s.pc = "idle"
  <2>1. PhaseOf(s) = "idle" /\ s.taken = FALSE
    BY <1>2, <1>3 DEF PhaseOf, Sensible
  <2>2. CASE q.pc = "idle"
    BY <1>2, <1>3, <2>2 DEF Keeps
  <2>3. CASE q.pc # "idle"
    <3>1. Phase[r] # "idle"
      BY <1>1, <2>3 DEF PhaseOf
    <3>2. OA!Answered(r)
      BY <1>1, <2>1, <3>1 DEF OA!Answered
    <3> QED BY <3>2 DEF OA!Next
  <2> QED BY <2>2, <2>3
<1>4. CASE s.pc # "idle" /\ q.pc = "idle"
  <2>1. /\ Phase[r] = "idle" /\ PhaseOf(s) = "trying" /\ s.taken = Billed[r]
    BY <1>1, <1>2, <1>4 DEF PhaseOf, Keeps, Sensible
  <2>2. OA!Ask(r)
    BY <1>1, <2>1 DEF OA!Ask
  <2> QED BY <2>2 DEF OA!Next
<1>5. CASE s.pc = "out"
  <2>1. Phase[r] = "trying" /\ ~Billed[r] /\ PhaseOf(s) = "out" /\ s.taken = TRUE
    BY <1>1, <1>2, <1>5 DEF PhaseOf, Keeps, Sensible
  <2>2. OA!Send(r)
    BY <1>1, <2>1 DEF OA!Send
  <2> QED BY <2>2 DEF OA!Next
<1>6. CASE s.pc = "judge"
  <2>1. Phase[r] = "out" /\ Billed[r] = TRUE /\ PhaseOf(s) = Phase[r]
    BY <1>1, <1>2, <1>6 DEF PhaseOf, Keeps, Sensible
  <2>2. CASE s.taken
    BY <1>1, <1>2, <2>1, <2>2 DEF OA!vars
  <2>3. CASE ~s.taken
    <3>1. OA!Refused(r)
      BY <1>1, <1>2, <2>1, <2>3 DEF OA!Refused
    <3> QED BY <3>1 DEF OA!Next
  <2> QED BY <2>2, <2>3
<1>7. CASE q.pc \in {"out", "judge"} /\ s.pc \notin {"idle", "out", "judge"}
  <2>1. Phase[r] = "out" /\ ~Billed[r] /\ PhaseOf(s) = "trying" /\ s.taken = Billed[r]
    BY <1>1, <1>2, <1>7 DEF PhaseOf, Keeps, Sensible
  <2>2. OA!ComesBack(r)
    BY <1>1, <2>1 DEF OA!ComesBack
  <2> QED BY <2>2 DEF OA!Next
<1>8. CASE q.pc \notin {"idle", "out", "judge"} /\ s.pc \notin {"idle", "out", "judge"}
  <2>1. PhaseOf(s) = Phase[r] /\ s.taken = Billed[r]
    BY <1>1, <1>2, <1>8 DEF PhaseOf, Keeps, Sensible
  <2> QED BY <1>1, <2>1 DEF OA!vars
<1> QED BY <1>2, <1>3, <1>4, <1>5, <1>6, <1>7, <1>8

\* A request that has left is sent again only after its upstream has answered
\* that it did not run it, and is answered once: the loop implements OneAnswer
\* (the comment at forward.rs:427), for every pool and every bound.
THEOREM ImplementsOneAnswer == Spec => Implements
<1>1. Init => OA!Init
  BY DEF Init, OA!Init, Phase, Billed, PhaseOf, AtRest
<1>2. IInv /\ [Next]_vars => [OA!Next]_OA!vars
  <2> SUFFICES ASSUME IInv, [Next]_vars PROVE [OA!Next]_OA!vars
    OBVIOUS
  <2>1. CASE \E r \in Requests : Arrive(r) \/ Step(r) \/ Cancel(r)
    BY <2>1, RequestStep, MoveMaps
  <2>2. CASE \E a \in Accounts : Recovers(a) \/ UsageRead(a)
    BY <2>2, OutsideStep DEF OA!vars, Phase, Billed
  <2>3. CASE Tick
    BY <2>3, TickStep DEF OA!vars, Phase, Billed, PhaseOf
  <2>4. CASE UNCHANGED vars
    BY <2>4 DEF vars, OA!vars, Phase, Billed
  <2> QED BY <2>1, <2>2, <2>3, <2>4 DEF Next
<1> QED BY <1>1, <1>2, AlwaysIInv, PTL DEF Spec, Implements, OA!Spec

---------------------------------------------------------------------------
(* Headroom.  An account that works is never found wanting (Works), so it  *)
(* is never added to what a request has tried.  As many attempts as a      *)
(* request has made, so many accounts it has tried or retries it has spent *)
(* (Counted), and those that do not work are fewer than MaxAttempts.       *)

\* Nothing makes it unavailable.
Works(s) == ~s.err /\ s.held = 0 /\ ~s.cool /\ ~s.full

\* An answer held against an account is not one that a sound account gives.
Blames(q) == \/ q.pc = "forced"
             \/ q.pc = "judge" /\ q.kind # "ok"

\* Answers that say nothing could serve the request.
Unserved == {"spent", "failing", "tooMany", "gaveUp"}

UnderAttempt(q) == IF q.pc \in Attempting THEN 1 ELSE 0

Counted(q) ==
  /\ q.tried \cap Sound = {}
  /\ q.attempts = Cardinality(q.tried) + q.retries + UnderAttempt(q)
  /\ q.pc \in Attempting => q.at \notin q.tried
  /\ q.answer \notin Unserved

SoundWork == \A a \in Sound : Works(acc[a])
NoneBlamed == \A r \in Requests : Blames(req[r]) => req[r].at \notin Sound
AllCounted == \A r \in Requests : ~Pinned(r) => Counted(req[r])
Headroom == Sound # {} /\ Cardinality(Accounts) <= MaxAttempts

SoundInv == SoundWork /\ NoneBlamed /\ (Headroom => AllCounted)

---------------------------------------------------------------------------
\* What is known of a sound account stays so.
LEMMA StillWork ==
  ASSUME IInv, SoundWork, NEW a \in Accounts, NEW s, Account(a, s),
         a \in Sound => Works(s)
  PROVE  SoundWork'
BY Upstreams DEF IInv, SoundWork, Account

LEMMA SameWork == ASSUME SoundWork, UNCHANGED acc PROVE SoundWork'
BY DEF SoundWork

\* Where a request goes when its attempt ends, nothing is held against an
\* account.
LEMMA EndsClear ==
  ASSUME IInv, NEW r \in Requests, req[r].at \in Accounts, ~req[r].taken,
         \/ Failover(r) \/ Hop(r)
         \/ \E w \in 0 .. LongPause : RetrySame(r, w)
         \/ \E v \in Verdicts : Goes(r, AtRest(v))
  PROVE  ~Blames(req'[r])
<1>1. \A s : Goes(r, s) => req'[r] = s
  BY DEF Goes, IInv
<1>2. \A v : ~Blames(AtRest(v))
  BY DEF Blames, AtRest
<1>3. Excluding(r) \in RequestState /\ Excluding(r).pc = "select"
  BY ExcludingTyped
<1>4. ~Blames(Excluding(r)) /\ ~Blames([Excluding(r) EXCEPT !.hops = @ + 1])
  BY <1>3 DEF Blames, RequestState
<1>5. CASE Failover(r)
  BY <1>1, <1>2, <1>4, <1>5 DEF Failover
<1>6. CASE Hop(r)
  BY <1>1, <1>2, <1>4, <1>6 DEF Hop
<1>7. ASSUME NEW w \in 0 .. LongPause, RetrySame(r, w) PROVE ~Blames(req'[r])
  <2>1. CASE req[r].retries < MaxRetries /\ Goes(r, Retrying(r, w))
    <3>1. Retrying(r, w).pc = "sleep"
      BY <2>1, RetryingTyped
    <3> QED BY <1>1, <2>1, <3>1 DEF Blames
  <2>2. CASE Goes(r, AtRest("persisted"))
    BY <1>1, <1>2, <2>2
  <2>3. req[r].retries >= MaxRetries \/ req[r].retries < MaxRetries
    BY Limits DEF IInv, RequestState
  <2> QED BY <1>7, <2>1, <2>2, <2>3 DEF RetrySame
<1> QED BY <1>1, <1>2, <1>5, <1>6, <1>7

\* An answer that is held against the account does not come from a sound one.
LEMMA JudgedUnsound ==
  ASSUME IInv, NoneBlamed, NEW r \in Requests, NEW kinds, Judging(r, kinds), "ok" \notin kinds
  PROVE  /\ req[r].at \in Accounts \ Sound /\ req[r].pc \in Attempting
         /\ ~req[r].taken
BY JudgedIs DEF NoneBlamed, Blames, Judging

LEMMA ForcedUnsound ==
  ASSUME IInv, NoneBlamed, NEW r \in Requests, AfterForced(r)
  PROVE  /\ req[r].at \in Accounts \ Sound /\ req[r].pc \in Attempting
         /\ ~req[r].taken
BY DEF IInv, Sensible, NoneBlamed, Blames, AfterForced, Attempting

\* A hold, an error, a cooldown is put on an account that does not work.
LEMMA UnsoundTouched ==
  ASSUME IInv, SoundWork, NEW a \in Accounts \ Sound,
         \/ \E s : Account(a, s)
         \/ \E t, b : Hold(a, t, b)
  PROVE  SoundWork'
BY StillWork DEF Hold

LEMMA FailedClear ==
  ASSUME IInv, SoundWork, NoneBlamed, NEW r \in Requests,
         \/ MoveOn(r) \/ QuotaRejected(r) \/ Denied(r) \/ BareLimit(r)
         \/ TimedLimit(r) \/ AfterForced(r)
  PROVE  SoundWork' /\ ~Blames(req'[r])
<1> DEFINE a == req[r].at
<1>0. Pause \in 0 .. LongPause /\ LongPause \in 0 .. LongPause /\ 0 \in 0 .. LongPause
  BY DEF Pause, LongPause
<1>1. CASE MoveOn(r)
  <2>1. a \in Accounts /\ ~req[r].taken
    BY <1>1, JudgedIs DEF MoveOn
  <2> QED BY <1>1, <2>1, EndsClear, SameWork DEF MoveOn
<1>2. CASE QuotaRejected(r)
  <2>1. a \in Accounts \ Sound /\ ~req[r].taken
    BY <1>2, JudgedUnsound DEF QuotaRejected
  <2> QED BY <1>2, <2>1, EndsClear, UnsoundTouched DEF QuotaRejected
<1>3. CASE Denied(r)
  <2>1. a \in Accounts \ Sound /\ ~req[r].taken
    BY <1>3, JudgedUnsound DEF Denied
  <2> QED BY <1>3, <2>1, EndsClear, UnsoundTouched DEF Denied
<1>4. CASE BareLimit(r)
  <2>1. a \in Accounts \ Sound /\ ~req[r].taken
    BY <1>4, JudgedUnsound DEF BareLimit
  <2>2. \E s : Account(a, s)
    BY <1>4 DEF BareLimit
  <2>3. (\E v \in Verdicts : Goes(r, AtRest(v))) \/ RetrySame(r, Pause)
    BY <1>4 DEF BareLimit, Verdicts
  <2> QED BY <1>0, <2>1, <2>2, <2>3, EndsClear, UnsoundTouched
<1>5. CASE TimedLimit(r)
  <2>1. a \in Accounts \ Sound /\ ~req[r].taken
    BY <1>5, JudgedUnsound DEF TimedLimit
  <2>2. PICK w \in {Pause, LongPause} : Hold(a, w, FALSE) /\ (RetrySame(r, w) \/ Hop(r))
    BY <1>5 DEF TimedLimit
  <2> QED BY <1>0, <2>1, <2>2, EndsClear, UnsoundTouched
<1>6. CASE AfterForced(r)
  <2>1. a \in Accounts \ Sound /\ ~req[r].taken
    BY <1>6, ForcedUnsound
  <2>2. (\E s : Account(a, s)) /\ (RetrySame(r, 0) \/ Failover(r))
    BY <1>6 DEF AfterForced
  <2> QED BY <1>0, <2>1, <2>2, EndsClear, UnsoundTouched
<1> QED BY <1>1, <1>2, <1>3, <1>4, <1>5, <1>6

\* Headers: what a sound upstream says leaves its account working.
LEMMA HeadersWork ==
  ASSUME IInv, SoundWork, NEW r \in Requests, NEW k \in Answers, Headers(r, k)
  PROVE  SoundWork' /\ (Blames(req'[r]) => req'[r].at \notin Sound)
<1> DEFINE a == req[r].at
           q == Received(r, k)
<1>1. a \in Accounts /\ req[r].pc = "out" /\ k \in AllAnswers /\ (a \in Sound => k = "ok")
  BY Upstreams DEF IInv, Sensible, Headers, Attempting, CanAnswer
<1>2. q \in RequestState /\ q.kind = k /\ q.at = a
  BY <1>1, ReceivedTyped
<1>3. req'[r] = [q EXCEPT !.pc = "judge"]
  BY DEF Headers, Goes, IInv
<1> HIDE DEF q
<1>4. req'[r].kind = k /\ req'[r].at = a /\ req'[r].pc = "judge"
  BY <1>2, <1>3 DEF RequestState
<1>5. SoundWork'
  <2>1. CASE a \notin Sound
    <3>1. \E s : Account(a, s)
      BY DEF Headers
    <3> QED BY <1>1, <2>1, <3>1, UnsoundTouched
  <2>2. CASE a \in Sound
    <3>1. acc[a] \in AccountState /\ Works(acc[a])
      BY <1>1, <2>2 DEF IInv, SoundWork
    <3>2. Account(a, [Unheld(a) EXCEPT !.full = FALSE])
      <4>1. PICK reading \in {acc[a].full} \cup {FALSE} :
                 Account(a, [Unheld(a) EXCEPT !.full = reading])
        BY <1>1, <2>2 DEF Headers
      <4>2. reading = FALSE
        BY <3>1, <4>1 DEF Works, AccountState
      <4> QED BY <4>1, <4>2
    <3>3. Works([Unheld(a) EXCEPT !.full = FALSE])
      BY <3>1 DEF Works, Unheld, Throttled, AccountState
    <3> QED BY <1>1, <3>2, <3>3, StillWork
  <2> QED BY <2>1, <2>2
<1> QED BY <1>1, <1>4, <1>5 DEF Blames

LEMMA SelectWorks ==
  ASSUME IInv, SoundWork, NEW r \in Requests, Select(r)
  PROVE  SoundWork' /\ ~Blames(req'[r])
<1>1. \A s : Goes(r, s) => req'[r] = s
  BY DEF Goes, IInv
<1>2. req[r] \in RequestState
  BY DEF IInv
<1>3. \A v : Goes(r, AtRest(v)) => ~Blames(req'[r])
  BY <1>1 DEF Blames, AtRest
<1>4. ASSUME NEW a, NEW l, Try(r, a, l) PROVE ~Blames(req'[r])
  <2>1. req'[r] = [Chosen(r, a) EXCEPT !.pc = "fresh", !.live = l]
    BY <1>1, <1>4 DEF Try
  <2>2. req'[r].pc = "fresh"
    BY <1>2, <2>1 DEF Chosen, RequestState
  <2> QED BY <2>2 DEF Blames
<1>5. ASSUME Exhausted(r) PROVE ~Blames(req'[r])
  <2>1. CASE \E w : Goes(r, [Sleeping(r, w) EXCEPT !.attempts = @ + 1, !.tried = {}])
    <3>1. PICK w : req'[r] = [Sleeping(r, w) EXCEPT !.attempts = @ + 1, !.tried = {}]
      BY <1>1, <2>1
    <3>2. req'[r].pc = "sleep"
      BY <1>2, <3>1 DEF Sleeping, RequestState
    <3> QED BY <3>2 DEF Blames
  <2>2. CASE \E v : Goes(r, AtRest(v))
    BY <1>3, <2>2
  <2> QED BY <1>5, <2>1, <2>2 DEF Exhausted
<1>6. ~Blames(req'[r])
  BY <1>3, <1>4, <1>5 DEF Select
<1>7. CASE UNCHANGED acc
  BY <1>6, <1>7, SameWork
<1>8. CASE \E a \in Soft(r) : Account(a, [acc[a] EXCEPT !.probed = TRUE])
  <2>1. PICK a \in Soft(r) : Account(a, [acc[a] EXCEPT !.probed = TRUE])
    BY <1>8
  <2>2. a \in Accounts /\ acc[a] \in AccountState
    BY DEF Soft, IInv
  <2>3. Works(acc[a]) => Works([acc[a] EXCEPT !.probed = TRUE])
    BY <2>2 DEF Works, AccountState
  <2> QED BY <1>6, <2>1, <2>2, <2>3, StillWork DEF SoundWork
<1> QED BY <1>7, <1>8 DEF Select

LEMMA FreshenWorks ==
  ASSUME IInv, SoundWork, NEW r \in Requests, Freshen(r)
  PROVE  SoundWork' /\ ~Blames(req'[r])
<1> DEFINE a == req[r].at
<1>1. a \in Accounts /\ acc[a] \in AccountState /\ req[r] \in RequestState
  BY DEF IInv, Sensible, Freshen, Attempting
<1>2. req'[r] = [req[r] EXCEPT !.pc = "admit"]
  BY DEF Freshen, Goes, IInv
<1>3. ~Blames(req'[r])
  BY <1>1, <1>2 DEF RequestState, Blames
<1>4. Works(acc[a]) => Works([acc[a] EXCEPT !.err = FALSE])
  BY <1>1 DEF Works, AccountState
<1>5. CASE a \notin Sound
  BY <1>1, <1>3, <1>5, UnsoundTouched, SameWork DEF Freshen
<1>6. CASE a \in Sound
  BY <1>1, <1>3, <1>4, <1>6, StillWork, SameWork DEF Freshen, SoundWork
<1> QED BY <1>5, <1>6

\* A step of one request leaves the sound accounts working.
LEMMA RequestWorks ==
  ASSUME IInv, SoundWork, NoneBlamed, NEW r \in Requests, Arrive(r) \/ Step(r) \/ Cancel(r)
  PROVE  SoundWork' /\ (Blames(req'[r]) => req'[r].at \notin Sound)
<1>1. \A s : Goes(r, s) => req'[r] = s
  BY DEF Goes, IInv
<1>2. req[r] \in RequestState /\ Sensible(req[r])
  BY DEF IInv
<1>3. \A v : Goes(r, AtRest(v)) => ~Blames(req'[r])
  BY <1>1 DEF Blames, AtRest
<1>4. CASE Cancel(r) \/ NoAnswer(r) \/ Relay(r)
  BY <1>3, <1>4, SameWork DEF Cancel, NoAnswer, Relay
<1>5. CASE Arrive(r)
  <2>1. req'[r] = [AtRest("none") EXCEPT !.pc = "select", !.left = HoldTicks[r]]
    BY <1>1, <1>5 DEF Arrive
  <2>2. req'[r].pc = "select"
    BY <2>1 DEF AtRest
  <2> QED BY <1>5, <2>2, SameWork DEF Arrive, Blames
<1>6. CASE Admit(r)
  <2>1. req[r].at \in Accounts /\ ~req[r].taken
    BY <1>2, <1>6 DEF Sensible, Admit, Attempting
  <2>2. CASE Failover(r)
    BY <1>6, <2>1, <2>2, EndsClear, SameWork DEF Admit
  <2>3. CASE Goes(r, [req[r] EXCEPT !.pc = "wire"])
    <3>1. req'[r].pc = "wire"
      BY <1>1, <1>2, <2>3 DEF RequestState
    <3> QED BY <1>6, <3>1, SameWork DEF Admit, Blames
  <2> QED BY <1>6, <2>2, <2>3 DEF Admit
<1>7. CASE ConnectFails(r)
  <2>1. req[r].at \in Accounts /\ ~req[r].taken
    BY <1>2, <1>7 DEF Sensible, ConnectFails, Attempting
  <2> QED BY <1>7, <2>1, EndsClear, SameWork DEF ConnectFails
<1>8. CASE Unauthorized(r)
  <2>1. req[r].at \notin Sound
    BY <1>8, JudgedUnsound DEF Unauthorized
  <2>2. req'[r].at = req[r].at
    BY <1>1, <1>2, <1>8 DEF Unauthorized, RequestState
  <2> QED BY <1>8, <2>1, <2>2, SameWork DEF Unauthorized
<1>9. CASE Wake(r)
  <2>1. req'[r].pc = "select"
    BY <1>1, <1>2, <1>9 DEF Wake, RequestState
  <2> QED BY <1>9, <2>1, SameWork DEF Wake, Blames
<1>10. CASE Leaves(r)
  <2>1. req'[r].pc = "out"
    BY <1>1, <1>2, <1>10 DEF Leaves, RequestState
  <2> QED BY <1>10, <2>1, SameWork DEF Leaves, Blames
<1> QED
  BY <1>4, <1>5, <1>6, <1>7, <1>8, <1>9, <1>10, SelectWorks, FreshenWorks, HeadersWork,
     FailedClear
     DEF Step

\* Time and everyone else leave them working.
LEMMA OutsideWorks ==
  ASSUME IInv, SoundWork, (\E a \in Accounts : Recovers(a) \/ UsageRead(a)) \/ Tick
  PROVE  SoundWork'
<1>1. CASE Tick
  <2> SUFFICES ASSUME NEW a \in Sound PROVE Works(acc'[a])
    BY DEF SoundWork
  <2>1. a \in Accounts /\ acc[a] \in AccountState /\ Works(acc[a])
    BY Upstreams DEF IInv, SoundWork
  <2>2. acc'[a] = [acc[a] EXCEPT !.held = Less(@), !.quota = @ /\ acc[a].held > 1]
    BY <1>1, <2>1 DEF Tick
  <2>3. Less(acc[a].held) = 0
    BY <2>1 DEF Less, Works
  <2> QED BY <2>1, <2>2, <2>3 DEF Works, AccountState
<1>2. ASSUME NEW a \in Accounts, Recovers(a) \/ UsageRead(a) PROVE SoundWork'
  <2>1. CASE a \notin Sound
    <3>1. \E s : Account(a, s)
      BY <1>2 DEF Recovers, UsageRead
    <3> QED BY <2>1, <3>1, UnsoundTouched
  <2>2. CASE a \in Sound
    <3>1. acc[a] \in AccountState /\ Works(acc[a])
      BY <2>2 DEF IInv, SoundWork
    <3>2. PICK s : /\ Account(a, s)
                   /\ \/ s = [acc[a] EXCEPT !.full = FALSE]
                      \/ s = [acc[a] EXCEPT !.cool = FALSE]
                      \/ s = [acc[a] EXCEPT !.bare = FALSE]
                      \/ s = [acc[a] EXCEPT !.probed = FALSE]
                      \/ s = [acc[a] EXCEPT !.err = FALSE]
                      \/ s = [Unheld(a) EXCEPT !.full = FALSE, !.probed = TRUE]
                      \/ s = [acc[a] EXCEPT !.full = FALSE, !.probed = TRUE]
      BY <1>2, <2>2 DEF Recovers, UsageRead
    <3>3. Works(s)
      BY <3>1, <3>2 DEF Works, Unheld, Throttled, AccountState
    <3> QED BY <3>2, <3>3, StillWork
  <2> QED BY <2>1, <2>2
<1> QED BY <1>1, <1>2

---------------------------------------------------------------------------
\* Counting.  A request that ends has made no attempt.
LEMMA RestCounted ==
  ASSUME NEW v, v \notin Unserved
  PROVE  Counted(AtRest(v))
BY FS_EmptySet DEF Counted, AtRest, UnderAttempt, Attempting

\* Accounts that do not work are fewer than the attempts allowed.
LEMMA UnsoundFew ==
  ASSUME Headroom, NEW S \in SUBSET Accounts, S \cap Sound = {}
  PROVE  IsFiniteSet(S) /\ Cardinality(S) \in Nat /\ Cardinality(S) < MaxAttempts
<1>1. PICK a \in Sound : a \in Accounts
  BY Upstreams DEF Headroom
<1>2. S \subseteq Accounts \ {a}
  BY <1>1
<1>3. IsFiniteSet(Accounts \ {a}) /\ Cardinality(Accounts \ {a}) = Cardinality(Accounts) - 1
  BY <1>1, Pool, FS_RemoveElement
<1>4. IsFiniteSet(S) /\ Cardinality(S) <= Cardinality(Accounts \ {a})
  BY <1>2, <1>3, FS_Subset
<1>5. Cardinality(S) \in Nat /\ Cardinality(Accounts) \in Nat
  BY <1>4, Pool, FS_CardinalityType
<1> QED BY <1>3, <1>4, <1>5, Limits DEF Headroom

\* One more account tried, one attempt behind.
LEMMA ExcludingCounted ==
  ASSUME IInv, Headroom, NEW r \in Requests, Counted(req[r]), ~req[r].taken,
         req[r].pc \in Attempting, req[r].at \in Accounts \ Sound
  PROVE  /\ Counted(Excluding(r))
         /\ Cardinality(Excluding(r).tried) < MaxAttempts
         /\ Excluding(r) \in RequestState
<1> DEFINE q == req[r]
           tried == q.tried \cup {q.at}
           s == [q EXCEPT !.pc = "select", !.tried = tried]
<1>1. q \in RequestState /\ q.tried \in SUBSET Accounts /\ q.retries \in Nat
  BY Limits DEF IInv, RequestState
<1>2. tried \in SUBSET Accounts /\ tried \cap Sound = {}
  BY <1>1 DEF Counted
<1>3. IsFiniteSet(q.tried) /\ Cardinality(q.tried) \in Nat /\ q.at \notin q.tried
  BY <1>1, UnsoundFew DEF Counted
<1>4. Cardinality(tried) = Cardinality(q.tried) + 1
  BY <1>3, FS_AddElement
<1>5. Cardinality(tried) < MaxAttempts
  BY <1>2, UnsoundFew
<1>6. q.attempts = Cardinality(q.tried) + q.retries + 1 /\ q.answer \notin Unserved
  BY DEF Counted, UnderAttempt
<1>7. s = Excluding(r) /\ s \in RequestState
  BY ExcludingTyped DEF Excluding
<1> HIDE DEF tried, q
<1>8. /\ s.pc = "select" /\ s.tried = tried /\ s.attempts = q.attempts
      /\ s.retries = q.retries /\ s.answer = q.answer
  BY <1>1 DEF RequestState
<1> HIDE DEF s
<1>9. Counted(s)
  BY <1>1, <1>2, <1>3, <1>4, <1>6, <1>8 DEF Counted, UnderAttempt, Attempting
<1> QED BY <1>5, <1>7, <1>8, <1>9

LEMMA FailoverCounted ==
  ASSUME IInv, Headroom, NEW r \in Requests, Counted(req[r]), ~req[r].taken,
         req[r].pc \in Attempting, req[r].at \in Accounts \ Sound,
         ~Pinned(r), Failover(r) \/ Hop(r)
  PROVE  Counted(req'[r])
<1> DEFINE e == Excluding(r)
<1>1. Counted(e) /\ Cardinality(e.tried) < MaxAttempts /\ e \in RequestState
  BY ExcludingCounted
<1>2. Cardinality(e.tried) \in Nat
  BY <1>1, UnsoundFew DEF Counted, RequestState
<1>3. ~(Cardinality(e.tried) >= MaxAttempts)
  BY <1>1, <1>2, Limits
<1>4. \A s : Goes(r, s) => req'[r] = s
  BY DEF Goes, IInv
<1>5. CASE Failover(r)
  BY <1>1, <1>3, <1>4, <1>5 DEF Failover
<1>6. CASE Goes(r, AtRest("limited"))
  BY <1>4, <1>6, RestCounted DEF Unserved
<1>7. CASE Goes(r, [e EXCEPT !.hops = @ + 1])
  <2> DEFINE s == [e EXCEPT !.hops = @ + 1]
  <2> HIDE DEF e
  <2>1. /\ s.pc = e.pc /\ s.tried = e.tried /\ s.attempts = e.attempts /\ s.at = e.at
        /\ s.retries = e.retries /\ s.answer = e.answer
    BY <1>1 DEF RequestState
  <2>2. req'[r] = s
    BY <1>4, <1>7
  <2> HIDE DEF s
  <2> QED BY <1>1, <2>1, <2>2 DEF Counted, UnderAttempt
<1> QED BY <1>3, <1>5, <1>6, <1>7 DEF Hop

\* One more retry, one attempt behind.
LEMMA RetrySameCounted ==
  ASSUME IInv, Headroom, NEW r \in Requests, Counted(req[r]), ~req[r].taken,
         req[r].pc \in Attempting, NEW w \in 0 .. LongPause, RetrySame(r, w)
  PROVE  Counted(req'[r])
<1> DEFINE q == req[r]
           s == [Sleeping(r, w) EXCEPT !.retries = @ + 1, !.tried = @ \ {q.at}]
<1>1. q \in RequestState /\ q.tried \in SUBSET Accounts /\ q.retries \in Nat /\ q.attempts \in Nat
  BY Limits DEF IInv, RequestState, LoopLimit
<1>2. IsFiniteSet(q.tried) /\ Cardinality(q.tried) \in Nat /\ q.tried \ {q.at} = q.tried
  BY <1>1, UnsoundFew DEF Counted
<1>3. CASE Goes(r, AtRest("persisted"))
  <2>1. req'[r] = AtRest("persisted")
    BY <1>3 DEF Goes, IInv
  <2> QED BY <2>1, RestCounted DEF Unserved
<1>4. CASE Goes(r, Retrying(r, w))
  <2>1. req'[r] = s
    BY <1>4 DEF Goes, IInv, Retrying
  <2>2. /\ s.pc = "sleep" /\ s.tried = q.tried /\ s.attempts = q.attempts
        /\ s.retries = q.retries + 1 /\ s.answer = q.answer
    BY <1>1, <1>2 DEF Sleeping, RequestState
  <2>3. q.attempts = Cardinality(q.tried) + q.retries + 1
    BY DEF Counted, UnderAttempt
  <2> HIDE DEF s
  <2>4. UnderAttempt(s) = 0
    BY <2>2 DEF UnderAttempt, Attempting
  <2> HIDE DEF q
  <2>5. s.attempts = Cardinality(s.tried) + s.retries + 0
    BY <1>1, <1>2, <2>2, <2>3
  <2>6. Counted(q)
    BY DEF q
  <2> QED BY <2>1, <2>2, <2>4, <2>5, <2>6 DEF Counted, Attempting
<1> QED BY <1>3, <1>4 DEF RetrySame

\* The account with headroom is available, so a request is never without one,
\* and never out of attempts.
LEMMA SelectCounted ==
  ASSUME IInv, Headroom, SoundWork, NEW r \in Requests, Counted(req[r]), ~Pinned(r), Select(r)
  PROVE  Counted(req'[r])
<1> DEFINE q == req[r]
<1>1. q \in RequestState /\ q.tried \in SUBSET Accounts /\ q.retries \in 0 .. MaxRetries
  BY DEF IInv, RequestState
<1>2. IsFiniteSet(q.tried) /\ Cardinality(q.tried) \in Nat /\ Cardinality(q.tried) < MaxAttempts
  BY <1>1, UnsoundFew DEF Counted
<1>3. q.pc = "select" /\ q.attempts = Cardinality(q.tried) + q.retries
  <2>1. q.pc = "select" /\ UnderAttempt(q) = 0
    BY DEF Select, UnderAttempt, Attempting
  <2>2. q.attempts = Cardinality(q.tried) + q.retries + 0
    BY <2>1 DEF Counted
  <2> QED BY <1>1, <1>2, <2>1, <2>2, Limits
<1>4. q.attempts < LoopLimit
  BY <1>1, <1>2, <1>3, Limits, Patience DEF LoopLimit
<1>5. Available(r) # {}
  <2>1. PICK a \in Sound : a \in Accounts /\ a \notin q.tried /\ Works(acc[a])
    BY Upstreams DEF Headroom, Counted, SoundWork
  <2>2. acc[a] \in AccountState
    BY <2>1 DEF IInv
  <2>3. Reason(a) = "none"
    BY <2>1, <2>2 DEF Reason, Works, AccountState
  <2> QED BY <2>1, <2>3 DEF Available
<1>6. q.attempts # LoopLimit
  BY <1>1, <1>4, Limits DEF RequestState, LoopLimit
<1>7. PICK a \in Available(r) : Try(r, a, FALSE)
  BY <1>5, <1>6 DEF Select
<1> DEFINE s == [Chosen(r, a) EXCEPT !.pc = "fresh", !.live = FALSE]
<1>8. req'[r] = s
  BY <1>7 DEF Try, Goes, IInv
<1>9. /\ s.pc = "fresh" /\ s.at = a /\ s.tried = q.tried /\ s.attempts = q.attempts + 1
      /\ s.retries = q.retries /\ s.answer = q.answer
  BY <1>1 DEF Chosen, RequestState
<1>10. a \notin q.tried
  BY <1>7 DEF Available
<1> HIDE DEF s
<1>11. UnderAttempt(s) = 1
  BY <1>9 DEF UnderAttempt, Attempting
<1> QED BY <1>3, <1>8, <1>9, <1>10, <1>11 DEF Counted

\* Moving on within an attempt, or from one pause to the next choice.
LEMMA TurnCounted ==
  ASSUME NEW q \in RequestState, NEW s, Counted(q),
         s.tried = q.tried, s.attempts = q.attempts, s.retries = q.retries,
         s.answer = q.answer, s.at = q.at,
         s.pc \in Attempting <=> q.pc \in Attempting
  PROVE  Counted(s)
BY DEF Counted, UnderAttempt

LEMMA RequestCounted ==
  ASSUME IInv, Headroom, SoundWork, NoneBlamed, NEW r \in Requests,
         ~Pinned(r), Counted(req[r]), Arrive(r) \/ Step(r) \/ Cancel(r)
  PROVE  Counted(req'[r])
<1> DEFINE q == req[r]
<1>1. \A s : Goes(r, s) => req'[r] = s
  BY DEF Goes, IInv
<1>2. q \in RequestState /\ Sensible(q)
  BY DEF IInv
<1>3. CASE Cancel(r) \/ NoAnswer(r) \/ Relay(r)
  BY <1>1, <1>3, RestCounted DEF Cancel, NoAnswer, Relay, Unserved
<1>4. CASE Arrive(r)
  <2> DEFINE s == [AtRest("none") EXCEPT !.pc = "select", !.left = HoldTicks[r]]
  <2>1. req'[r] = s /\ Counted(AtRest("none"))
    BY <1>1, <1>4, RestCounted DEF Arrive, Unserved
  <2>2. /\ s.tried = {} /\ s.attempts = 0 /\ s.retries = 0 /\ s.answer = "none"
        /\ s.pc = "select"
    BY DEF AtRest
  <2> HIDE DEF s
  <2> QED BY <2>1, <2>2, FS_EmptySet DEF Counted, UnderAttempt, Attempting, Unserved
<1>5. CASE \/ Freshen(r) \/ Wake(r) \/ Unauthorized(r)
           \/ (Admit(r) /\ Goes(r, [q EXCEPT !.pc = "wire"]))
  <2>1. PICK pc \in {"admit", "select", "forced", "wire"} :
             /\ req'[r] = [q EXCEPT !.pc = pc]
             /\ pc \in Attempting <=> q.pc \in Attempting
    <3>1. \/ q.pc = "fresh" /\ Goes(r, [q EXCEPT !.pc = "admit"])
          \/ q.pc = "sleep" /\ Goes(r, [q EXCEPT !.pc = "select"])
          \/ q.pc = "judge" /\ Goes(r, [q EXCEPT !.pc = "forced"])
          \/ q.pc = "admit" /\ Goes(r, [q EXCEPT !.pc = "wire"])
      BY <1>5 DEF Freshen, Wake, Unauthorized, Admit, Judging
    <3> QED BY <1>1, <3>1 DEF Attempting
  <2> DEFINE s == [q EXCEPT !.pc = pc]
  <2>2. /\ s.tried = q.tried /\ s.attempts = q.attempts /\ s.retries = q.retries
        /\ s.answer = q.answer /\ s.at = q.at /\ s.pc = pc
    BY <1>2 DEF RequestState
  <2>3. req'[r] = s /\ (s.pc \in Attempting <=> q.pc \in Attempting) /\ Counted(q)
    BY <2>1, <2>2
  <2> HIDE DEF s, q
  <2>4. Counted(s)
    BY <1>2, <2>2, <2>3, TurnCounted
  <2> QED BY <2>3, <2>4
<1>6. CASE \E k \in Answers : Headers(r, k)
  <2>1. PICK k \in Answers : Headers(r, k)
    BY <1>6
  <2> DEFINE s == [Received(r, k) EXCEPT !.pc = "judge"]
  <2>2. req'[r] = s /\ q.pc = "out"
    BY <1>1, <2>1 DEF Headers
  <2>3. /\ s.tried = q.tried /\ s.attempts = q.attempts /\ s.retries = q.retries
        /\ s.answer = q.answer /\ s.at = q.at /\ s.pc = "judge"
    BY <1>2 DEF RequestState, Received
  <2>4. s.pc \in Attempting <=> q.pc \in Attempting
    BY <2>2, <2>3 DEF Attempting
  <2> HIDE DEF s, q
  <2> QED BY <1>2, <2>2, <2>3, <2>4, TurnCounted DEF q
<1>7. CASE \/ ConnectFails(r) \/ MoveOn(r) \/ QuotaRejected(r) \/ Denied(r)
           \/ (Admit(r) /\ Failover(r))
  <2>1. q.at \in Accounts \ Sound /\ q.pc \in Attempting /\ ~q.taken
    <3>1. CASE MoveOn(r)
      BY <3>1, JudgedUnsound DEF MoveOn
    <3>2. CASE QuotaRejected(r)
      BY <3>2, JudgedUnsound DEF QuotaRejected
    <3>3. CASE Denied(r)
      BY <3>3, JudgedUnsound DEF Denied
    <3>4. CASE ConnectFails(r)
      BY <1>2, <3>4 DEF ConnectFails, CanAnswer, Sensible, Attempting
    <3>5. CASE Admit(r) /\ Failover(r)
      <4>1. q.at \in Accounts /\ q.pc \in Attempting /\ ~q.taken
        BY <1>2, <3>5 DEF Admit, Sensible, Attempting
      <4>2. Reason(q.at) # "none"
        <5>1. Goes(r, [q EXCEPT !.pc = "wire"]) => req'[r].pc = "wire"
          BY <1>1, <1>2 DEF RequestState
        <5>2. Failover(r) => req'[r].pc \in {"idle", "select"}
          <6>1. Excluding(r).pc = "select"
            BY <4>1, ExcludingTyped
          <6> QED BY <1>1, <6>1 DEF Failover, AtRest
        <5> QED BY <3>5, <5>1, <5>2 DEF Admit
      <4>3. acc[q.at] \in AccountState
        BY <4>1 DEF IInv
      <4>4. ~Works(acc[q.at])
        BY <4>2, <4>3 DEF Reason, Works, AccountState
      <4> QED BY <4>1, <4>4 DEF SoundWork
    <3> QED BY <1>7, <3>1, <3>2, <3>3, <3>4, <3>5
  <2>2. Failover(r)
    BY <1>7 DEF ConnectFails, MoveOn, QuotaRejected, Denied
  <2> QED BY <2>1, <2>2, FailoverCounted
<1>8. CASE BareLimit(r)
  <2>1. q.pc \in Attempting /\ ~q.taken
    BY <1>8, JudgedIs DEF BareLimit
  <2>2. Pause \in 0 .. LongPause
    BY DEF Pause, LongPause
  <2>3. Goes(r, AtRest("refused")) \/ RetrySame(r, Pause)
    BY <1>8 DEF BareLimit
  <2>4. CASE Goes(r, AtRest("refused"))
    BY <1>1, <2>4, RestCounted DEF Unserved
  <2> QED BY <2>1, <2>2, <2>3, <2>4, RetrySameCounted
<1>9. CASE TimedLimit(r)
  <2>1. q.at \in Accounts \ Sound /\ q.pc \in Attempting /\ ~q.taken
    BY <1>9, JudgedUnsound DEF TimedLimit
  <2>2. PICK w \in {Pause, LongPause} : RetrySame(r, w) \/ Hop(r)
    BY <1>9 DEF TimedLimit
  <2>3. w \in 0 .. LongPause
    BY DEF Pause, LongPause
  <2> QED BY <2>1, <2>2, <2>3, RetrySameCounted, FailoverCounted
<1>10. CASE AfterForced(r)
  <2>1. q.at \in Accounts \ Sound /\ q.pc \in Attempting /\ ~q.taken
    BY <1>10, ForcedUnsound
  <2>2. 0 \in 0 .. LongPause /\ (RetrySame(r, 0) \/ Failover(r))
    BY <1>10 DEF AfterForced, LongPause
  <2> QED BY <2>1, <2>2, RetrySameCounted, FailoverCounted
<1>11. CASE Admit(r)
  <2>1. Failover(r) \/ Goes(r, [q EXCEPT !.pc = "wire"])
    BY <1>11 DEF Admit
  <2> QED BY <1>5, <1>7, <1>11, <2>1
<1>12. CASE Select(r)
  BY <1>12, SelectCounted
<1>13. CASE Leaves(r)
  <2> DEFINE s == [q EXCEPT !.pc = "out", !.taken = TRUE]
  <2>1. req'[r] = s /\ q.pc = "wire"
    BY <1>1, <1>13 DEF Leaves
  <2>2. /\ s.tried = q.tried /\ s.attempts = q.attempts /\ s.retries = q.retries
        /\ s.answer = q.answer /\ s.at = q.at /\ s.pc = "out"
    BY <1>2 DEF RequestState
  <2>3. s.pc \in Attempting <=> q.pc \in Attempting
    BY <2>1, <2>2 DEF Attempting
  <2> HIDE DEF s, q
  <2> QED BY <1>2, <2>1, <2>2, <2>3, TurnCounted DEF q
<1> QED BY <1>3, <1>4, <1>5, <1>6, <1>7, <1>8, <1>9, <1>10, <1>11, <1>12, <1>13
       DEF Step

---------------------------------------------------------------------------
LEMMA SoundPreserved ==
  ASSUME IInv, SoundInv, [Next]_vars
  PROVE  SoundInv'
<1>0. SoundWork /\ NoneBlamed /\ (Headroom' <=> Headroom)
  BY DEF SoundInv, Headroom
<1>1. ASSUME NEW r \in Requests, Arrive(r) \/ Step(r) \/ Cancel(r) PROVE SoundInv'
  <2>1. Moves(r) /\ SoundWork' /\ (Blames(req'[r]) => req'[r].at \notin Sound)
    BY <1>0, <1>1, RequestStep, RequestWorks
  <2>2. \A s \in Requests : s # r => req'[s] = req[s]
    BY <2>1 DEF Moves, IInv
  <2>3. NoneBlamed'
    BY <1>0, <2>1, <2>2 DEF NoneBlamed
  <2>4. ASSUME Headroom PROVE AllCounted'
    <3>1. AllCounted
      BY <2>4 DEF SoundInv
    <3>2. ~Pinned(r) => Counted(req'[r])
      BY <1>0, <1>1, <2>4, <3>1, RequestCounted DEF AllCounted
    <3> QED BY <2>2, <3>1, <3>2 DEF AllCounted, Pinned
  <2> QED BY <1>0, <2>1, <2>3, <2>4 DEF SoundInv
<1>2. CASE \E a \in Accounts : Recovers(a) \/ UsageRead(a)
  <2>1. SoundWork' /\ UNCHANGED req
    BY <1>0, <1>2, OutsideWorks, OutsideStep
  <2> QED BY <1>0, <2>1 DEF SoundInv, NoneBlamed, AllCounted, Headroom, Pinned
<1>3. CASE Tick
  <2>1. SoundWork'
    BY <1>0, <1>3, OutsideWorks
  <2>2. ASSUME NEW r \in Requests
        PROVE  /\ Blames(req'[r]) <=> Blames(req[r])
               /\ req'[r].at = req[r].at
               /\ Counted(req[r]) => Counted(req'[r])
    <3> DEFINE q == req[r]
               s == [q EXCEPT !.wait = Less(@), !.left = Less(@)]
    <3>1. q \in RequestState
      BY DEF IInv
    <3>2. req'[r] = s
      BY <1>3 DEF Tick
    <3>3. /\ s.tried = q.tried /\ s.attempts = q.attempts /\ s.retries = q.retries
          /\ s.answer = q.answer /\ s.at = q.at /\ s.pc = q.pc /\ s.kind = q.kind
      BY <3>1 DEF RequestState
    <3> HIDE DEF s, q
    <3> QED BY <3>1, <3>2, <3>3, TurnCounted DEF q, Blames
  <2> QED BY <1>0, <2>1, <2>2 DEF SoundInv, NoneBlamed, AllCounted, Pinned
<1>4. CASE UNCHANGED vars
  BY <1>0, <1>4 DEF SoundInv, SoundWork, NoneBlamed, AllCounted, Headroom, Pinned, vars
<1> QED BY <1>1, <1>2, <1>3, <1>4 DEF Next

LEMMA InitSound == Init => SoundInv
<1> SUFFICES ASSUME Init PROVE SoundInv
  OBVIOUS
<1>1. \A r \in Requests : req[r] = AtRest("none")
  BY DEF Init
<1>2. Counted(AtRest("none")) /\ ~Blames(AtRest("none"))
  BY RestCounted DEF Unserved, Blames, AtRest
<1>3. SoundWork
  BY Upstreams DEF Init, SoundWork, Works, Healthy
<1> QED BY <1>1, <1>2, <1>3 DEF SoundInv, NoneBlamed, AllCounted

\* While one account works, a request that is not pinned is never told that
\* the pool is spent or failing, that too many accounts failed it or that the
\* loop gave up (forward.rs:165-245): for every pool that fits in the attempts
\* allowed, whatever other requests do to the accounts that do not work.
THEOREM HeadroomIsServed == Spec => []HeadroomServes
<1>1. SoundInv => HeadroomServes
  BY DEF SoundInv, Headroom, AllCounted, Counted, Unserved, HeadroomServes
<1>2. IInv /\ SoundInv /\ [Next]_vars => SoundInv'
  BY SoundPreserved
<1> QED BY InitSound, AlwaysIInv, <1>1, <1>2, PTL DEF Spec
=============================================================================
