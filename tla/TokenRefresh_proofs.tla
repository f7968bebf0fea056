------------------------ MODULE TokenRefresh_proofs ------------------------
(* Proofs about TokenRefresh for any callers and any bounds: its types, that *)
(* one caller refreshes at a time, and that no refresh token is replayed.    *)
EXTENDS TokenRefresh, TLAPS

-----------------------------------------------------------------------------
\* Types.

LEMMA IdleIsCallState == Idle \in CallState
BY BoundsAreNat DEF Idle, CallState, PC, PairOrNone, None, Refreshing

LEMMA MoveTyped ==
  ASSUME TypeOK, NEW c \in Callers, NEW to \in CallState, Moves(c, to)
  PROVE  call' \in [Callers -> CallState]
BY DEF TypeOK, Moves

\* What the moves of a caller put in its record is of the right type.
LEMMA RecordsTyped ==
  ASSUME TypeOK, NEW c \in Callers, NEW p \in Pair
  PROVE  /\ [Idle EXCEPT !.pc = "check", !.before = p] \in CallState
         /\ [call[c] EXCEPT !.pc = "wait", !.rt = p] \in CallState
         /\ [call[c] EXCEPT !.pc = "net", !.rt = p] \in CallState
         /\ [call[c] EXCEPT !.pc = "send"] \in CallState
         /\ [call[c] EXCEPT !.pc = "check", !.force = TRUE] \in CallState
         /\ call[c].pc = "net" => [call[c] EXCEPT !.pc = "granted", !.got = p] \in CallState
         /\ call[c].pc = "granted" => [call[c] EXCEPT !.pc = "persist"] \in CallState
<1>1. call[c] \in CallState
  BY DEF TypeOK
<1>2. [Idle EXCEPT !.pc = "check", !.before = p] \in CallState
  BY IdleIsCallState DEF CallState, PairOrNone, PC, Refreshing
<1>3. [call[c] EXCEPT !.pc = "wait", !.rt = p] \in CallState
  BY <1>1 DEF CallState, PairOrNone, PC, Refreshing
<1>4. [call[c] EXCEPT !.pc = "net", !.rt = p] \in CallState
  BY <1>1 DEF CallState, PairOrNone, PC, Refreshing
<1>5. [call[c] EXCEPT !.pc = "send"] \in CallState
  BY <1>1 DEF CallState, PairOrNone, PC, Refreshing
<1>6. [call[c] EXCEPT !.pc = "check", !.force = TRUE] \in CallState
  BY <1>1 DEF CallState, PairOrNone, PC, Refreshing
<1>7. ASSUME call[c].pc = "net"
      PROVE  [call[c] EXCEPT !.pc = "granted", !.got = p] \in CallState
  BY <1>1, <1>7 DEF CallState, PairOrNone, PC, Refreshing
<1>8. ASSUME call[c].pc = "granted"
      PROVE  [call[c] EXCEPT !.pc = "persist"] \in CallState
  BY <1>1, <1>8 DEF CallState, PairOrNone, PC, Refreshing
<1> QED
  BY <1>2, <1>3, <1>4, <1>5, <1>6, <1>7, <1>8

LEMMA ReturnTyped ==
  ASSUME TypeOK, NEW c \in Callers, Return(c)
  PROVE  call' \in [Callers -> CallState]
<1> DEFINE to == [pc |-> IF c \in Requests /\ ~call[c].force THEN "send" ELSE "return",
                  force |-> call[c].force, rt |-> None, before |-> call[c].before,
                  cred |-> mem, got |-> None, tries |-> 0]
<1>1. to \in CallState
  BY BoundsAreNat DEF TypeOK, CallState, PairOrNone, None, PC, Refreshing
<1> QED
  BY <1>1, MoveTyped DEF Return

LEMMA TryAgainTyped ==
  ASSUME TypeOK, NEW c \in Callers, TryAgain(c)
  PROVE  call' \in [Callers -> CallState]
<1>1. [call[c] EXCEPT !.tries = @ + 1] \in CallState
  BY BoundsAreNat DEF TypeOK, TryAgain, CallState
<1> QED
  BY <1>1, MoveTyped DEF TryAgain

\* A caller in the middle of a refresh has the token it presents, and the
\* successor once it was granted.
LEMMA CallTyped ==
  ASSUME TypeOK, NEW c \in Callers
  PROVE  /\ call[c].rt \in PairOrNone /\ call[c].got \in PairOrNone
         /\ call[c].pc \in {"wait"} \cup Refreshing => call[c].rt \in Pair
         /\ call[c].pc \in {"granted", "persist"} => call[c].got \in Pair
BY DEF TypeOK, CallState

\* The server's variables keep their types: the pairs stay within the bound,
\* and a caller never counts more attempts than the loop makes.
THEOREM TypeInvariant == Spec => []TypeOK
<1>1. Init => TypeOK
  <2> SUFFICES ASSUME Init PROVE TypeOK
    OBVIOUS
  <2>1. 1 \in Pair /\ 0 \in 0 .. MaxLogins
    BY BoundsAreNat DEF Pair
  <2>2. call \in [Callers -> CallState]
    BY IdleIsCallState DEF Init
  <2>3. \A c \in Callers : call[c].pc = "idle"
    BY DEF Init, Idle
  <2> QED
    BY <2>1, <2>2, <2>3 DEF Init, TypeOK, PairOrNone, None, Free, Refreshing
<1>2. TypeOK /\ [Next]_vars => TypeOK'
  <2> SUFFICES ASSUME TypeOK, [Next]_vars PROVE TypeOK'
    OBVIOUS
  <2>1. ASSUME NEW c \in Callers, Begin(c) PROVE TypeOK'
    <3>1. call' \in [Callers -> CallState]
      BY <2>1, RecordsTyped, MoveTyped DEF Begin, TypeOK, PC
    <3> QED
      BY <2>1, <3>1, CallTyped, BoundsAreNat DEF Begin, TypeOK, provider, account, file, environment, Pair, PairOrNone, None, Refreshing
  <2>2. ASSUME NEW c \in Callers, Check(c) PROVE TypeOK'
    <3>1. call' \in [Callers -> CallState]
      BY <2>2, ReturnTyped, RecordsTyped, MoveTyped DEF Check, TypeOK, PC
    <3> QED
      BY <2>2, <3>1, CallTyped, BoundsAreNat DEF Check, TypeOK, provider, account, file, environment, Pair, PairOrNone, None, Refreshing
  <2>3. ASSUME NEW c \in Callers, Acquire(c) PROVE TypeOK'
    <3>1. call' \in [Callers -> CallState]
      BY <2>3, ReturnTyped, RecordsTyped, MoveTyped DEF Acquire, TypeOK, PC
    <3> QED
      BY <2>3, <3>1, CallTyped, BoundsAreNat DEF Acquire, TypeOK, provider, account, file, environment, Pair, PairOrNone, None, Refreshing, Free
  <2>4. ASSUME NEW c \in Callers, Granted(c) PROVE TypeOK'
    <3>a. minted + 1 \in Pair
      BY <2>4, BoundsAreNat DEF Granted, TypeOK, Pair
    <3>1. call' \in [Callers -> CallState]
      BY <2>4, <3>a, RecordsTyped, MoveTyped DEF Granted
    <3> QED
      BY <2>4, <3>1, CallTyped, BoundsAreNat DEF Granted, TypeOK, provider, account, file, environment, Pair, PairOrNone, None, Refreshing
  <2>5. ASSUME NEW c \in Callers, GrantLost(c) PROVE TypeOK'
    <3>1. call' \in [Callers -> CallState]
      BY <2>5, ReturnTyped, TryAgainTyped DEF GrantLost, GiveUp
    <3> QED
      BY <2>5, <3>1, CallTyped, BoundsAreNat DEF GrantLost, TypeOK, provider, account, file, environment, Pair, PairOrNone, None, Refreshing, Free, TryAgain, GiveUp
  <2>6. ASSUME NEW c \in Callers, AttemptFails(c) PROVE TypeOK'
    <3>1. call' \in [Callers -> CallState]
      BY <2>6, ReturnTyped, TryAgainTyped DEF AttemptFails, GiveUp
    <3> QED
      BY <2>6, <3>1, CallTyped, BoundsAreNat DEF AttemptFails, TypeOK, provider, account, file, environment, Pair, PairOrNone, None, Refreshing, Free, TryAgain, GiveUp
  <2>7. ASSUME NEW c \in Callers, Rejected(c) PROVE TypeOK'
    <3>1. call' \in [Callers -> CallState]
      BY <2>7, ReturnTyped DEF Rejected, GiveUp
    <3> QED
      BY <2>7, <3>1, CallTyped, BoundsAreNat DEF Rejected, TypeOK, provider, account, file, environment, Pair, PairOrNone, None, Refreshing, Free, GiveUp
  <2>8. ASSUME NEW c \in Callers, Install(c) PROVE TypeOK'
    <3>1. call' \in [Callers -> CallState]
      BY <2>8, RecordsTyped, MoveTyped DEF Install, TypeOK, PC
    <3> QED
      BY <2>8, <3>1, CallTyped, BoundsAreNat DEF Install, TypeOK, provider, account, file, environment, Pair, PairOrNone, None, Refreshing
  <2>9. ASSUME NEW c \in Callers, Persisted(c) PROVE TypeOK'
    <3>1. call' \in [Callers -> CallState]
      BY <2>9, ReturnTyped DEF Persisted
    <3> QED
      BY <2>9, <3>1, CallTyped, BoundsAreNat DEF Persisted, TypeOK, provider, account, file, environment, Pair, PairOrNone, None, Refreshing, Free
  <2>10. ASSUME NEW c \in Callers, ProbeSends(c) PROVE TypeOK'
    <3>1. call' \in [Callers -> CallState]
      BY <2>10, RecordsTyped, MoveTyped, IdleIsCallState DEF ProbeSends, TypeOK, PC
    <3> QED
      BY <2>10, <3>1, CallTyped, BoundsAreNat DEF ProbeSends, TypeOK, provider, account, file, environment, Pair, PairOrNone, None, Refreshing
  <2>11. ASSUME NEW c \in Callers, Accepted(c) PROVE TypeOK'
    <3>1. call' \in [Callers -> CallState]
      BY <2>11, MoveTyped, IdleIsCallState DEF Accepted
    <3> QED
      BY <2>11, <3>1, CallTyped, BoundsAreNat DEF Accepted, TypeOK, provider, account, file, environment, Pair, PairOrNone, None, Refreshing
  <2>12. ASSUME NEW c \in Callers, Unauthorized(c) PROVE TypeOK'
    <3>1. call' \in [Callers -> CallState]
      BY <2>12, RecordsTyped, MoveTyped DEF Unauthorized, TypeOK, PC
    <3> QED
      BY <2>12, <3>1, CallTyped, BoundsAreNat DEF Unauthorized, TypeOK, provider, account, file, environment, Pair, PairOrNone, None, Refreshing
  <2>13. ASSUME NEW c \in Callers, AfterForced(c) PROVE TypeOK'
    <3>1. call' \in [Callers -> CallState]
      BY <2>13, MoveTyped, IdleIsCallState DEF AfterForced
    <3> QED
      BY <2>13, <3>1, CallTyped, BoundsAreNat DEF AfterForced, TypeOK, provider, account, file, environment, Pair, PairOrNone, None, Refreshing
  <2>14. ASSUME NEW c \in Callers, Cancel(c) PROVE TypeOK'
    <3>1. call' \in [Callers -> CallState]
      BY <2>14, MoveTyped, IdleIsCallState DEF Cancel
    <3> QED
      BY <2>14, <3>1, CallTyped, BoundsAreNat DEF Cancel, TypeOK, provider, account, file, environment, Pair, PairOrNone, None, Refreshing, Free
  <2>15. ASSUME NEW p \in Pair, Persist(p) PROVE TypeOK'
    BY <2>15 DEF Persist, TypeOK, provider, account, file, environment
  <2>25. ASSUME NEW p \in Pair, PersistFails(p) PROVE TypeOK'
    BY <2>25 DEF PersistFails, TypeOK, provider, account, file, environment
  <2>16. ASSUME NEW p \in Pair, Revoke(p) PROVE TypeOK'
    BY <2>16 DEF Revoke, TypeOK, provider, account, file, environment
  <2>17. CASE LoginGranted
    BY <2>17, BoundsAreNat DEF LoginGranted, TypeOK, provider, account, file, environment, Pair, PairOrNone, None
  <2>18. CASE LoginWritten
    BY <2>18, BoundsAreNat DEF LoginWritten, TypeOK, provider, account, file, environment, Pair, PairOrNone, None
  <2>19. CASE ReloadLoads
    BY <2>19, BoundsAreNat DEF ReloadLoads, TypeOK, provider, account, file, environment, Pair, PairOrNone, None
  <2>20. CASE ReloadSyncs
    BY <2>20, BoundsAreNat DEF ReloadSyncs, TypeOK, provider, account, file, environment, Pair, PairOrNone, None
  <2>21. CASE FloorPasses
    BY <2>21, BoundsAreNat DEF FloorPasses, TypeOK, provider, account, file, environment, Pair, PairOrNone, None
  <2>22. CASE NextExpires
    BY <2>22, BoundsAreNat DEF NextExpires, TypeOK, provider, account, file, environment, Pair, PairOrNone, None
  <2>23. CASE Crash
    BY <2>23, IdleIsCallState, BoundsAreNat DEF Crash, TypeOK, provider, account, file, environment, Pair, PairOrNone, None, Free
  <2>24. CASE UNCHANGED vars
    BY <2>24 DEF vars, TypeOK, provider, account, file, environment
  <2> QED
    BY <2>1, <2>2, <2>3, <2>4, <2>5, <2>6, <2>7, <2>8, <2>9, <2>10, <2>11, <2>12, <2>13, <2>14, <2>15, <2>16, <2>17, <2>18, <2>19, <2>20, <2>21, <2>22, <2>23, <2>24, <2>25 DEF Next, Step, Environment
<1> QED
  BY <1>1, <1>2, PTL DEF Spec

-----------------------------------------------------------------------------
\* One refresh at a time.

\* A move of one caller leaves the others where they are.
LEMMA OthersStay ==
  ASSUME TypeOK, NEW c \in Callers, NEW to, Moves(c, to)
  PROVE  call'[c] = to /\ \A d \in Callers \ {c} : call'[d] = call[d]
BY DEF TypeOK, Moves

\* The three things a caller's step can do to the lock, all harmless.
LEMMA LockDiscipline ==
  ASSUME TypeOK, OneRefreshAtATime, NEW c \in Callers, NEW to, Moves(c, to),
         \/ lock' = lock /\ (to.pc \in Refreshing => lock = c)
         \/ lock = Free /\ lock' = c
         \/ lock = c /\ lock' = Free /\ to.pc \notin Refreshing
  PROVE  OneRefreshAtATime'
BY OthersStay, FreeIsNobody DEF OneRefreshAtATime

\* A caller that returns is out of its refresh.
LEMMA ReturnLeaves ==
  ASSUME TypeOK, OneRefreshAtATime, NEW c \in Callers, Return(c),
         lock' = lock \/ (lock = c /\ lock' = Free)
  PROVE  OneRefreshAtATime'
<1> DEFINE to == [pc |-> IF c \in Requests /\ ~call[c].force THEN "send" ELSE "return",
                  force |-> call[c].force, rt |-> None, before |-> call[c].before,
                  cred |-> mem, got |-> None, tries |-> 0]
<1>1. Moves(c, to)
  BY DEF Return
<1>2. to.pc \notin Refreshing
  BY DEF Refreshing
<1> HIDE DEF to
<1> QED
  BY <1>1, <1>2, LockDiscipline

\* A caller goes on in its refresh, or stays out of one.
LEMMA StayingKeeps ==
  ASSUME TypeOK, OneRefreshAtATime, NEW c \in Callers, NEW to, Moves(c, to), UNCHANGED lock,
         to.pc \in Refreshing => call[c].pc \in Refreshing
  PROVE  OneRefreshAtATime'
<1>1. call[c].pc \in Refreshing => lock = c
  BY DEF OneRefreshAtATime
<1> QED
  BY <1>1, LockDiscipline

\* An attempt that brought no answer keeps the lock or gives it up.
LEMMA AttemptLeaves ==
  ASSUME TypeOK, OneRefreshAtATime, NEW c \in Callers, call[c].pc = "net",
         TryAgain(c) \/ GiveUp(c)
  PROVE  OneRefreshAtATime'
<1>1. lock = c
  BY DEF OneRefreshAtATime, Refreshing
<1>2. CASE TryAgain(c)
  BY <1>1, <1>2, LockDiscipline DEF TryAgain
<1>3. CASE GiveUp(c)
  BY <1>1, <1>3, ReturnLeaves DEF GiveUp
<1> QED
  BY <1>2, <1>3

\* A step that neither takes the lock nor moves a caller into a refresh.
LEMMA BystanderKeeps ==
  ASSUME OneRefreshAtATime, UNCHANGED <<lock, call>>
  PROVE  OneRefreshAtATime'
BY DEF OneRefreshAtATime

LEMMA IdleIsOut == Idle.pc = "idle" /\ Idle.pc \notin Refreshing
BY DEF Idle, Refreshing

\* Every step of the system keeps the refresh to the holder of the lock.
LEMMA OneRefreshStep ==
  ASSUME TypeOK, OneRefreshAtATime, [Next]_vars
  PROVE  OneRefreshAtATime'
<1>1. ASSUME NEW c \in Callers, Begin(c) PROVE OneRefreshAtATime'
  <2> DEFINE to == [Idle EXCEPT !.pc = "check", !.before = mem]
  <2>1. Moves(c, to) /\ UNCHANGED lock
    BY <1>1 DEF Begin
  <2>2. to.pc = "check"
    BY IdleIsCallState DEF CallState
  <2> HIDE DEF to
  <2> QED
    BY <2>1, <2>2, StayingKeeps DEF Refreshing
<1>2. ASSUME NEW c \in Callers, Check(c) PROVE OneRefreshAtATime'
  <2> DEFINE to == [call[c] EXCEPT !.pc = "wait", !.rt = mem]
  <2>1. CASE Moves(c, to)
    <3>1. to.pc = "wait"
      BY DEF TypeOK, CallState
    <3> HIDE DEF to
    <3> QED
      BY <2>1, <3>1, <1>2, StayingKeeps DEF Check, Refreshing
  <2>2. CASE Return(c)
    BY <2>2, <1>2, ReturnLeaves DEF Check
  <2> QED
    BY <1>2, <2>1, <2>2 DEF Check
<1>3. ASSUME NEW c \in Callers, Acquire(c) PROVE OneRefreshAtATime'
  <2> DEFINE to == [call[c] EXCEPT !.pc = "net", !.rt = mem]
  <2>1. CASE Moves(c, to) /\ lock' = c
    <3> HIDE DEF to
    <3> QED
      BY <2>1, <1>3, LockDiscipline DEF Acquire
  <2>2. CASE Return(c) /\ UNCHANGED lock
    BY <2>2, ReturnLeaves
  <2> QED
    BY <1>3, <2>1, <2>2 DEF Acquire
<1>4. ASSUME NEW c \in Callers, Granted(c) PROVE OneRefreshAtATime'
  <2> DEFINE to == [call[c] EXCEPT !.pc = "granted", !.got = minted + 1]
  <2>1. Moves(c, to) /\ UNCHANGED lock /\ call[c].pc \in Refreshing
    BY <1>4 DEF Granted, Refreshing
  <2> HIDE DEF to
  <2> QED
    BY <2>1, StayingKeeps
<1>5. ASSUME NEW c \in Callers, GrantLost(c) PROVE OneRefreshAtATime'
  BY <1>5, AttemptLeaves DEF GrantLost
<1>6. ASSUME NEW c \in Callers, AttemptFails(c) PROVE OneRefreshAtATime'
  BY <1>6, AttemptLeaves DEF AttemptFails
<1>7. ASSUME NEW c \in Callers, Rejected(c) PROVE OneRefreshAtATime'
  BY <1>7, AttemptLeaves DEF Rejected
<1>8. ASSUME NEW c \in Callers, Install(c) PROVE OneRefreshAtATime'
  <2> DEFINE to == [call[c] EXCEPT !.pc = "persist"]
  <2>1. Moves(c, to) /\ UNCHANGED lock /\ call[c].pc \in Refreshing
    BY <1>8 DEF Install, Refreshing
  <2> HIDE DEF to
  <2> QED
    BY <2>1, StayingKeeps
<1>9. ASSUME NEW c \in Callers, Persisted(c) PROVE OneRefreshAtATime'
  <2>1. lock = c
    BY <1>9 DEF Persisted, OneRefreshAtATime, Refreshing
  <2> QED
    BY <1>9, <2>1, ReturnLeaves DEF Persisted
<1>10. ASSUME NEW c \in Callers, ProbeSends(c) PROVE OneRefreshAtATime'
  <2> DEFINE to == IF status = "Error" /\ dead = mem THEN Idle
                                                     ELSE [call[c] EXCEPT !.pc = "send"]
  <2>1. Moves(c, to) /\ UNCHANGED lock
    BY <1>10 DEF ProbeSends
  <2>2. to.pc \notin Refreshing
    BY IdleIsOut DEF TypeOK, CallState, Refreshing
  <2> HIDE DEF to
  <2> QED
    BY <2>1, <2>2, StayingKeeps
<1>11. ASSUME NEW c \in Callers, Accepted(c) PROVE OneRefreshAtATime'
  BY <1>11, IdleIsOut, StayingKeeps DEF Accepted
<1>12. ASSUME NEW c \in Callers, Unauthorized(c) PROVE OneRefreshAtATime'
  <2> DEFINE to == [call[c] EXCEPT !.pc = "check", !.force = TRUE]
  <2>1. Moves(c, to) /\ UNCHANGED lock
    BY <1>12 DEF Unauthorized
  <2>2. to.pc \notin Refreshing
    BY DEF TypeOK, CallState, Refreshing
  <2> HIDE DEF to
  <2> QED
    BY <2>1, <2>2, StayingKeeps
<1>13. ASSUME NEW c \in Callers, AfterForced(c) PROVE OneRefreshAtATime'
  BY <1>13, IdleIsOut, StayingKeeps DEF AfterForced
<1>14. ASSUME NEW c \in Callers, Cancel(c) PROVE OneRefreshAtATime'
  BY <1>14, IdleIsOut, LockDiscipline DEF Cancel
<1>15. CASE Crash
  BY <1>15, IdleIsOut DEF Crash, OneRefreshAtATime
<1>16. ASSUME Environment, ~Crash PROVE OneRefreshAtATime'
  BY <1>16, BystanderKeeps DEF Environment, Persist, PersistFails, Revoke, LoginGranted, LoginWritten,
       ReloadLoads, ReloadSyncs, FloorPasses, NextExpires
<1>17. CASE UNCHANGED vars
  BY <1>17, BystanderKeeps DEF vars
<1> QED
  BY <1>1, <1>2, <1>3, <1>4, <1>5, <1>6, <1>7, <1>8, <1>9, <1>10, <1>11, <1>12, <1>13,
     <1>14, <1>15, <1>16, <1>17 DEF Next, Step

\* Of any number of handlers and probes, at most the one holding the account's
\* lock is talking to the token endpoint or waiting for the write after it.
THEOREM OneRefresh == Spec => []OneRefreshAtATime
<1>1. Init => OneRefreshAtATime
  BY IdleIsOut DEF Init, OneRefreshAtATime
<1>2. TypeOK /\ OneRefreshAtATime /\ [Next]_vars => OneRefreshAtATime'
  BY OneRefreshStep
<1> QED
  BY <1>1, <1>2, TypeInvariant, PTL DEF Spec

-----------------------------------------------------------------------------
\* No replay.  A spent token whose successor the server kept may still be in
\* the file, in a late write or in a reload's copy; what keeps it from being
\* presented is that every such copy is older than the pair in memory.

\* The pairs the server spent itself and whose successor it kept.
Kept == spent \ unkept

\* A caller holds the successor of p and has not installed it yet.
BeingReplaced(p) == \E c \in Callers : call[c].pc = "granted" /\ call[c].rt = p

\* A stale copy of a kept pair that can no longer reach memory: it is older
\* than the pair there, or about to be.
Harmless(p) == p \in Kept => p < mem \/ BeingReplaced(p)

\* Every pair in the system has been granted.
AllGranted ==
  /\ spent \subseteq 1 .. minted
  /\ mem \in 1 .. minted /\ disk \in 1 .. minted /\ writers \subseteq 1 .. minted
  /\ snap <= minted /\ login <= minted
  /\ \A c \in Callers : call[c].rt <= minted /\ call[c].got <= minted

\* The pair of a login under way is known to the login alone.
LoginIsPrivate ==
  login # None =>
    /\ login \notin spent \cup writers \cup {mem, disk, snap}
    /\ \A c \in Callers : call[c].rt # login /\ call[c].got # login

\* A successor just granted is newer than every pair spent so far.
SuccessorIsNewest ==
  \A c \in Callers : call[c].pc = "granted" => \A p \in spent : p < call[c].got

CopiesHarmless ==
  /\ mem \in Kept => BeingReplaced(mem)
  /\ Harmless(disk) /\ Harmless(snap)
  /\ \A p \in writers : Harmless(p)

Safe == AllGranted /\ LoginIsPrivate /\ SuccessorIsNewest /\ CopiesHarmless /\ NoReplay

\* What has been granted stays so when more is.
LEMMA StillGranted ==
  ASSUME TypeOK, AllGranted, NEW n \in Nat, minted <= n
  PROVE  /\ spent \subseteq 1 .. n /\ mem \in 1 .. n /\ disk \in 1 .. n /\ writers \subseteq 1 .. n
         /\ snap <= n /\ login <= n
         /\ \A c \in Callers : call[c].rt <= n /\ call[c].got <= n
<1>1. minted \in Nat /\ 1 .. minted \subseteq 1 .. n
  BY DEF TypeOK, Pair
<1>2. /\ snap \in Nat /\ login \in Nat
      /\ \A c \in Callers : call[c].rt \in Nat /\ call[c].got \in Nat
  BY CallTyped DEF TypeOK, PairOrNone, Pair, None
<1> QED BY <1>1, <1>2 DEF AllGranted

\* A successor not yet installed survives a move of a caller without one.
LEMMA ReplacementStays ==
  ASSUME TypeOK, NEW c \in Callers, NEW to, Moves(c, to), call[c].pc # "granted", NEW p,
         BeingReplaced(p)
  PROVE  BeingReplaced(p)'
BY OthersStay DEF BeingReplaced

\* A caller moves and knows no pair but those it had and the one in memory.
LEMMA QuietKeeps ==
  ASSUME TypeOK, Safe, NEW c \in Callers, NEW to, Moves(c, to), call[c].pc # "granted",
         UNCHANGED <<minted, spent, unkept, mem, disk, writers, snap, login>>,
         to.pc # "granted", to.rt \in {None, mem, call[c].rt}, to.got \in {None, call[c].got},
         to.pc = "net" /\ to.tries = 0 => to.rt \notin Kept
  PROVE  Safe'
<1>1. call'[c] = to /\ \A d \in Callers \ {c} : call'[d] = call[d]
  BY OthersStay
<1>2. Kept' = Kept
  BY DEF Kept
<1>3. \A p : BeingReplaced(p) => BeingReplaced(p)'
  BY ReplacementStays
<1>4. AllGranted'
  BY <1>1 DEF Safe, AllGranted, TypeOK, Pair, None
<1>5. LoginIsPrivate'
  BY <1>1 DEF Safe, LoginIsPrivate
<1>6. SuccessorIsNewest'
  BY <1>1 DEF Safe, SuccessorIsNewest
<1>7. CopiesHarmless'
  BY <1>2, <1>3 DEF Safe, CopiesHarmless, Harmless
<1>8. NoReplay'
  BY <1>1, <1>2 DEF Safe, NoReplay, Kept
<1> QED BY <1>4, <1>5, <1>6, <1>7, <1>8 DEF Safe

LEMMA ReturnQuiet ==
  ASSUME TypeOK, Safe, NEW c \in Callers, Return(c), call[c].pc # "granted",
         UNCHANGED <<minted, spent, unkept, mem, disk, writers, snap, login>>
  PROVE  Safe'
<1> DEFINE to == [pc |-> IF c \in Requests /\ ~call[c].force THEN "send" ELSE "return",
                  force |-> call[c].force, rt |-> None, before |-> call[c].before,
                  cred |-> mem, got |-> None, tries |-> 0]
<1>1. Moves(c, to)
  BY DEF Return
<1>2. to.pc # "granted" /\ to.pc # "net" /\ to.rt = None /\ to.got = None
  OBVIOUS
<1> HIDE DEF to
<1> QED BY <1>1, <1>2, QuietKeeps

\* The fields of the records a caller's moves make.
LEMMA RecordFields ==
  ASSUME TypeOK, NEW c \in Callers, NEW p, NEW q
  PROVE  /\ LET to == [call[c] EXCEPT !.pc = q] IN
              to.pc = q /\ to.rt = call[c].rt /\ to.got = call[c].got
         /\ LET to == [call[c] EXCEPT !.pc = q, !.rt = p] IN
              to.pc = q /\ to.rt = p /\ to.got = call[c].got
         /\ LET to == [call[c] EXCEPT !.pc = q, !.got = p] IN
              to.pc = q /\ to.rt = call[c].rt /\ to.got = p
         /\ LET to == [call[c] EXCEPT !.pc = q, !.force = p] IN
              to.pc = q /\ to.rt = call[c].rt /\ to.got = call[c].got
         /\ LET to == [call[c] EXCEPT !.tries = p] IN
              to.pc = call[c].pc /\ to.rt = call[c].rt /\ to.got = call[c].got /\ to.tries = p
<1>1. call[c] \in CallState
  BY DEF TypeOK
<1> QED BY <1>1 DEF CallState

LEMMA IdleFields ==
  /\ Idle.pc = "idle" /\ Idle.rt = None /\ Idle.got = None
  /\ \A p, q : LET to == [Idle EXCEPT !.pc = q, !.before = p] IN
                 to.pc = q /\ to.rt = None /\ to.got = None
BY DEF Idle

\* One more attempt is not a first one.
LEMMA TryAgainQuiet ==
  ASSUME TypeOK, Safe, NEW c \in Callers, TryAgain(c), call[c].pc = "net",
         UNCHANGED <<minted, spent, unkept, mem, disk, writers, snap, login>>
  PROVE  Safe'
<1> DEFINE n == call[c].tries + 1
           to == [call[c] EXCEPT !.tries = n]
<1>1. n # 0
  BY BoundsAreNat DEF TypeOK, CallState
<1>2. Moves(c, to)
  BY DEF TryAgain
<1> HIDE DEF n
<1>3. to.pc = call[c].pc /\ to.rt = call[c].rt /\ to.got = call[c].got /\ to.tries = n
  BY RecordFields
<1> HIDE DEF to
<1> QED BY <1>1, <1>2, <1>3, QuietKeeps

\* While one caller refreshes no other holds a successor or presents a token.
LEMMA Alone ==
  ASSUME OneRefreshAtATime, NEW c \in Callers, call[c].pc \in Refreshing,
         NEW d \in Callers \ {c}
  PROVE  call[d].pc # "net" /\ call[d].pc # "granted"
BY DEF OneRefreshAtATime, Refreshing

\* The only caller that opens a refresh presents the pair in memory, and the
\* free lock says that nobody is about to replace it.
LEMMA AcquireSafe ==
  ASSUME TypeOK, OneRefreshAtATime, Safe, NEW c \in Callers, Acquire(c)
  PROVE  Safe'
<1> DEFINE to == [call[c] EXCEPT !.pc = "net", !.rt = mem]
<1>1. UNCHANGED <<minted, spent, unkept, mem, disk, writers, snap, login>>
  BY DEF Acquire, provider, account, file, environment
<1>2. call[c].pc = "wait" /\ lock = Free
  BY DEF Acquire
<1>3. CASE Moves(c, to)
  <2>1. to.pc = "net" /\ to.rt = mem /\ to.got = call[c].got
    BY RecordFields
  <2>2. ~BeingReplaced(mem)
    BY <1>2, FreeIsNobody DEF BeingReplaced, OneRefreshAtATime, Refreshing
  <2>3. mem \notin Kept
    BY <2>2 DEF Safe, CopiesHarmless
  <2> HIDE DEF to
  <2> QED BY <1>1, <1>2, <1>3, <2>1, <2>3, QuietKeeps
<1>4. CASE Return(c)
  BY <1>1, <1>2, <1>4, ReturnQuiet
<1> QED BY <1>3, <1>4 DEF Acquire

LEMMA GrantedSafe ==
  ASSUME TypeOK, OneRefreshAtATime, Safe, NEW c \in Callers, Granted(c)
  PROVE  Safe'
<1> DEFINE old == call[c].rt
           new == minted + 1
           to == [call[c] EXCEPT !.pc = "granted", !.got = new]
<1>1. /\ call[c].pc = "net" /\ Moves(c, to)
      /\ minted' = new /\ spent' = spent \cup {old}
      /\ UNCHANGED <<unkept, mem, disk, writers, snap, login>>
  BY DEF Granted, account, file, environment
<1>2. to.pc = "granted" /\ to.rt = old /\ to.got = new
  BY RecordFields
<1>3. old \in Pair /\ minted \in Nat
  BY <1>1, CallTyped DEF TypeOK, Pair, Refreshing
<1> HIDE DEF to
<1>4. call'[c] = to /\ \A d \in Callers \ {c} : call'[d] = call[d]
  BY <1>1, OthersStay
<1>5. \A d \in Callers \ {c} : call[d].pc # "net" /\ call[d].pc # "granted"
  BY <1>1, Alone DEF Refreshing
<1>6. AllGranted'
  <2>1. AllGranted /\ new \in Nat /\ minted <= new /\ old \in 1 .. minted
    BY <1>1, <1>3 DEF Safe, AllGranted, Pair
  <2>2. old \in 1 .. new /\ old <= new
    BY <1>3, <2>1
  <2> HIDE DEF old, new
  <2> QED BY <1>1, <1>2, <1>3, <1>4, <2>1, <2>2, StillGranted DEF AllGranted
<1>7. LoginIsPrivate'
  BY <1>1, <1>2, <1>3, <1>4 DEF Safe, LoginIsPrivate, AllGranted
<1>8. SuccessorIsNewest'
  <2>1. old \in 1 .. minted /\ spent \subseteq 1 .. minted
    BY <1>1, <1>3 DEF Safe, AllGranted, Pair
  <2>2. ASSUME NEW p \in spent' PROVE p < new
    <3>1. p \in spent \cup {old}
      BY <1>1
    <3> HIDE DEF old
    <3>2. p \in 1 .. minted
      BY <2>1, <3>1
    <3> QED BY <1>3, <3>2
  <2> HIDE DEF new
  <2> QED BY <1>2, <1>4, <1>5, <2>2 DEF SuccessorIsNewest
<1>9. CopiesHarmless'
  <2>1. ASSUME NEW p, p = old PROVE BeingReplaced(p)'
    BY <1>2, <1>4, <2>1 DEF BeingReplaced
  <2>2. \A p : BeingReplaced(p) => BeingReplaced(p)'
    BY <1>1, ReplacementStays
  <2>3. \A p : p \in Kept' => p \in Kept \/ p = old
    BY <1>1 DEF Kept
  <2>4. \A p : Harmless(p) => Harmless(p)'
    BY <1>1, <2>1, <2>2, <2>3 DEF Harmless
  <2>5. mem \in Kept' => BeingReplaced(mem)'
    BY <1>1, <2>1, <2>2, <2>3 DEF Safe, CopiesHarmless
  <2> QED BY <1>1, <2>4, <2>5 DEF Safe, CopiesHarmless
<1>10. NoReplay'
  BY <1>2, <1>4, <1>5 DEF NoReplay
<1> QED BY <1>6, <1>7, <1>8, <1>9, <1>10 DEF Safe

\* A lost successor takes the spent pair out of those that matter.
LEMMA GrantLostSafe ==
  ASSUME TypeOK, OneRefreshAtATime, Safe, NEW c \in Callers, GrantLost(c)
  PROVE  Safe'
<1> DEFINE old == call[c].rt
<1>1. /\ call[c].pc = "net" /\ minted' = minted + 1
      /\ spent' = spent \cup {old} /\ unkept' = unkept \cup {old}
      /\ UNCHANGED <<mem, disk, writers, snap, login>>
  BY DEF GrantLost, account, file
<1>2. old \in Pair /\ minted \in Nat /\ call[c].tries \in Nat
  BY <1>1, CallTyped, BoundsAreNat DEF TypeOK, Pair, Refreshing, CallState
<1>3. PICK to : /\ Moves(c, to) /\ to.pc # "granted"
                /\ to.rt \in {None, old} /\ to.got \in {None, call[c].got}
                /\ ~(to.pc = "net" /\ to.tries = 0)
  <2>1. CASE TryAgain(c)
    <3> DEFINE n == call[c].tries + 1
               more == [call[c] EXCEPT !.tries = n]
    <3>1. n # 0
      BY <1>2
    <3>2. Moves(c, more)
      BY <2>1 DEF TryAgain
    <3> HIDE DEF n
    <3>3. more.pc = "net" /\ more.rt = old /\ more.got = call[c].got /\ more.tries = n
      BY <1>1, RecordFields
    <3> HIDE DEF more
    <3> QED BY <3>1, <3>2, <3>3
  <2>2. CASE GiveUp(c)
    <3> DEFINE back == [pc |-> IF c \in Requests /\ ~call[c].force THEN "send" ELSE "return",
                        force |-> call[c].force, rt |-> None, before |-> call[c].before,
                        cred |-> mem, got |-> None, tries |-> 0]
    <3>1. Moves(c, back)
      BY <2>2 DEF GiveUp, Return
    <3>2. back.pc # "granted" /\ back.pc # "net" /\ back.rt = None /\ back.got = None
      OBVIOUS
    <3> HIDE DEF back
    <3> QED BY <3>1, <3>2
  <2> QED BY <2>1, <2>2 DEF GrantLost
<1>4. call'[c] = to /\ \A d \in Callers \ {c} : call'[d] = call[d]
  BY <1>3, OthersStay
<1>5. \A d \in Callers \ {c} : call[d].pc # "net" /\ call[d].pc # "granted"
  BY <1>1, Alone DEF Refreshing
<1>6. AllGranted'
  <2> DEFINE new == minted + 1
  <2>1. AllGranted /\ new \in Nat /\ minted <= new
    BY <1>2 DEF Safe
  <2>2. old \in 1 .. minted
    BY <1>2 DEF Safe, AllGranted, Pair
  <2>3. old \in 1 .. new /\ None <= new
    BY <1>2, <2>2 DEF None
  <2>4. old <= new /\ call[c].got <= new
    BY <2>1, <2>3, StillGranted
  <2>5. minted' = new
    BY <1>1
  <2> HIDE DEF new, old
  <2> QED BY <1>1, <1>3, <1>4, <2>1, <2>3, <2>4, <2>5, StillGranted DEF AllGranted
<1>7. LoginIsPrivate'
  BY <1>1, <1>3, <1>4 DEF Safe, LoginIsPrivate
<1>8. SuccessorIsNewest'
  BY <1>3, <1>4, <1>5 DEF SuccessorIsNewest
<1>9. CopiesHarmless'
  <2>1. \A p : BeingReplaced(p) => BeingReplaced(p)'
    BY <1>1, <1>3, ReplacementStays
  <2>2. \A p : p \in Kept' => p \in Kept
    BY <1>1 DEF Kept
  <2> QED BY <1>1, <2>1, <2>2 DEF Safe, CopiesHarmless, Harmless
<1>10. NoReplay'
  BY <1>3, <1>4, <1>5 DEF NoReplay
<1> QED BY <1>6, <1>7, <1>8, <1>9, <1>10 DEF Safe

\* The pair installed is newer than every spent one, so every copy of a spent
\* pair is older than memory from here on.
LEMMA InstallSafe ==
  ASSUME TypeOK, OneRefreshAtATime, Safe, NEW c \in Callers, Install(c)
  PROVE  Safe'
<1> DEFINE new == call[c].got
           to == [call[c] EXCEPT !.pc = "persist"]
<1>1. /\ call[c].pc = "granted" /\ Moves(c, to)
      /\ mem' = new /\ writers' = writers \cup {new}
      /\ UNCHANGED <<minted, spent, unkept, disk, snap, login>>
  BY DEF Install, provider, environment
<1>2. to.pc = "persist" /\ to.rt = call[c].rt /\ to.got = new
  BY RecordFields
<1>3. new \in Pair /\ new \in 1 .. minted /\ \A p \in spent : p < new
  BY <1>1, CallTyped DEF Safe, AllGranted, SuccessorIsNewest, TypeOK, Pair
<1> HIDE DEF to
<1>4. call'[c] = to /\ \A d \in Callers \ {c} : call'[d] = call[d]
  BY <1>1, OthersStay
<1>5. \A d \in Callers \ {c} : call[d].pc # "net" /\ call[d].pc # "granted"
  BY <1>1, Alone DEF Refreshing
<1>6. AllGranted'
  BY <1>1, <1>2, <1>3, <1>4 DEF Safe, AllGranted
<1>7. LoginIsPrivate'
  BY <1>1, <1>2, <1>4 DEF Safe, LoginIsPrivate
<1>8. SuccessorIsNewest'
  BY <1>2, <1>4, <1>5 DEF SuccessorIsNewest
<1>9. CopiesHarmless'
  <2>1. new \notin spent
    BY <1>3 DEF Pair
  <2>2. \A p \in Kept' : p < mem'
    BY <1>1, <1>3 DEF Kept
  <2>3. mem' \notin Kept'
    BY <1>1, <2>1 DEF Kept
  <2> QED BY <2>2, <2>3 DEF CopiesHarmless, Harmless
<1>10. NoReplay'
  BY <1>2, <1>4, <1>5 DEF NoReplay
<1> QED BY <1>6, <1>7, <1>8, <1>9, <1>10 DEF Safe

\* A caller dropped before it installs a successor leaves it unkept.
LEMMA CancelSafe ==
  ASSUME TypeOK, OneRefreshAtATime, Safe, NEW c \in Callers, Cancel(c)
  PROVE  Safe'
<1>1. /\ Moves(c, Idle) /\ UNCHANGED <<minted, spent, mem, disk, writers, snap, login>>
      /\ unkept' = IF call[c].pc = "granted" THEN unkept \cup {call[c].rt} ELSE unkept
  BY DEF Cancel, provider, account, file
<1>2. CASE call[c].pc # "granted"
  BY <1>1, <1>2, IdleFields, QuietKeeps
<1>3. CASE call[c].pc = "granted"
  <2>1. call'[c] = Idle /\ \A d \in Callers \ {c} : call'[d] = call[d]
    BY <1>1, OthersStay
  <2>2. \A d \in Callers \ {c} : call[d].pc # "net" /\ call[d].pc # "granted"
    BY <1>3, Alone DEF Refreshing
  <2>3. AllGranted'
    BY <1>1, <2>1, IdleFields DEF Safe, AllGranted, TypeOK, Pair, None
  <2>4. LoginIsPrivate'
    BY <1>1, <2>1, IdleFields DEF Safe, LoginIsPrivate
  <2>5. SuccessorIsNewest' /\ NoReplay'
    BY <2>1, <2>2, IdleFields DEF SuccessorIsNewest, NoReplay
  <2>6. CopiesHarmless'
    <3>1. \A p : p \in Kept' => p \in Kept /\ p # call[c].rt
      BY <1>1, <1>3 DEF Kept
    <3>2. \A p : BeingReplaced(p) => p = call[c].rt
      BY <2>2 DEF BeingReplaced
    <3>3. \A p \in Kept' : ~BeingReplaced(p)
      BY <3>1, <3>2
    <3> QED BY <1>1, <3>1, <3>3 DEF Safe, CopiesHarmless, Harmless
  <2> QED BY <2>3, <2>4, <2>5, <2>6 DEF Safe
<1> QED BY <1>2, <1>3

\* The server comes back with the pair in the file: if that one was spent, its
\* successor died with the server.
LEMMA CrashSafe ==
  ASSUME TypeOK, Safe, Crash
  PROVE  Safe'
<1>1. /\ mem' = disk /\ writers' = {} /\ snap' = None
      /\ call' = [c \in Callers |-> Idle]
      /\ unkept' = unkept \cup (spent \cap {disk})
      /\ UNCHANGED <<minted, spent, disk, login>>
  BY DEF Crash, provider
<1>2. \A c \in Callers : call'[c] = Idle
  BY <1>1
<1>3. AllGranted'
  BY <1>1, <1>2, IdleFields DEF Safe, AllGranted, TypeOK, Pair, None
<1>4. LoginIsPrivate'
  BY <1>1, <1>2, IdleFields DEF Safe, LoginIsPrivate
<1>5. SuccessorIsNewest' /\ NoReplay'
  BY <1>2, IdleFields DEF SuccessorIsNewest, NoReplay
<1>6. CopiesHarmless'
  <2>1. disk \notin Kept'
    BY <1>1 DEF Kept
  <2>2. None \notin Kept'
    BY <1>1 DEF Safe, AllGranted, Kept, None
  <2> QED BY <1>1, <2>1, <2>2 DEF CopiesHarmless, Harmless
<1> QED BY <1>3, <1>4, <1>5, <1>6 DEF Safe

\* The file, the operator and time: the pairs move between the copies.
LEMMA ElsewhereSafe ==
  ASSUME TypeOK, Safe, Environment, ~Crash
  PROVE  Safe'
<1>1. UNCHANGED <<call, spent, unkept>>
  BY DEF Environment, Persist, PersistFails, Revoke, LoginGranted, LoginWritten, ReloadLoads, ReloadSyncs,
         FloorPasses, NextExpires, provider, environment
<1>2. SuccessorIsNewest' /\ NoReplay' /\ Kept' = Kept
  BY <1>1 DEF Safe, SuccessorIsNewest, NoReplay, Kept
<1>3. \A p : BeingReplaced(p)' <=> BeingReplaced(p)
  BY <1>1 DEF BeingReplaced
<1>4. ASSUME NEW p \in Pair, Persist(p) PROVE Safe'
  <2>1. /\ p \in writers /\ disk' = p /\ writers' = writers \ {p}
        /\ UNCHANGED <<minted, mem, snap, login>>
    BY <1>4 DEF Persist, provider, account, environment
  <2>2. AllGranted' /\ LoginIsPrivate'
    BY <1>1, <2>1 DEF Safe, AllGranted, LoginIsPrivate
  <2>3. CopiesHarmless'
    BY <1>2, <1>3, <2>1 DEF Safe, CopiesHarmless, Harmless
  <2> QED BY <1>2, <2>2, <2>3 DEF Safe
<1>10. ASSUME NEW p \in Pair, PersistFails(p) PROVE Safe'
  <2>1. writers' \subseteq writers /\ UNCHANGED <<minted, mem, disk, snap, login>>
    BY <1>10 DEF PersistFails, provider, account, environment
  <2>2. AllGranted' /\ LoginIsPrivate'
    BY <1>1, <2>1 DEF Safe, AllGranted, LoginIsPrivate
  <2>3. CopiesHarmless'
    BY <1>2, <1>3, <2>1 DEF Safe, CopiesHarmless, Harmless
  <2> QED BY <1>2, <2>2, <2>3 DEF Safe
<1>5. CASE LoginGranted
  <2>1. /\ minted' = minted + 1 /\ login' = minted + 1 /\ minted \in Nat
        /\ UNCHANGED <<mem, disk, writers, snap>>
    BY <1>5 DEF LoginGranted, account, file, TypeOK, Pair
  <2>2. AllGranted' /\ LoginIsPrivate'
    BY <1>1, <2>1 DEF Safe, AllGranted, LoginIsPrivate, TypeOK, Pair, PairOrNone, None, CallState
  <2>3. CopiesHarmless'
    BY <1>2, <1>3, <2>1 DEF Safe, CopiesHarmless, Harmless
  <2> QED BY <1>2, <2>2, <2>3 DEF Safe
<1>6. CASE LoginWritten
  <2>1. login # None /\ disk' = login /\ login' = None /\ UNCHANGED <<minted, mem, writers, snap>>
    BY <1>6 DEF LoginWritten, provider, account
  <2>2. AllGranted' /\ LoginIsPrivate'
    BY <1>1, <2>1 DEF Safe, AllGranted, LoginIsPrivate, TypeOK, Pair, PairOrNone, None
  <2>3. login \notin Kept
    BY <2>1 DEF Safe, LoginIsPrivate, Kept
  <2>4. CopiesHarmless'
    BY <1>2, <1>3, <2>1, <2>3 DEF Safe, CopiesHarmless, Harmless
  <2> QED BY <1>2, <2>2, <2>4 DEF Safe
<1>7. CASE ReloadLoads
  <2>1. snap' = disk /\ UNCHANGED <<minted, mem, disk, writers, login>>
    BY <1>7 DEF ReloadLoads, provider, account, file
  <2>2. AllGranted' /\ LoginIsPrivate'
    BY <1>1, <2>1 DEF Safe, AllGranted, LoginIsPrivate
  <2>3. CopiesHarmless'
    BY <1>2, <1>3, <2>1 DEF Safe, CopiesHarmless, Harmless
  <2> QED BY <1>2, <2>2, <2>3 DEF Safe
<1>8. CASE ReloadSyncs
  <2>1. /\ snap # None /\ snap' = None
        /\ mem' = IF snap # mem /\ snap >= mem THEN snap ELSE mem
        /\ UNCHANGED <<minted, disk, writers, login>>
    BY <1>8 DEF ReloadSyncs, TakesFromFile, provider, file
  <2>2. snap \in Pair /\ mem \in Pair /\ mem' \in {snap, mem} /\ mem <= mem'
    BY <2>1 DEF TypeOK, Pair, PairOrNone, None
  <2>3. AllGranted' /\ LoginIsPrivate'
    <3>1. snap \in 1 .. minted /\ None <= minted
      BY <2>2 DEF Safe, AllGranted, TypeOK, Pair, None
    <3>2. mem' \in 1 .. minted
      BY <2>2, <3>1 DEF Safe, AllGranted
    <3>3. AllGranted'
      BY <1>1, <2>1, <3>1, <3>2 DEF Safe, AllGranted
    <3>4. LoginIsPrivate'
      BY <1>1, <2>1, <2>2 DEF Safe, LoginIsPrivate
    <3> QED BY <3>3, <3>4
  <2>4. mem' \in Kept => BeingReplaced(mem')
    BY <2>1, <2>2 DEF Safe, CopiesHarmless, Harmless, Pair
  <2>5. \A p \in Pair : p < mem => p < mem'
    BY <2>2 DEF Pair
  <2>6. None \notin Kept
    BY DEF Safe, AllGranted, Kept, None
  <2>7. disk \in Pair /\ writers \subseteq Pair
    BY DEF TypeOK
  <2>8. CopiesHarmless'
    BY <1>2, <1>3, <2>1, <2>4, <2>5, <2>6, <2>7 DEF Safe, CopiesHarmless, Harmless
  <2> QED BY <1>2, <2>3, <2>8 DEF Safe
<1>9. ASSUME UNCHANGED <<minted, mem, disk, writers, snap, login>> PROVE Safe'
  <2>1. AllGranted' /\ LoginIsPrivate'
    BY <1>1, <1>9 DEF Safe, AllGranted, LoginIsPrivate
  <2>2. CopiesHarmless'
    BY <1>2, <1>3, <1>9 DEF Safe, CopiesHarmless, Harmless
  <2> QED BY <1>2, <2>1, <2>2 DEF Safe
<1> QED
  BY <1>4, <1>5, <1>6, <1>7, <1>8, <1>9, <1>10
  DEF Environment, Revoke, FloorPasses, NextExpires, provider, account, file, environment

\* A caller's other steps learn of no pair but the one in memory.
LEMMA CallerSafe ==
  ASSUME TypeOK, OneRefreshAtATime, Safe, NEW c \in Callers, Begin(c) \/ Step(c)
  PROVE  Safe'
<1>1. CASE Begin(c)
  <2> DEFINE to == [Idle EXCEPT !.pc = "check", !.before = mem]
  <2>1. /\ call[c].pc = "idle" /\ Moves(c, to)
        /\ UNCHANGED <<minted, spent, unkept, mem, disk, writers, snap, login>>
    BY <1>1 DEF Begin, provider, account, file, environment
  <2>2. to.pc = "check" /\ to.rt = None /\ to.got = None
    BY IdleFields
  <2> HIDE DEF to
  <2> QED BY <2>1, <2>2, QuietKeeps
<1>2. CASE Check(c)
  <2> DEFINE to == [call[c] EXCEPT !.pc = "wait", !.rt = mem]
  <2>1. /\ call[c].pc = "check"
        /\ UNCHANGED <<minted, spent, unkept, mem, disk, writers, snap, login>>
    BY <1>2 DEF Check, provider, file, environment
  <2>2. CASE Moves(c, to)
    <3>1. to.pc = "wait" /\ to.rt = mem /\ to.got = call[c].got
      BY RecordFields
    <3> HIDE DEF to
    <3> QED BY <2>1, <2>2, <3>1, QuietKeeps
  <2>3. CASE Return(c)
    BY <2>1, <2>3, ReturnQuiet
  <2> QED BY <1>2, <2>2, <2>3 DEF Check
<1>3. CASE AttemptFails(c)
  <2>1. /\ call[c].pc = "net"
        /\ UNCHANGED <<minted, spent, unkept, mem, disk, writers, snap, login>>
    BY <1>3 DEF AttemptFails, provider, account, file, environment
  <2> QED BY <1>3, <2>1, TryAgainQuiet, ReturnQuiet DEF AttemptFails, GiveUp
<1>4. CASE Rejected(c)
  <2>1. /\ call[c].pc = "net"
        /\ UNCHANGED <<minted, spent, unkept, mem, disk, writers, snap, login>>
    BY <1>4 DEF Rejected, provider, file, environment
  <2> QED BY <1>4, <2>1, ReturnQuiet DEF Rejected, GiveUp
<1>5. CASE Persisted(c)
  <2>1. /\ call[c].pc = "persist"
        /\ UNCHANGED <<minted, spent, unkept, mem, disk, writers, snap, login>>
    BY <1>5 DEF Persisted, provider, account, file, environment
  <2> QED BY <1>5, <2>1, ReturnQuiet DEF Persisted
<1>6. CASE ProbeSends(c)
  <2> DEFINE to == [call[c] EXCEPT !.pc = "send"]
  <2>1. /\ call[c].pc = "return"
        /\ Moves(c, Idle) \/ Moves(c, to)
        /\ UNCHANGED <<minted, spent, unkept, mem, disk, writers, snap, login>>
    BY <1>6 DEF ProbeSends, provider, account, file, environment
  <2>2. to.pc = "send" /\ to.rt = call[c].rt /\ to.got = call[c].got
    BY RecordFields
  <2> HIDE DEF to
  <2> QED BY <2>1, <2>2, IdleFields, QuietKeeps
<1>7. CASE Accepted(c) \/ AfterForced(c)
  <2>1. /\ call[c].pc # "granted" /\ Moves(c, Idle)
        /\ UNCHANGED <<minted, spent, unkept, mem, disk, writers, snap, login>>
    BY <1>7 DEF Accepted, AfterForced, provider, account, file, environment
  <2> QED BY <2>1, IdleFields, QuietKeeps
<1>8. CASE Unauthorized(c)
  <2> DEFINE to == [call[c] EXCEPT !.pc = "check", !.force = TRUE]
  <2>1. /\ call[c].pc = "send" /\ Moves(c, to)
        /\ UNCHANGED <<minted, spent, unkept, mem, disk, writers, snap, login>>
    BY <1>8 DEF Unauthorized, provider, account, file, environment
  <2>2. to.pc = "check" /\ to.rt = call[c].rt /\ to.got = call[c].got
    BY RecordFields
  <2> HIDE DEF to
  <2> QED BY <2>1, <2>2, QuietKeeps
<1> QED
  BY <1>1, <1>2, <1>3, <1>4, <1>5, <1>6, <1>7, <1>8,
     AcquireSafe, GrantedSafe, GrantLostSafe, InstallSafe DEF Step

LEMMA SafeStep ==
  ASSUME TypeOK, OneRefreshAtATime, Safe, [Next]_vars
  PROVE  Safe'
<1>1. CASE UNCHANGED vars
  <2>1. UNCHANGED <<minted, spent, unkept, mem, disk, writers, snap, login, call>>
    BY <1>1 DEF vars, provider, account, file, environment
  <2>2. AllGranted' /\ LoginIsPrivate' /\ SuccessorIsNewest' /\ NoReplay'
    BY <2>1 DEF Safe, AllGranted, LoginIsPrivate, SuccessorIsNewest, NoReplay
  <2>3. CopiesHarmless'
    BY <2>1 DEF Safe, CopiesHarmless, Harmless, Kept, BeingReplaced
  <2> QED BY <2>2, <2>3 DEF Safe
<1> QED
  BY <1>1, CallerSafe, CancelSafe, CrashSafe, ElsewhereSafe DEF Next, Environment

LEMMA SafeInit ==
  ASSUME Init
  PROVE  Safe
<1>1. /\ minted = 1 /\ spent = {} /\ mem = 1 /\ disk = 1 /\ writers = {}
      /\ snap = None /\ login = None
  BY DEF Init
<1>2. \A c \in Callers : call[c] = Idle
  BY DEF Init
<1>3. AllGranted
  BY <1>1, <1>2, IdleFields DEF AllGranted, None
<1>4. LoginIsPrivate /\ SuccessorIsNewest /\ CopiesHarmless /\ NoReplay
  BY <1>1, <1>2, IdleFields
  DEF LoginIsPrivate, SuccessorIsNewest, CopiesHarmless, Harmless, Kept, NoReplay
<1> QED BY <1>3, <1>4 DEF Safe

\* Whatever is delayed, dropped, reloaded or restarted, the server never opens
\* a refresh with a token it has spent and whose successor it received.
THEOREM NeverReplayed == Spec => []NoReplay
<1>1. Safe => NoReplay
  BY DEF Safe
<1> QED
  BY <1>1, SafeInit, SafeStep, TypeInvariant, OneRefresh, PTL DEF Spec
-----------------------------------------------------------------------------
\* The file keeps up.  A rotated pair is on its way to the file from Install to
\* Persist, and no other may be minted meanwhile: the forced refreshes wait for
\* their floor, the others for the new pair to near its end, and time does
\* neither before the write is done.

\* Before a login brings a pair from outside, a copy of the entry is at most as
\* new as memory, and what is being written is the pair in memory: that write
\* is the only one which can leave the file behind.
CatchingUp ==
  /\ login = None /\ disk <= mem /\ snap <= mem
  /\ writers \subseteq {mem} /\ (writers = {} => disk = mem \/ mem \in unwritten)
  /\ writers # {} => /\ recent /\ expiringTo < mem
                     /\ \A c \in Callers : call[c].pc \notin {"net", "granted"}
  /\ \A c \in Callers : call[c].pc = "granted" =>
       writers = {} /\ mem < call[c].got /\ expiringTo < call[c].got

KeepsUp == expiringTo <= minted /\ (logins = 0 => CatchingUp)

\* A caller moves without opening a refresh while a write is pending, and
\* without a new successor.
LEMMA MoveKeepsUp ==
  ASSUME TypeOK, KeepsUp, NEW c \in Callers, NEW to, Moves(c, to),
         UNCHANGED <<mem, disk, writers, unwritten, recent, snap, login, expiringTo, logins>>,
         minted' \in Nat, minted <= minted',
         to.pc # "granted",
         to.pc = "net" => writers = {} \/ logins # 0
  PROVE  KeepsUp'
<1>1. call'[c] = to /\ \A d \in Callers \ {c} : call'[d] = call[d]
  BY OthersStay
<1>2. expiringTo' <= minted'
  BY DEF KeepsUp, TypeOK, PairOrNone, Pair, None
<1>3. ASSUME logins = 0 PROVE CatchingUp'
  BY <1>1, <1>3 DEF KeepsUp, CatchingUp
<1> QED BY <1>2, <1>3 DEF KeepsUp

LEMMA ReturnKeepsUp ==
  ASSUME TypeOK, KeepsUp, NEW c \in Callers, Return(c),
         UNCHANGED <<mem, disk, writers, unwritten, recent, snap, login, expiringTo, logins>>,
         minted' \in Nat, minted <= minted'
  PROVE  KeepsUp'
<1> DEFINE to == [pc |-> IF c \in Requests /\ ~call[c].force THEN "send" ELSE "return",
                  force |-> call[c].force, rt |-> None, before |-> call[c].before,
                  cred |-> mem, got |-> None, tries |-> 0]
<1>1. Moves(c, to)
  BY DEF Return
<1>2. to.pc # "granted" /\ to.pc # "net"
  OBVIOUS
<1> HIDE DEF to
<1> QED BY <1>1, <1>2, MoveKeepsUp

LEMMA AttemptKeepsUp ==
  ASSUME TypeOK, KeepsUp, NEW c \in Callers, call[c].pc = "net", TryAgain(c) \/ GiveUp(c),
         UNCHANGED <<mem, disk, writers, unwritten, recent, snap, login, expiringTo, logins>>,
         minted' \in Nat, minted <= minted'
  PROVE  KeepsUp'
<1>1. CASE TryAgain(c)
  <2> DEFINE n == call[c].tries + 1
             to == [call[c] EXCEPT !.tries = n]
  <2>1. Moves(c, to)
    BY <1>1 DEF TryAgain
  <2> HIDE DEF n
  <2>2. to.pc = "net"
    BY RecordFields
  <2>3. writers = {} \/ logins # 0
    BY DEF KeepsUp, CatchingUp
  <2> HIDE DEF to
  <2> QED BY <2>1, <2>2, <2>3, MoveKeepsUp
<1>2. CASE GiveUp(c)
  BY <1>2, ReturnKeepsUp DEF GiveUp
<1> QED BY <1>1, <1>2

\* While a write is pending nobody still needs a refresh once it has the lock.
LEMMA AcquireKeepsUp ==
  ASSUME TypeOK, KeepsUp, NEW c \in Callers, Acquire(c)
  PROVE  KeepsUp'
<1> DEFINE to == [call[c] EXCEPT !.pc = "net", !.rt = mem]
<1>1. UNCHANGED <<minted, mem, disk, writers, unwritten, recent, snap, login, expiringTo, logins>>
  BY DEF Acquire, provider, account, file, environment
<1>2. minted' \in Nat /\ minted <= minted'
  BY <1>1 DEF TypeOK, Pair
<1>3. CASE StillNeeds(c) /\ Moves(c, to)
  <2>1. to.pc = "net"
    BY RecordFields
  <2>2. writers = {} \/ logins # 0
    BY <1>3 DEF StillNeeds, ExpiringSoon, KeepsUp, CatchingUp, TypeOK, Pair, PairOrNone, None
  <2> HIDE DEF to
  <2> QED BY <1>1, <1>2, <1>3, <2>1, <2>2, MoveKeepsUp
<1>4. CASE Return(c)
  BY <1>1, <1>2, <1>4, ReturnKeepsUp
<1> QED BY <1>3, <1>4 DEF Acquire

\* The successor is newer than every pair granted, hence than the one in memory.
LEMMA GrantedKeepsUp ==
  ASSUME TypeOK, AllGranted, KeepsUp, NEW c \in Callers, Granted(c)
  PROVE  KeepsUp'
<1> DEFINE new == minted + 1
           to == [call[c] EXCEPT !.pc = "granted", !.got = new]
<1>1. /\ call[c].pc = "net" /\ Moves(c, to) /\ minted' = new
      /\ UNCHANGED <<mem, disk, writers, unwritten, recent, snap, login, expiringTo, logins>>
  BY DEF Granted, account, file, environment
<1>2. to.pc = "granted" /\ to.got = new
  BY RecordFields
<1>3. minted \in Nat /\ mem < new /\ expiringTo < new /\ expiringTo <= new
  BY DEF TypeOK, AllGranted, KeepsUp, Pair, PairOrNone, None
<1> HIDE DEF to, new
<1>4. call'[c] = to /\ \A d \in Callers \ {c} : call'[d] = call[d]
  BY <1>1, OthersStay
<1>5. ASSUME logins = 0 PROVE CatchingUp'
  <2>1. writers = {}
    BY <1>1, <1>5 DEF KeepsUp, CatchingUp
  <2> QED BY <1>1, <1>2, <1>3, <1>4, <1>5, <2>1 DEF KeepsUp, CatchingUp
<1> QED BY <1>1, <1>3, <1>5 DEF KeepsUp

\* The pair installed is the one written, and no caller is at the endpoint.
LEMMA InstallKeepsUp ==
  ASSUME TypeOK, OneRefreshAtATime, KeepsUp, NEW c \in Callers, Install(c)
  PROVE  KeepsUp'
<1> DEFINE new == call[c].got
           to == [call[c] EXCEPT !.pc = "persist"]
<1>1. /\ call[c].pc = "granted" /\ Moves(c, to)
      /\ mem' = new /\ writers' = writers \cup {new} /\ recent' = TRUE
      /\ UNCHANGED <<minted, disk, snap, login, expiringTo, logins>>
  BY DEF Install, provider, environment
<1>2. to.pc = "persist"
  BY RecordFields
<1>3. new \in Pair
  BY <1>1, CallTyped
<1> HIDE DEF to
<1>4. call'[c] = to /\ \A d \in Callers \ {c} : call'[d] = call[d]
  BY <1>1, OthersStay
<1>5. \A d \in Callers : call'[d].pc \notin {"net", "granted"}
  BY <1>1, <1>2, <1>4, Alone DEF Refreshing
<1>6. ASSUME logins = 0 PROVE CatchingUp'
  <2>1. writers = {} /\ mem < new /\ expiringTo < new
    BY <1>1, <1>6 DEF KeepsUp, CatchingUp
  <2>2. login = None /\ disk <= mem /\ snap <= mem
    BY <1>6 DEF KeepsUp, CatchingUp
  <2>3. disk <= new /\ snap <= new
    BY <1>3, <2>1, <2>2 DEF TypeOK, Pair, PairOrNone, None
  <2> HIDE DEF new
  <2> QED BY <1>1, <1>5, <2>1, <2>2, <2>3 DEF CatchingUp
<1> QED BY <1>1, <1>6 DEF KeepsUp

\* The steps of a caller that have no part in a grant.
LEMMA CallerKeepsUp ==
  ASSUME TypeOK, KeepsUp, NEW c \in Callers,
         \/ Begin(c) \/ Check(c) \/ GrantLost(c) \/ AttemptFails(c) \/ Rejected(c)
         \/ Persisted(c) \/ ProbeSends(c) \/ Accepted(c) \/ Unauthorized(c)
         \/ AfterForced(c) \/ Cancel(c)
  PROVE  KeepsUp'
<1>1. UNCHANGED <<mem, disk, writers, unwritten, recent, snap, login, expiringTo, logins>>
  BY DEF Begin, Check, GrantLost, AttemptFails, Rejected, Persisted, ProbeSends, Accepted,
         Unauthorized, AfterForced, Cancel, account, file, environment
<1>2. minted' \in Nat /\ minted <= minted'
  BY DEF Begin, Check, GrantLost, AttemptFails, Rejected, Persisted, ProbeSends, Accepted,
         Unauthorized, AfterForced, Cancel, provider, TypeOK, Pair
<1>3. CASE Return(c)
  BY <1>1, <1>2, <1>3, ReturnKeepsUp
<1>4. CASE call[c].pc = "net" /\ (TryAgain(c) \/ GiveUp(c))
  BY <1>1, <1>2, <1>4, AttemptKeepsUp
<1>5. CASE Moves(c, Idle)
  BY <1>1, <1>2, <1>5, IdleFields, MoveKeepsUp
<1>6. CASE Begin(c)
  <2> DEFINE to == [Idle EXCEPT !.pc = "check", !.before = mem]
  <2>1. Moves(c, to) /\ to.pc = "check"
    BY <1>6, IdleFields DEF Begin
  <2> HIDE DEF to
  <2> QED BY <1>1, <1>2, <2>1, MoveKeepsUp
<1>7. ASSUME NEW p, Moves(c, [call[c] EXCEPT !.pc = "wait", !.rt = p]) PROVE KeepsUp'
  <2> DEFINE to == [call[c] EXCEPT !.pc = "wait", !.rt = p]
  <2>1. to.pc = "wait"
    BY RecordFields
  <2>2. Moves(c, to)
    BY <1>7
  <2> HIDE DEF to
  <2> QED BY <1>1, <1>2, <2>1, <2>2, MoveKeepsUp
<1>8. CASE Moves(c, [call[c] EXCEPT !.pc = "send"])
  <2> DEFINE to == [call[c] EXCEPT !.pc = "send"]
  <2>1. to.pc = "send"
    BY RecordFields
  <2>2. Moves(c, to)
    BY <1>8
  <2> HIDE DEF to
  <2> QED BY <1>1, <1>2, <2>1, <2>2, MoveKeepsUp
<1>9. CASE Unauthorized(c)
  <2> DEFINE to == [call[c] EXCEPT !.pc = "check", !.force = TRUE]
  <2>1. Moves(c, to) /\ to.pc = "check"
    BY <1>9, RecordFields DEF Unauthorized
  <2> HIDE DEF to
  <2> QED BY <1>1, <1>2, <2>1, MoveKeepsUp
<1>10. CASE Check(c)
  BY <1>3, <1>7, <1>10 DEF Check
<1>11. CASE GrantLost(c) \/ AttemptFails(c) \/ Rejected(c)
  BY <1>4, <1>11 DEF GrantLost, AttemptFails, Rejected
<1>12. CASE Persisted(c)
  BY <1>3, <1>12 DEF Persisted
<1>13. CASE ProbeSends(c)
  BY <1>5, <1>8, <1>13 DEF ProbeSends
<1>14. CASE Accepted(c) \/ AfterForced(c) \/ Cancel(c)
  BY <1>5, <1>14 DEF Accepted, AfterForced, Cancel
<1> QED BY <1>6, <1>9, <1>10, <1>11, <1>12, <1>13, <1>14

\* The file, the operator, time and a crash: no copy is newer than memory, so a
\* reload takes none, and a crash puts memory back to the file.
LEMMA ElsewhereKeepsUp ==
  ASSUME TypeOK, AllGranted, KeepsUp, Environment
  PROVE  KeepsUp'
<1>1. ASSUME NEW p \in Pair, Persist(p) PROVE KeepsUp'
  <2>1. /\ p \in writers /\ disk' = p /\ writers' = writers \ {p}
        /\ UNCHANGED <<minted, mem, unwritten, recent, snap, login, expiringTo, logins, call>>
    BY <1>1 DEF Persist, provider, account, environment
  <2>2. ASSUME logins = 0 PROVE CatchingUp'
    <3>1. CatchingUp /\ p = mem /\ writers' = {} /\ mem <= mem
      BY <2>1, <2>2 DEF KeepsUp, CatchingUp, TypeOK, Pair
    <3> QED BY <2>1, <3>1 DEF CatchingUp
  <2> QED BY <2>1, <2>2 DEF KeepsUp
<1>10. ASSUME NEW p \in Pair, PersistFails(p) PROVE KeepsUp'
  <2>1. /\ p \in writers /\ writers' = writers \ {p} /\ unwritten' = unwritten \cup {p}
        /\ UNCHANGED <<minted, mem, disk, recent, snap, login, expiringTo, logins, call>>
    BY <1>10 DEF PersistFails, provider, account, environment
  <2>2. ASSUME logins = 0 PROVE CatchingUp'
    <3>1. CatchingUp /\ p = mem /\ writers' = {}
      BY <2>1, <2>2 DEF KeepsUp, CatchingUp, TypeOK, Pair
    <3> QED BY <2>1, <3>1 DEF CatchingUp
  <2> QED BY <2>1, <2>2 DEF KeepsUp
<1>2. CASE LoginGranted
  <2>1. logins' = logins + 1 /\ minted' = minted + 1 /\ expiringTo' = expiringTo
    BY <1>2 DEF LoginGranted
  <2> QED BY <2>1 DEF KeepsUp, TypeOK, Pair, PairOrNone, None
<1>3. CASE LoginWritten
  BY <1>3 DEF LoginWritten, KeepsUp, CatchingUp, provider
<1>4. CASE ReloadLoads
  BY <1>4 DEF ReloadLoads, KeepsUp, CatchingUp, provider, account, file
<1>5. CASE ReloadSyncs
  <2>1. /\ snap' = None /\ mem' = IF snap # mem /\ snap >= mem THEN snap ELSE mem
        /\ UNCHANGED <<minted, disk, writers, unwritten, recent, login, expiringTo, logins, call>>
    BY <1>5 DEF ReloadSyncs, TakesFromFile, provider, file
  <2>2. ASSUME logins = 0 PROVE CatchingUp'
    <3>1. mem' = mem /\ None <= mem
      BY <2>1, <2>2 DEF KeepsUp, CatchingUp, TypeOK, Pair, PairOrNone, None
    <3> QED BY <2>1, <2>2, <3>1 DEF KeepsUp, CatchingUp
  <2> QED BY <2>1, <2>2 DEF KeepsUp
<1>6. CASE FloorPasses
  BY <1>6 DEF FloorPasses, Settled, KeepsUp, CatchingUp, provider, file, environment
<1>7. CASE NextExpires
  <2>1. /\ expiringTo' = expiringTo \/ (expiringTo < minted /\ expiringTo' = expiringTo + 1)
        /\ writers = {} /\ \A c \in Callers : call[c].pc # "granted"
        /\ UNCHANGED <<minted, mem, disk, writers, unwritten, recent, snap, login, logins, call>>
    BY <1>7 DEF NextExpires, Settled, provider, account, file
  <2>2. expiringTo' <= minted'
    BY <2>1 DEF KeepsUp, TypeOK, Pair, PairOrNone, None
  <2> QED BY <2>1, <2>2 DEF KeepsUp, CatchingUp
<1>8. CASE Crash
  <2>1. /\ mem' = disk /\ writers' = {} /\ snap' = None
        /\ \A c \in Callers : call'[c] = Idle
        /\ UNCHANGED <<minted, disk, login, expiringTo, logins>>
    BY <1>8 DEF Crash, provider
  <2>2. disk <= disk /\ None <= disk
    BY DEF TypeOK, Pair, None
  <2> QED BY <2>1, <2>2, IdleFields DEF KeepsUp, CatchingUp
<1>9. ASSUME NEW p \in Pair, Revoke(p) PROVE KeepsUp'
  BY <1>9 DEF Revoke, KeepsUp, CatchingUp, account, file, environment
<1> QED
  BY <1>1, <1>2, <1>3, <1>4, <1>5, <1>6, <1>7, <1>8, <1>9, <1>10 DEF Environment

\* Without a login beside the server, a restart loses nothing once the writes
\* are done: the pair in the file is then the pair in memory, or the write of
\* that very pair failed.
THEOREM FileNeverFallsBehind == Spec => []FileKeepsUp
<1>1. Init => KeepsUp
  BY IdleFields DEF Init, KeepsUp, CatchingUp, None
<1>2. ASSUME TypeOK, OneRefreshAtATime, Safe, KeepsUp, [Next]_vars
      PROVE  KeepsUp'
  <2>1. CASE UNCHANGED vars
    BY <1>2, <2>1 DEF vars, provider, account, file, environment, KeepsUp, CatchingUp
  <2> QED
    BY <1>2, <2>1, CallerKeepsUp, AcquireKeepsUp, GrantedKeepsUp, InstallKeepsUp,
       ElsewhereKeepsUp DEF Next, Step, Safe
<1>3. KeepsUp => FileKeepsUp
  BY DEF KeepsUp, CatchingUp, FileKeepsUp
<1> QED
  BY <1>1, <1>2, <1>3, SafeInit, SafeStep, TypeInvariant, OneRefresh, PTL DEF Spec
-----------------------------------------------------------------------------
\* Who takes an account out of rotation.

LEMMA ReturnMoves ==
  ASSUME TypeOK, NEW c \in Callers, Return(c), call[c].pc \in {"check", "net"}
  PROVE  call'[c] # call[c]
<1> DEFINE to == [pc |-> IF c \in Requests /\ ~call[c].force THEN "send" ELSE "return",
                  force |-> call[c].force, rt |-> None, before |-> call[c].before,
                  cred |-> mem, got |-> None, tries |-> 0]
<1>1. call'[c] = to
  BY OthersStay DEF Return
<1>2. to.pc # "check" /\ to.pc # "net"
  OBVIOUS
<1> HIDE DEF to
<1> QED BY <1>1, <1>2

\* The three places that mark an account: two of them ask on whose behalf and
\* how far the pair's expiry is, the third only acts for a request.
LEMMA OnlyRequestsDisable ==
  ASSUME TypeOK, [Next]_vars, status = "Active", status' = "Error", ~Expired(mem)
  PROVE  \E r \in Requests : call'[r] # call[r]
<1>1. ASSUME NEW c \in Callers, Check(c) PROVE \E r \in Requests : call'[r] # call[r]
  <2>1. dead = mem /\ c \in Requests /\ call[c].pc = "check"
    BY <1>1 DEF Check, MarkedError, Kills
  <2>2. Return(c)
    BY <1>1, <2>1 DEF Check, Needs
  <2> QED BY <2>1, <2>2, ReturnMoves
<1>2. ASSUME NEW c \in Callers, Rejected(c) PROVE \E r \in Requests : call'[r] # call[r]
  <2>1. c \in Requests /\ call[c].pc = "net" /\ Return(c)
    BY <1>2 DEF Rejected, Kills, GiveUp
  <2> QED BY <2>1, ReturnMoves
<1>3. ASSUME NEW c \in Callers, AfterForced(c) PROVE \E r \in Requests : call'[r] # call[r]
  <2>1. c \in Requests /\ call[c].pc = "return" /\ call'[c] = Idle
    BY <1>3, OthersStay DEF AfterForced
  <2> QED BY <2>1, IdleFields
<1>4. ASSUME NEW c \in Callers,
             \/ Begin(c) \/ Acquire(c) \/ Granted(c) \/ GrantLost(c) \/ AttemptFails(c)
             \/ Install(c) \/ Persisted(c) \/ ProbeSends(c) \/ Accepted(c)
             \/ Unauthorized(c) \/ Cancel(c)
      PROVE  FALSE
  BY <1>4 DEF Begin, Acquire, Granted, GrantLost, AttemptFails, Install, Persisted, ProbeSends,
              Accepted, Unauthorized, Cancel, account
<1>5. CASE Environment
  BY <1>5 DEF Environment, Persist, PersistFails, Revoke, LoginGranted, LoginWritten, ReloadLoads,
              ReloadSyncs, FloorPasses, NextExpires, Crash, account
<1>6. CASE UNCHANGED vars
  BY <1>6 DEF vars, account
<1> QED BY <1>1, <1>2, <1>3, <1>4, <1>5, <1>6 DEF Next, Step

\* A probe never takes an account with a usable token out of rotation, however
\* its refresh ends: only a request that moves in that very step does.
THEOREM ProbesLeaveUsableAccounts == Spec => ProbeNeverDisables
<1>1. ASSUME TypeOK, [Next]_vars
      PROVE  [status = "Active" /\ status' = "Error" /\ ~Expired(mem)
                => \E r \in Requests : call'[r] # call[r]]_vars
  BY <1>1, OnlyRequestsDisable
<1> QED
  BY <1>1, TypeInvariant, PTL DEF Spec, ProbeNeverDisables
============================================================================
