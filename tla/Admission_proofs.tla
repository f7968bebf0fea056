-------------------------- MODULE Admission_proofs --------------------------
(***************************************************************************)
(* The counts of requests on an account are right for any number of        *)
(* requests and accounts, any ramp and any number of reloads, and a ramp   *)
(* keeps the herd within its cap.                                          *)
(*                                                                         *)
(* An operation moves one request, so the set of the requests that hold a  *)
(* slot on an account gains it, loses it or stays (Gains, Loses), and the  *)
(* count follows by one.  A count may fall behind only on an account that  *)
(* was dropped and came back with zero, which the invariant remembers.     *)
(* What an exact count admits, against a cap that only grows, is paced.    *)
(***************************************************************************)
EXTENDS Admission, FiniteSetTheorems, TLAPS

\* A request under way has an account; one that is not there was dropped.
Known == /\ \A r \in Requests : pc[r] # "idle" => at[r] \in Accounts
         /\ \A a \in Accounts : ~fleet[a].there =>
              a \in removed /\ fleet[a].flight = 0 /\ fleet[a].open = 0

IInv == TypeOK /\ Known /\ SlotsAccountedFor

LEMMA HoldersFinite ==
  ASSUME NEW a
  PROVE  /\ IsFiniteSet(SlotHolders(a)) /\ Cardinality(SlotHolders(a)) \in Nat
         /\ IsFiniteSet(OpenHolders(a)) /\ Cardinality(OpenHolders(a)) \in Nat
<1>1. SlotHolders(a) \subseteq Requests /\ OpenHolders(a) \subseteq Requests
  BY DEF SlotHolders, OpenHolders
<1> QED BY <1>1, SomeRequests, FS_Subset, FS_CardinalityType

\* The counts of one account against the requests on it.
Agrees(count, n, gone) == /\ count \in Nat
                          /\ count <= n
                          /\ ~gone => count = n

Right(a) == /\ Agrees(fleet[a].flight, Cardinality(SlotHolders(a)), a \in removed)
            /\ Agrees(fleet[a].open, Cardinality(OpenHolders(a)), a \in removed)

LEMMA RightIs ==
  ASSUME TypeOK
  PROVE  SlotsAccountedFor <=> \A a \in Accounts : Right(a)
<1>1. \A a \in Accounts : fleet[a].flight \in Nat /\ fleet[a].open \in Nat
  BY DEF TypeOK, AccountState
<1> QED BY <1>1 DEF SlotsAccountedFor, Right, Agrees

LEMMA RightNext ==
  ASSUME TypeOK', \A a \in Accounts : Right(a)'
  PROVE  SlotsAccountedFor'
BY DEF SlotsAccountedFor, Right, Agrees

LEMMA Gains ==
  ASSUME NEW S, IsFiniteSet(S), NEW x, x \notin S
  PROVE  Cardinality(S \cup {x}) = Cardinality(S) + 1
BY FS_AddElement

LEMMA Loses ==
  ASSUME NEW S, IsFiniteSet(S), NEW x \in S
  PROVE  Cardinality(S \ {x}) = Cardinality(S) - 1 /\ Cardinality(S) >= 1
<1>1. Cardinality(S \ {x}) = Cardinality(S) - 1
  BY FS_RemoveElement
<1>2. IsFiniteSet(S \ {x}) /\ Cardinality(S \ {x}) \in Nat /\ Cardinality(S) \in Nat
  BY FS_RemoveElement, FS_CardinalityType
<1> QED BY <1>1, <1>2

---------------------------------------------------------------------------
(* A request that moves, on the account it is on.                          *)

SlotPC == {"slot", "wire", "closing"}
OpenPC == {"wire", "body"}

LEMMA Turn ==
  ASSUME TypeOK, NEW r \in Requests, NEW p \in PC, Goes(r, p), UNCHANGED at,
         NEW a \in Accounts
  PROVE  /\ SlotHolders(a)' = IF a = at[r] /\ p \in SlotPC THEN SlotHolders(a) \cup {r}
                                                           ELSE SlotHolders(a) \ {r}
         /\ OpenHolders(a)' = IF a = at[r] /\ p \in OpenPC THEN OpenHolders(a) \cup {r}
                                                           ELSE OpenHolders(a) \ {r}
<1>1. \A q \in Requests : pc'[q] = IF q = r THEN p ELSE pc[q]
  BY DEF TypeOK, Goes
<1> QED BY <1>1 DEF SlotHolders, OpenHolders, SlotPC, OpenPC

LEMMA Elsewhere ==
  ASSUME IInv, NEW r \in Requests, NEW p \in PC, Goes(r, p), UNCHANGED <<at, removed>>,
         NEW s, Count(at[r], s), NEW a \in Accounts, a # at[r]
  PROVE  Right(a)'
<1>1. SlotHolders(a)' = SlotHolders(a) /\ OpenHolders(a)' = OpenHolders(a)
  <2>1. r \notin SlotHolders(a) /\ r \notin OpenHolders(a)
    BY DEF SlotHolders, OpenHolders
  <2> QED BY <2>1, Turn DEF IInv
<1>2. fleet'[a] = fleet[a]
  BY DEF Count, IInv, TypeOK
<1>3. Right(a)
  BY RightIs DEF IInv
<1> QED BY <1>1, <1>2, <1>3 DEF Right

LEMMA MoveKeeps ==
  ASSUME IInv, NEW r \in Requests, pc[r] # "idle", NEW p \in PC, Goes(r, p), Rest,
         NEW s \in AccountState, Count(at[r], s),
         fleet[at[r]].there =>
           /\ s.there
           /\ Agrees(s.flight, Cardinality(SlotHolders(at[r])'), at[r] \in removed)
           /\ Agrees(s.open, Cardinality(OpenHolders(at[r])'), at[r] \in removed)
  PROVE  IInv'
<1> DEFINE b == at[r]
<1>1. b \in Accounts /\ b' = b
  BY DEF IInv, Known, Rest
<1>2. TypeOK'
  BY <1>1 DEF IInv, TypeOK, Goes, Rest, Count, history, bounds
<1>3. CASE fleet[b].there
  <2>1. fleet'[b] = s /\ \A a \in Accounts : a # b => fleet'[a] = fleet[a]
    BY <1>1, <1>3 DEF Count, IInv, TypeOK
  <2>2. Right(b)'
    BY <1>1, <1>3, <2>1 DEF Right, Rest, history
  <2>3. \A a \in Accounts : Right(a)'
    BY <1>1, <2>2, Elsewhere DEF Rest, history
  <2>4. SlotsAccountedFor'
    BY <1>2, <2>3, RightNext
  <2>5. Known'
    <3>1. \A q \in Requests : pc'[q] = IF q = r THEN p ELSE pc[q]
      BY DEF IInv, TypeOK, Goes
    <3> QED BY <1>1, <1>3, <2>1, <3>1 DEF IInv, Known, Rest, history
  <2> QED BY <1>2, <2>4, <2>5 DEF IInv
<1>4. CASE ~fleet[b].there
  <2>1. fleet' = fleet
    BY <1>4 DEF Count
  <2>2. b \in removed /\ fleet[b].flight = 0 /\ fleet[b].open = 0
    BY <1>1, <1>4 DEF IInv, Known
  <2>3. Right(b)'
    <3>1. /\ Cardinality(SlotHolders(b)') \in Nat
          /\ Cardinality(OpenHolders(b)') \in Nat
      <4>1. /\ SlotHolders(b)' \subseteq Requests
            /\ OpenHolders(b)' \subseteq Requests
        BY <1>1 DEF SlotHolders, OpenHolders
      <4> QED BY <4>1, SomeRequests, FS_Subset, FS_CardinalityType
    <3> QED BY <1>1, <2>1, <2>2, <3>1 DEF Right, Agrees, Rest, history
  <2>4. \A a \in Accounts : Right(a)'
    BY <1>1, <2>3, Elsewhere DEF Rest, history
  <2>5. SlotsAccountedFor'
    BY <1>2, <2>4, RightNext
  <2>6. Known'
    <3>1. \A q \in Requests : pc'[q] = IF q = r THEN p ELSE pc[q]
      BY DEF IInv, TypeOK, Goes
    <3> QED BY <1>1, <2>1, <3>1 DEF IInv, Known, Rest, history
  <2> QED BY <1>2, <2>5, <2>6 DEF IInv
<1> QED BY <1>3, <1>4

---------------------------------------------------------------------------
(* One lemma per operation of a request.                                   *)

\* What the invariant says of the account a request is on.
LEMMA OnAccount ==
  ASSUME IInv, NEW r \in Requests, pc[r] # "idle"
  PROVE  /\ at[r] \in Accounts /\ fleet[at[r]] \in AccountState
         /\ Right(at[r])
         /\ pc[r] \in SlotPC <=> r \in SlotHolders(at[r])
         /\ pc[r] \in OpenPC <=> r \in OpenHolders(at[r])
<1>1. at[r] \in Accounts
  BY DEF IInv, Known
<1> QED
  BY <1>1, RightIs DEF IInv, TypeOK, SlotHolders, OpenHolders, SlotPC, OpenPC

\* The account after a request is let in.
LEMMA GrantedIs ==
  ASSUME NEW f \in AccountState, NEW n \in Nat, NEW ramping \in BOOLEAN
  PROVE  LET s == [f EXCEPT !.flight = n, !.ramping = ramping] IN
         /\ s \in AccountState /\ s.there = f.there
         /\ s.flight = n /\ s.open = f.open
<1> DEFINE e == f.elapsed
<1>1. e \in 0 .. WindowTicks
  BY DEF AccountState
<1> QED BY <1>1 DEF AccountState

LEMMA AdmitKeeps ==
  ASSUME IInv, NEW r \in Requests, Admit(r)
  PROVE  IInv'
<1> DEFINE a == at[r]
           still == fleet[a].ramping /\ ~(storm /\ Over(a))
           s == [fleet[a] EXCEPT !.flight = @ + 1, !.ramping = still]
<1>1. pc[r] = "wait" /\ Goes(r, "slot") /\ Rest /\ Count(a, s)
  BY DEF Admit, Rest
<1>2. /\ a \in Accounts /\ fleet[a] \in AccountState /\ Right(a)
      /\ r \notin SlotHolders(a) /\ r \notin OpenHolders(a)
  BY <1>1, OnAccount DEF SlotPC, OpenPC
<1>3. still \in BOOLEAN
  OBVIOUS
<1> HIDE DEF still
<1>4. /\ s \in AccountState /\ s.there = fleet[a].there
      /\ s.flight = fleet[a].flight + 1 /\ s.open = fleet[a].open
  <2>1. fleet[a].flight + 1 \in Nat
    BY <1>2 DEF AccountState
  <2> DEFINE f == fleet[a]
             n == f.flight + 1
  <2>2. s = [f EXCEPT !.flight = n, !.ramping = still]
    OBVIOUS
  <2>3. f \in AccountState /\ n \in Nat
    BY <1>2, <2>1
  <2> HIDE DEF s, f, n
  <2>4. s \in AccountState /\ s.there = f.there /\ s.flight = n /\ s.open = f.open
    BY <1>3, <2>2, <2>3 DEF AccountState
  <2> QED BY <2>4 DEF f, n
<1>5. /\ SlotHolders(a)' = SlotHolders(a) \cup {r}
      /\ OpenHolders(a)' = OpenHolders(a)
  BY <1>1, <1>2, Turn DEF IInv, Rest, SlotPC, OpenPC, PC
<1>6. Cardinality(SlotHolders(a)') = Cardinality(SlotHolders(a)) + 1
  BY <1>2, <1>5, HoldersFinite, Gains
<1>7. Agrees(s.flight, Cardinality(SlotHolders(a)'), a \in removed)
  BY <1>2, <1>4, <1>6, HoldersFinite DEF Right, Agrees
<1>8. Agrees(s.open, Cardinality(OpenHolders(a)'), a \in removed)
  BY <1>2, <1>4, <1>5 DEF Right
<1> HIDE DEF s
<1> QED BY <1>1, <1>4, <1>7, <1>8, MoveKeeps DEF PC

LEMMA OpenKeeps ==
  ASSUME IInv, NEW r \in Requests, Open(r)
  PROVE  IInv'
<1> DEFINE a == at[r]
           s == [fleet[a] EXCEPT !.open = @ + 1]
<1>1. pc[r] = "slot" /\ Goes(r, "wire") /\ Rest /\ Count(a, s)
  BY DEF Open
<1>2. /\ a \in Accounts /\ fleet[a] \in AccountState /\ Right(a)
      /\ r \in SlotHolders(a) /\ r \notin OpenHolders(a)
  BY <1>1, OnAccount DEF SlotPC, OpenPC
<1>3. /\ s \in AccountState /\ s.there = fleet[a].there
      /\ s.flight = fleet[a].flight /\ s.open = fleet[a].open + 1
  BY <1>2 DEF AccountState
<1>4. /\ SlotHolders(a)' = SlotHolders(a)
      /\ OpenHolders(a)' = OpenHolders(a) \cup {r}
  <2>1. SlotHolders(a) \cup {r} = SlotHolders(a)
    BY <1>2
  <2> QED BY <1>1, <1>2, <2>1, Turn DEF IInv, Rest, SlotPC, OpenPC, PC
<1>5. Cardinality(OpenHolders(a)') = Cardinality(OpenHolders(a)) + 1
  BY <1>2, <1>4, HoldersFinite, Gains
<1>6. Agrees(s.open, Cardinality(OpenHolders(a)'), a \in removed)
  BY <1>2, <1>3, <1>5, HoldersFinite DEF Right, Agrees
<1>7. Agrees(s.flight, Cardinality(SlotHolders(a)'), a \in removed)
  BY <1>2, <1>3, <1>4 DEF Right
<1> HIDE DEF s
<1> QED BY <1>1, <1>3, <1>6, <1>7, MoveKeeps DEF PC

\* A slot guard dropped by a request that is not open afterwards, or was open
\* and stays so.
LEMMA ReleaseKeeps ==
  ASSUME IInv, NEW r \in Requests, pc[r] \in SlotPC, NEW p \in PC \ SlotPC, Goes(r, p),
         Release(r), Rest, pc[r] \in OpenPC <=> p \in OpenPC
  PROVE  IInv'
<1> DEFINE a == at[r]
           s == [fleet[a] EXCEPT !.flight = Less(@)]
<1>1. Count(a, s) /\ pc[r] # "idle"
  BY DEF Release, SlotPC
<1>2. /\ a \in Accounts /\ fleet[a] \in AccountState /\ Right(a)
      /\ r \in SlotHolders(a) /\ (p \in OpenPC <=> r \in OpenHolders(a))
  BY <1>1, OnAccount
<1>3. Less(fleet[a].flight) \in Nat
  BY <1>2 DEF AccountState, Less
<1>4. /\ s \in AccountState /\ s.there = fleet[a].there
      /\ s.flight = Less(fleet[a].flight) /\ s.open = fleet[a].open
  BY <1>2, <1>3 DEF AccountState
<1>5. /\ SlotHolders(a)' = SlotHolders(a) \ {r}
      /\ OpenHolders(a)' = OpenHolders(a)
  BY <1>2, Turn DEF IInv, Rest
<1>6. /\ Cardinality(SlotHolders(a)') = Cardinality(SlotHolders(a)) - 1
      /\ Cardinality(SlotHolders(a)) >= 1
  BY <1>2, <1>5, HoldersFinite, Loses
<1>7. Agrees(s.flight, Cardinality(SlotHolders(a)'), a \in removed)
  BY <1>2, <1>4, <1>6, HoldersFinite DEF Right, Agrees, Less
<1>8. Agrees(s.open, Cardinality(OpenHolders(a)'), a \in removed)
  BY <1>2, <1>4, <1>5 DEF Right
<1> HIDE DEF s
<1> QED BY <1>1, <1>4, <1>7, <1>8, MoveKeeps

LEMMA CloseKeeps ==
  ASSUME IInv, NEW r \in Requests, pc[r] \in OpenPC, NEW p \in PC \ OpenPC, Goes(r, p),
         Close(r), Rest, pc[r] \in SlotPC <=> p \in SlotPC
  PROVE  IInv'
<1> DEFINE a == at[r]
           s == [fleet[a] EXCEPT !.open = Less(@)]
<1>1. Count(a, s) /\ pc[r] # "idle"
  BY DEF Close, OpenPC
<1>2. /\ a \in Accounts /\ fleet[a] \in AccountState /\ Right(a)
      /\ r \in OpenHolders(a) /\ (p \in SlotPC <=> r \in SlotHolders(a))
  BY <1>1, OnAccount
<1>3. Less(fleet[a].open) \in Nat
  BY <1>2 DEF AccountState, Less
<1>4. /\ s \in AccountState /\ s.there = fleet[a].there
      /\ s.open = Less(fleet[a].open) /\ s.flight = fleet[a].flight
  BY <1>2, <1>3 DEF AccountState
<1>5. /\ OpenHolders(a)' = OpenHolders(a) \ {r}
      /\ SlotHolders(a)' = SlotHolders(a)
  <2>1. OpenHolders(a)' = OpenHolders(a) \ {r}
    BY <1>2, Turn DEF IInv, Rest
  <2>2. CASE p \in SlotPC
    <3>1. SlotHolders(a) \cup {r} = SlotHolders(a)
      BY <1>2, <2>2
    <3> QED BY <1>2, <2>1, <2>2, <3>1, Turn DEF IInv, Rest
  <2>3. CASE p \notin SlotPC
    <3>1. SlotHolders(a) \ {r} = SlotHolders(a)
      BY <1>2, <2>3
    <3> QED BY <1>2, <2>1, <2>3, <3>1, Turn DEF IInv, Rest
  <2> QED BY <2>2, <2>3
<1>6. /\ Cardinality(OpenHolders(a)') = Cardinality(OpenHolders(a)) - 1
      /\ Cardinality(OpenHolders(a)) >= 1
  BY <1>2, <1>5, HoldersFinite, Loses
<1>7. Agrees(s.open, Cardinality(OpenHolders(a)'), a \in removed)
  BY <1>2, <1>4, <1>6, HoldersFinite DEF Right, Agrees, Less
<1>8. Agrees(s.flight, Cardinality(SlotHolders(a)'), a \in removed)
  BY <1>2, <1>4, <1>5 DEF Right
<1> HIDE DEF s
<1> QED BY <1>1, <1>4, <1>7, <1>8, MoveKeeps
---------------------------------------------------------------------------
(* Steps that move no count: the requests on every account stay, and so    *)
(* does what every account counts.                                         *)

LEMMA CountsStay ==
  ASSUME IInv, TypeOK', UNCHANGED removed,
         \A a \in Accounts : /\ SlotHolders(a)' = SlotHolders(a)
                             /\ OpenHolders(a)' = OpenHolders(a)
                             /\ fleet'[a].there = fleet[a].there
                             /\ fleet'[a].flight = fleet[a].flight
                             /\ fleet'[a].open = fleet[a].open,
         \A r \in Requests : pc'[r] # "idle" => at'[r] \in Accounts
  PROVE  IInv'
<1>1. \A a \in Accounts : Right(a)
  BY RightIs DEF IInv
<1>2. \A a \in Accounts : Right(a)'
  BY <1>1 DEF Right
<1>3. SlotsAccountedFor'
  BY <1>2, RightNext
<1>4. Known'
  BY DEF IInv, Known
<1> QED BY <1>3, <1>4 DEF IInv

\* What a ramp begun, or none, changes of the accounts.
LEMMA RampMovesNoCount ==
  ASSUME TypeOK, NEW a \in Accounts, BeginRamp(a) \/ NoRamp
  PROVE  /\ fleet' \in [Accounts -> AccountState] /\ base' \in [Accounts -> Nat]
         /\ ramps' \in 0 .. MaxRamps
         /\ \A b \in Accounts : /\ fleet'[b].there = fleet[b].there
                                /\ fleet'[b].flight = fleet[b].flight
                                /\ fleet'[b].open = fleet[b].open
<1>1. CASE NoRamp
  BY <1>1 DEF NoRamp, TypeOK
<1>2. CASE BeginRamp(a)
  <2> DEFINE s == [fleet[a] EXCEPT !.ramping = TRUE, !.elapsed = 0]
  <2>1. fleet[a] \in AccountState /\ 0 \in 0 .. WindowTicks
    BY Ramp DEF TypeOK
  <2>2. /\ s \in AccountState /\ s.there = fleet[a].there
        /\ s.flight = fleet[a].flight /\ s.open = fleet[a].open
    BY <2>1 DEF AccountState
  <2>3. fleet' = [fleet EXCEPT ![a] = s]
    BY <1>2 DEF BeginRamp
  <2> HIDE DEF s
  <2>4. fleet' \in [Accounts -> AccountState]
    BY <2>2, <2>3 DEF TypeOK
  <2>5. \A b \in Accounts : /\ fleet'[b].there = fleet[b].there
                            /\ fleet'[b].flight = fleet[b].flight
                            /\ fleet'[b].open = fleet[b].open
    BY <2>2, <2>3 DEF TypeOK
  <2>6. Cardinality(SlotHolders(a)) \in Nat
    BY HoldersFinite
  <2>7. base' \in [Accounts -> Nat]
    BY <1>2, <2>6 DEF BeginRamp, TypeOK
  <2>8. ramps' \in 0 .. MaxRamps
    BY <1>2, Bounds DEF BeginRamp, TypeOK
  <2> QED BY <2>4, <2>5, <2>7, <2>8
<1> QED BY <1>1, <1>2

LEMMA SelectKeeps ==
  ASSUME IInv, NEW r \in Requests, Select(r)
  PROVE  IInv'
<1>1. PICK a \in Accounts :
        /\ at' = [at EXCEPT ![r] = a]
        /\ BeginRamp(a) \/ NoRamp
        /\ current' = current \/ current' = a
  BY DEF Select, RampIfCold, SetCurrent
<1>2. pc[r] = "idle" /\ Goes(r, "wait") /\ UNCHANGED <<storm, removed, reloads>>
  BY DEF Select
<1>3. pc' \in [Requests -> PC] /\ at' \in [Requests -> Accounts \cup {NoOne}]
  BY <1>1, <1>2 DEF IInv, TypeOK, Goes, PC
<1>4. TypeOK'
  BY <1>1, <1>2, <1>3, RampMovesNoCount DEF IInv, TypeOK
<1>5. \A b \in Accounts : /\ SlotHolders(b)' = SlotHolders(b)
                          /\ OpenHolders(b)' = OpenHolders(b)
  BY <1>1, <1>2 DEF IInv, TypeOK, Goes, SlotHolders, OpenHolders
<1>6. \A q \in Requests : pc'[q] # "idle" => at'[q] \in Accounts
  BY <1>1, <1>2 DEF IInv, TypeOK, Known, Goes
<1> QED BY <1>1, <1>2, <1>4, <1>5, <1>6, RampMovesNoCount, CountsStay DEF IInv

LEMMA SwitchToKeeps ==
  ASSUME IInv, NEW a \in Accounts, SwitchTo(a)
  PROVE  IInv'
<1>1. /\ BeginRamp(a) /\ current' = a
      /\ UNCHANGED <<storm, pc, at, removed, reloads>>
  BY DEF SwitchTo, reqVars
<1>2. TypeOK'
  BY <1>1, RampMovesNoCount DEF IInv, TypeOK
<1>3. \A b \in Accounts : /\ SlotHolders(b)' = SlotHolders(b)
                          /\ OpenHolders(b)' = OpenHolders(b)
  BY <1>1 DEF SlotHolders, OpenHolders
<1> QED
  BY <1>1, <1>2, <1>3, RampMovesNoCount, CountsStay DEF IInv, Known

\* A request that is given up while it waits.
LEMMA LeaveKeeps ==
  ASSUME IInv, NEW r \in Requests, pc[r] = "wait", Goes(r, "idle"), UNCHANGED fleet, Rest
  PROVE  IInv'
<1>1. TypeOK'
  BY DEF IInv, TypeOK, Goes, PC, Rest, history, bounds
<1>2. \A q \in Requests : pc'[q] = IF q = r THEN "idle" ELSE pc[q]
  BY DEF IInv, TypeOK, Goes
<1>3. \A a \in Accounts : /\ SlotHolders(a)' = SlotHolders(a)
                          /\ OpenHolders(a)' = OpenHolders(a)
  BY <1>2 DEF Rest, SlotHolders, OpenHolders
<1> QED
  BY <1>1, <1>2, <1>3, CountsStay DEF IInv, Known, Rest, history

LEMMA TickKeeps ==
  ASSUME IInv, Tick
  PROVE  IInv'
<1> DEFINE later(a) == [fleet[a] EXCEPT !.elapsed = @ + 1]
<1>1. /\ fleet' = [a \in Accounts |-> IF fleet[a].ramping /\ ~Over(a) THEN later(a)
                                                                      ELSE fleet[a]]
      /\ UNCHANGED <<storm, current, pc, at, removed, base, ramps, reloads>>
  BY DEF Tick, reqVars, history, bounds
<1>2. ASSUME NEW a \in Accounts
      PROVE  /\ ~Over(a) => later(a) \in AccountState
             /\ later(a).there = fleet[a].there
             /\ later(a).flight = fleet[a].flight
             /\ later(a).open = fleet[a].open
  <2>1. fleet[a] \in AccountState
    BY DEF IInv, TypeOK
  <2>2. ~Over(a) => fleet[a].elapsed + 1 \in 0 .. WindowTicks
    BY <2>1, Ramp DEF AccountState, Over
  <2> QED BY <2>1, <2>2 DEF AccountState
<1> HIDE DEF later
<1>3. fleet' \in [Accounts -> AccountState]
  BY <1>1, <1>2 DEF IInv, TypeOK
<1>4. TypeOK'
  BY <1>1, <1>3 DEF IInv, TypeOK
<1>5. \A a \in Accounts : /\ fleet'[a].there = fleet[a].there
                          /\ fleet'[a].flight = fleet[a].flight
                          /\ fleet'[a].open = fleet[a].open
  BY <1>1, <1>2
<1>6. \A a \in Accounts : /\ SlotHolders(a)' = SlotHolders(a)
                          /\ OpenHolders(a)' = OpenHolders(a)
  BY <1>1 DEF SlotHolders, OpenHolders
<1> QED BY <1>1, <1>4, <1>5, <1>6, CountsStay DEF IInv, Known

---------------------------------------------------------------------------
(* A reload: an account that goes is remembered as removed.                *)

LEMMA GoneIs ==
  ASSUME NEW f \in AccountState
  PROVE  LET s == [f EXCEPT !.there = FALSE] IN
         s \in AccountState /\ ~s.there /\ s.flight = f.flight /\ s.open = f.open
BY DEF AccountState

LEMMA ReloadKeeps ==
  ASSUME IInv, Reload
  PROVE  IInv'
<1>1. PICK there \in SUBSET Accounts, on \in BOOLEAN :
        /\ fleet' = [a \in Accounts |->
                       IF a \notin there THEN [Fresh EXCEPT !.there = FALSE]
                       ELSE IF fleet[a].there THEN fleet[a] ELSE Fresh]
        /\ current' = IF current \in there THEN current ELSE NoOne
        /\ removed' = removed \cup (Accounts \ there)
        /\ storm' = on
        /\ base' = [a \in Accounts |-> IF on /\ ~storm THEN Cardinality(SlotHolders(a))
                                                       ELSE base[a]]
  BY DEF Reload
<1>2. UNCHANGED <<pc, at, ramps>> /\ reloads' \in 0 .. MaxReloads
  BY Bounds DEF Reload, reqVars, IInv, TypeOK
<1> DEFINE gone == [Fresh EXCEPT !.there = FALSE]
<1>3. /\ gone \in AccountState /\ ~gone.there /\ gone.flight = 0 /\ gone.open = 0
      /\ Fresh \in AccountState /\ Fresh.there /\ Fresh.flight = 0 /\ Fresh.open = 0
  <2>1. Fresh \in AccountState /\ Fresh.there /\ Fresh.flight = 0 /\ Fresh.open = 0
    BY Ramp DEF Fresh, AccountState
  <2>2. gone \in AccountState /\ ~gone.there
        /\ gone.flight = Fresh.flight /\ gone.open = Fresh.open
    BY <2>1, GoneIs
  <2> QED BY <2>1, <2>2
<1>4. \A a \in Accounts : fleet[a] \in AccountState /\ base[a] \in Nat
  BY DEF IInv, TypeOK
<1>5. \A a \in Accounts :
        fleet'[a] = IF a \notin there THEN gone ELSE IF fleet[a].there THEN fleet[a] ELSE Fresh
  BY <1>1
<1> HIDE DEF gone
<1>6. TypeOK'
  <2>1. fleet' \in [Accounts -> AccountState]
    <3>1. \A a \in Accounts : fleet'[a] \in AccountState
      BY <1>3, <1>4, <1>5
    <3>2. fleet' = [a \in Accounts |-> fleet'[a]]
      BY <1>1, Zenon
    <3> QED BY <3>1, <3>2
  <2>2. base' \in [Accounts -> Nat]
    BY <1>1, <1>4, HoldersFinite
  <2> QED BY <1>1, <1>2, <2>1, <2>2 DEF IInv, TypeOK
<1>7. \A a \in Accounts : /\ SlotHolders(a)' = SlotHolders(a)
                          /\ OpenHolders(a)' = OpenHolders(a)
  BY <1>2 DEF SlotHolders, OpenHolders
<1>8. ASSUME NEW a \in Accounts
      PROVE  Right(a)'
  <2>1. Right(a)
    BY RightIs DEF IInv
  <2>2. CASE a \in there /\ fleet[a].there
    <3>1. fleet'[a] = fleet[a]
      BY <1>5, <2>2
    <3> QED BY <1>1, <1>7, <2>1, <2>2, <3>1 DEF Right, Agrees
  <2>3. CASE ~(a \in there /\ fleet[a].there)
    <3>1. a \in removed'
      BY <1>1, <2>3 DEF IInv, Known
    <3>2. fleet'[a].flight = 0 /\ fleet'[a].open = 0
      BY <1>3, <1>5, <2>3
    <3> QED BY <1>7, <3>1, <3>2, HoldersFinite DEF Right, Agrees
  <2> QED BY <2>2, <2>3
<1>9. SlotsAccountedFor'
  BY <1>6, <1>8, RightNext
<1>10. Known'
  <2>1. \A r \in Requests : pc'[r] # "idle" => at'[r] \in Accounts
    BY <1>2 DEF IInv, Known
  <2>2. ASSUME NEW a \in Accounts, ~fleet'[a].there
        PROVE  a \in removed' /\ fleet'[a].flight = 0 /\ fleet'[a].open = 0
    BY <1>1, <1>3, <1>5, <2>2
  <2> QED BY <2>1, <2>2 DEF Known
<1> QED BY <1>6, <1>9, <1>10 DEF IInv

---------------------------------------------------------------------------
(* The ramp.  What is promised while it runs is only put at stake by a     *)
(* request that is let in; all else leaves the requests on an account or   *)
(* lowers them, and time only raises the cap.                              *)

Herd(a) == Cardinality(SlotHolders(a))

\* The ramp of a holds requests back and its counts are exact.
Bound(a) == storm /\ fleet[a].ramping /\ ~Over(a) /\ a \notin removed

Paced(a) == Bound(a) => Herd(a) <= Cap(fleet[a].elapsed) \/ Herd(a) <= base[a]

LEMMA HerdIsPacedIs == HerdIsPaced <=> \A a \in Accounts : Paced(a)
BY DEF HerdIsPaced, Paced, Bound, Herd

LEMMA QuotientGrows ==
  ASSUME NEW n \in Nat, NEW k \in Nat \ {0}
  PROVE  n \div k \in Nat /\ (n + 1) \div k \in Nat /\ n \div k <= (n + 1) \div k
<1> DEFINE q == n \div k
           s == (n + 1) \div k
<1>1. q \in Int /\ s \in Int /\ 0 <= q /\ 0 <= s
  OBVIOUS
<1>2. k * q <= n /\ n + 1 < k * (s + 1)
  OBVIOUS
<1>3. SUFFICES ASSUME s < q PROVE FALSE
  BY <1>1
<1> HIDE DEF q, s
<1>4. q = s + 1 + (q - s - 1) /\ q - s - 1 \in Nat
  BY <1>1, <1>3
<1>5. k * (q - s - 1) \in Nat
  BY <1>4
<1>6. k * q = k * (s + 1) + k * (q - s - 1)
  BY <1>1
<1>7. k * (s + 1) \in Int /\ k * q \in Int
  BY <1>1
<1> QED BY <1>2, <1>5, <1>6, <1>7

LEMMA CapGrows ==
  ASSUME NEW e \in Nat
  PROVE  Cap(e) \in Nat /\ Cap(e + 1) \in Nat /\ Cap(e) <= Cap(e + 1)
<1> DEFINE k == AtLeast1(StepTicks)
           q == e \div k
           s == (e + 1) \div k
<1>1. k \in Nat \ {0} /\ AtLeast1(StartConc) \in Nat /\ StepConc \in Nat
  BY Ramp DEF AtLeast1
<1>2. q \in Nat /\ s \in Nat /\ q <= s
  BY <1>1, QuotientGrows
<1>3. Cap(e) = AtLeast1(StartConc) + q * StepConc /\ Cap(e + 1) = AtLeast1(StartConc) + s * StepConc
  BY DEF Cap
<1> HIDE DEF q, s, k
<1>4. s * StepConc = q * StepConc + (s - q) * StepConc /\ s - q \in Nat
  BY <1>1, <1>2
<1>5. q * StepConc \in Nat /\ (s - q) * StepConc \in Nat
  BY <1>1, <1>4, <1>2
<1> QED BY <1>1, <1>3, <1>4, <1>5

LEMMA HerdIsNat ==
  ASSUME NEW a
  PROVE  Herd(a) \in Nat /\ Herd(a)' \in Nat
<1>1. SlotHolders(a)' \subseteq Requests
  BY DEF SlotHolders
<1> QED BY <1>1, HoldersFinite, SomeRequests, FS_Subset, FS_CardinalityType DEF Herd

\* A step that begins no ramp, lets nobody in and takes no time from one.
LEMMA PacedStays ==
  ASSUME TypeOK, NEW a \in Accounts, Paced(a), Bound(a)' => Bound(a),
         SlotHolders(a)' \subseteq SlotHolders(a), base'[a] = base[a],
         Bound(a)' => fleet'[a].elapsed \in {fleet[a].elapsed, fleet[a].elapsed + 1}
  PROVE  Paced(a)'
<1>1. Herd(a)' <= Herd(a)
  BY HoldersFinite, FS_Subset DEF Herd
<1>2. Herd(a) \in Nat /\ Herd(a)' \in Nat
  BY HerdIsNat
<1>3. fleet[a].elapsed \in Nat /\ base[a] \in Nat
  BY Ramp DEF TypeOK, AccountState
<1>4. /\ Cap(fleet[a].elapsed) \in Nat /\ Cap(fleet[a].elapsed + 1) \in Nat
      /\ Cap(fleet[a].elapsed) <= Cap(fleet[a].elapsed + 1)
  BY <1>3, CapGrows
<1> SUFFICES ASSUME Bound(a)'
             PROVE  (Herd(a) <= Cap(fleet[a].elapsed) \/ Herd(a) <= base[a])'
  BY DEF Paced
<1>5. Herd(a) <= Cap(fleet[a].elapsed) \/ Herd(a) <= base[a]
  BY DEF Paced
<1>6. Cap(fleet[a].elapsed)' \in {Cap(fleet[a].elapsed), Cap(fleet[a].elapsed + 1)}
  BY DEF Cap
<1> QED BY <1>1, <1>2, <1>3, <1>4, <1>5, <1>6

\* A guard given up, or a request sent: the account's ramp is not touched.
LEMMA HoldsLess ==
  ASSUME IInv, NEW r \in Requests, pc[r] # "idle", NEW p \in PC, Goes(r, p), Rest,
         NEW s, Count(at[r], s), p \in SlotPC => pc[r] \in SlotPC,
         s.ramping = fleet[at[r]].ramping, s.elapsed = fleet[at[r]].elapsed,
         NEW a \in Accounts, Paced(a)
  PROVE  Paced(a)'
<1>1. fleet'[a].ramping = fleet[a].ramping /\ fleet'[a].elapsed = fleet[a].elapsed
  BY DEF Count, IInv, TypeOK
<1>2. SlotHolders(a)' \subseteq SlotHolders(a)
  <2>1. r \in SlotHolders(at[r]) <=> pc[r] \in SlotPC
    BY OnAccount
  <2> QED BY <2>1, Turn DEF IInv, Rest
<1>3. UNCHANGED <<storm, removed, base>>
  BY DEF Rest, history
<1>4. Bound(a)' = Bound(a)
  BY <1>1, <1>3 DEF Bound, Over
<1> QED BY <1>1, <1>2, <1>3, <1>4, PacedStays DEF IInv

LEMMA AdmitPaces ==
  ASSUME IInv, IInv', NEW r \in Requests, Admit(r), NEW a \in Accounts, Paced(a)
  PROVE  Paced(a)'
<1> DEFINE b == at[r]
           still == fleet[b].ramping /\ ~(storm /\ Over(b))
           s == [fleet[b] EXCEPT !.flight = @ + 1, !.ramping = still]
<1>1. /\ pc[r] = "wait" /\ Room(b) /\ Goes(r, "slot") /\ Count(b, s)
      /\ UNCHANGED <<storm, removed, base, at>> /\ Rest
  BY DEF Admit, Rest, history
<1>2. b \in Accounts /\ fleet[b] \in AccountState /\ r \notin SlotHolders(b) /\ Right(b)
  BY <1>1, OnAccount DEF SlotPC
<1>3. still \in BOOLEAN /\ (still => fleet[b].ramping)
  OBVIOUS
<1>4. s.ramping = still /\ s.elapsed = fleet[b].elapsed
  BY <1>2 DEF AccountState
<1> HIDE DEF s
<1>5. CASE a # b
  <2>1. fleet'[a] = fleet[a]
    BY <1>1, <1>5 DEF Count, IInv, TypeOK
  <2>2. SlotHolders(a)' = SlotHolders(a)
    <3>1. r \notin SlotHolders(a)
      BY <1>5 DEF SlotHolders
    <3> QED BY <1>1, <1>5, <3>1, Turn DEF IInv, PC
  <2>3. Bound(a)' = Bound(a)
    BY <1>1, <2>1 DEF Bound, Over
  <2> QED BY <1>1, <2>1, <2>2, <2>3, PacedStays DEF IInv
<1>6. CASE a = b
  <2> SUFFICES ASSUME Bound(b)'
               PROVE  (Herd(b) <= Cap(fleet[b].elapsed))'
    BY <1>1, <1>6 DEF Paced
  <2>1. storm /\ b \notin removed
    BY <1>1 DEF Bound
  <2>2. fleet[b].there
    BY <1>2, <2>1 DEF IInv, Known
  <2>3. fleet'[b] = s
    BY <1>1, <1>2, <2>2 DEF Count, IInv, TypeOK
  <2>4. fleet[b].ramping /\ ~Over(b)
    <3>1. fleet'[b].ramping = still /\ fleet'[b].elapsed = fleet[b].elapsed
      BY <1>4, <2>3
    <3>2. Over(b)' <=> Over(b)
      BY <1>1, <3>1 DEF Over
    <3> QED BY <1>1, <1>3, <3>1, <3>2 DEF Bound
  <2>5. fleet[b].flight < Cap(fleet[b].elapsed)
    BY <1>1, <2>1, <2>2, <2>4 DEF Room
  <2>6. Herd(b) = fleet[b].flight
    BY <1>2, <2>1 DEF Right, Agrees, Herd
  <2>7. Herd(b)' = Herd(b) + 1
    <3>1. SlotHolders(b)' = SlotHolders(b) \cup {r}
      BY <1>1, <1>2, Turn DEF IInv, SlotPC, PC
    <3> QED BY <1>2, <3>1, HoldersFinite, Gains DEF Herd
  <2>8. Cap(fleet[b].elapsed)' = Cap(fleet[b].elapsed)
    <3>1. fleet'[b].elapsed = fleet[b].elapsed
      BY <1>4, <2>3
    <3> QED BY <1>1, <3>1 DEF Cap
  <2>9. Cap(fleet[b].elapsed) \in Nat /\ Herd(b) \in Nat
    BY <1>2, Ramp, CapGrows, HerdIsNat DEF AccountState
  <2> QED BY <2>5, <2>6, <2>7, <2>8, <2>9
<1> QED BY <1>5, <1>6

LEMMA RampPaces ==
  ASSUME TypeOK, NEW b \in Accounts, BeginRamp(b) \/ NoRamp, UNCHANGED <<storm, removed>>,
         NEW a \in Accounts, Paced(a), SlotHolders(a)' = SlotHolders(a)
  PROVE  Paced(a)'
<1>1. CASE NoRamp \/ a # b
  <2>1. fleet'[a] = fleet[a] /\ base'[a] = base[a]
    BY <1>1 DEF NoRamp, BeginRamp, TypeOK
  <2>2. Bound(a)' = Bound(a)
    BY <2>1 DEF Bound, Over
  <2> QED BY <2>1, <2>2, PacedStays
<1>2. CASE BeginRamp(b) /\ a = b
  <2>1. base'[a] = Herd(a)
    BY <1>2 DEF BeginRamp, TypeOK, Herd
  <2>2. Herd(a)' = Herd(a)
    BY DEF Herd
  <2> QED BY <2>1, <2>2, HerdIsNat DEF Paced
<1> QED BY <1>1, <1>2

LEMMA TickPaces ==
  ASSUME IInv, Tick, NEW a \in Accounts, Paced(a)
  PROVE  Paced(a)'
<1>1. /\ fleet'[a] = IF fleet[a].ramping /\ ~Over(a) THEN [fleet[a] EXCEPT !.elapsed = @ + 1]
                                                     ELSE fleet[a]
      /\ UNCHANGED <<storm, pc, at, removed, base>>
  BY DEF Tick, reqVars, history
<1>2. fleet[a] \in AccountState
  BY DEF IInv, TypeOK
<1>3. /\ fleet'[a].ramping = fleet[a].ramping
      /\ fleet'[a].elapsed \in {fleet[a].elapsed, fleet[a].elapsed + 1}
  BY <1>1, <1>2 DEF AccountState
<1>4. Bound(a)' => Bound(a)
  <2>1. fleet[a].elapsed \in Nat
    BY <1>2, Ramp DEF AccountState
  <2> QED BY <1>1, <1>3, <2>1, Ramp DEF Bound, Over
<1>5. SlotHolders(a)' = SlotHolders(a)
  BY <1>1 DEF SlotHolders
<1> QED BY <1>1, <1>3, <1>4, <1>5, PacedStays DEF IInv

LEMMA ReloadPaces ==
  ASSUME IInv, Reload, NEW a \in Accounts, Paced(a)
  PROVE  Paced(a)'
<1>1. PICK there \in SUBSET Accounts, on \in BOOLEAN :
        /\ fleet' = [b \in Accounts |->
                       IF b \notin there THEN [Fresh EXCEPT !.there = FALSE]
                       ELSE IF fleet[b].there THEN fleet[b] ELSE Fresh]
        /\ removed' = removed \cup (Accounts \ there)
        /\ storm' = on
        /\ base' = [b \in Accounts |-> IF on /\ ~storm THEN Cardinality(SlotHolders(b))
                                                       ELSE base[b]]
  BY DEF Reload
<1>2. SlotHolders(a)' = SlotHolders(a)
  BY DEF Reload, reqVars, SlotHolders
<1> SUFFICES ASSUME Bound(a)'
             PROVE  Paced(a)'
  BY DEF Paced
<1>3. on /\ a \in there /\ fleet[a].there /\ a \notin removed
  BY <1>1 DEF Bound, IInv, Known
<1>4. fleet'[a] = fleet[a]
  BY <1>1, <1>3
<1>5. CASE storm
  <2>1. base'[a] = base[a] /\ Bound(a)
    BY <1>1, <1>3, <1>4, <1>5 DEF Bound, Over
  <2> QED BY <1>2, <1>4, <2>1, PacedStays DEF IInv
<1>6. CASE ~storm
  <2>1. base'[a] = Herd(a) /\ Herd(a)' = Herd(a)
    BY <1>1, <1>2, <1>3, <1>6 DEF Herd
  <2> QED BY <2>1, HerdIsNat DEF Paced
<1> QED BY <1>5, <1>6
---------------------------------------------------------------------------
LEMMA InitIInv ==
  ASSUME Init
  PROVE  IInv
<1>1. Fresh \in AccountState /\ Fresh.there /\ Fresh.flight = 0 /\ Fresh.open = 0
  BY Ramp DEF Fresh, AccountState
<1>2. \A a \in Accounts : fleet[a] = Fresh
  BY DEF Init
<1>3. TypeOK
  <2>1. fleet \in [Accounts -> AccountState]
    BY <1>1 DEF Init
  <2> QED BY <2>1, Bounds DEF Init, TypeOK, PC
<1>4. Known
  BY <1>1, <1>2 DEF Init, Known
<1>5. \A a \in Accounts : SlotHolders(a) = {} /\ OpenHolders(a) = {}
  BY DEF Init, SlotHolders, OpenHolders
<1>6. \A a \in Accounts : Right(a)
  BY <1>1, <1>2, <1>5, FS_EmptySet DEF Right, Agrees
<1> QED BY <1>3, <1>4, <1>6, RightIs DEF IInv

LEMMA StepPreserves ==
  ASSUME IInv, [Next]_vars
  PROVE  IInv'
<1>1. ASSUME NEW r \in Requests, Select(r) PROVE IInv'
  BY <1>1, SelectKeeps
<1>2. ASSUME NEW r \in Requests, Admit(r) PROVE IInv'
  BY <1>2, AdmitKeeps
<1>3. ASSUME NEW r \in Requests, Refused(r) PROVE IInv'
  BY <1>3, ReleaseKeeps DEF Refused, SlotPC, OpenPC, PC
<1>4. ASSUME NEW r \in Requests, Open(r) PROVE IInv'
  BY <1>4, OpenKeeps
<1>5. ASSUME NEW r \in Requests, HangUp(r) PROVE IInv'
  <2>1. CASE pc[r] = "wait"
    BY <1>5, <2>1, LeaveKeeps DEF HangUp
  <2>2. CASE pc[r] = "wire"
    BY <1>5, <2>2, CloseKeeps DEF HangUp, SlotPC, OpenPC, PC
  <2> QED BY <1>5, <2>1, <2>2 DEF HangUp
<1>6. ASSUME NEW r \in Requests, Headers(r) PROVE IInv'
  BY <1>6, ReleaseKeeps DEF Headers, SlotPC, OpenPC, PC
<1>7. ASSUME NEW r \in Requests, Finish(r) PROVE IInv'
  BY <1>7, CloseKeeps DEF Finish, SlotPC, OpenPC, PC
<1>8. ASSUME NEW r \in Requests, Dropped(r) PROVE IInv'
  BY <1>8, ReleaseKeeps DEF Dropped, SlotPC, OpenPC, PC
<1>9. ASSUME NEW a \in Accounts, SwitchTo(a) PROVE IInv'
  BY <1>9, SwitchToKeeps
<1>10. CASE UNCHANGED vars
  <2>1. UNCHANGED <<fleet, storm, current, pc, at, removed, base, ramps, reloads>>
    BY <1>10 DEF vars, reqVars, history, bounds
  <2>2. TypeOK' /\ Known' /\ SlotsAccountedFor'
    BY <2>1 DEF IInv, TypeOK, Known, SlotsAccountedFor, SlotHolders, OpenHolders
  <2> QED BY <2>2 DEF IInv
<1> QED
  BY <1>1, <1>2, <1>3, <1>4, <1>5, <1>6, <1>7, <1>8, <1>9, <1>10, TickKeeps, ReloadKeeps
  DEF Next, Ends

LEMMA StepPaces ==
  ASSUME IInv, IInv', [Next]_vars, NEW a \in Accounts, Paced(a)
  PROVE  Paced(a)'
<1>1. ASSUME NEW r \in Requests, Select(r) PROVE Paced(a)'
  <2>1. PICK b \in Accounts : at' = [at EXCEPT ![r] = b] /\ (BeginRamp(b) \/ NoRamp)
    BY <1>1 DEF Select, RampIfCold, SetCurrent
  <2>2. SlotHolders(a)' = SlotHolders(a)
    BY <1>1, <2>1 DEF Select, IInv, TypeOK, Goes, SlotHolders
  <2> QED BY <1>1, <2>1, <2>2, RampPaces DEF Select, IInv
<1>2. ASSUME NEW r \in Requests, Admit(r) PROVE Paced(a)'
  BY <1>2, AdmitPaces
<1>3. ASSUME NEW r \in Requests, Refused(r) \/ Ends(r) \/ Open(r) \/ HangUp(r)
      PROVE  Paced(a)'
  <2> DEFINE f == fleet[at[r]]
             Same(s) == s.ramping = f.ramping /\ s.elapsed = f.elapsed
  <2>1. /\ Same([f EXCEPT !.flight = Less(@)]) /\ Same([f EXCEPT !.open = Less(@)])
        /\ Same([f EXCEPT !.open = @ + 1]) /\ Same(f)
    <3>1. pc[r] # "idle"
      BY <1>3 DEF Refused, Ends, Headers, Finish, Dropped, Open, HangUp
    <3>2. f \in AccountState
      BY <3>1, OnAccount
    <3> QED BY <3>2 DEF AccountState
  <2>2. CASE Refused(r) \/ Headers(r) \/ Dropped(r)
    BY <2>1, <2>2, HoldsLess DEF Refused, Headers, Dropped, Release, SlotPC, PC
  <2>3. CASE Open(r)
    BY <2>1, <2>3, HoldsLess DEF Open, SlotPC, PC
  <2>4. CASE Finish(r)
    BY <2>1, <2>4, HoldsLess DEF Finish, Close, SlotPC, PC
  <2>5. CASE HangUp(r) /\ pc[r] = "wire"
    BY <2>1, <2>5, HoldsLess DEF HangUp, Close, SlotPC, PC
  <2>6. CASE HangUp(r) /\ pc[r] = "wait"
    <3>1. Goes(r, "idle") /\ UNCHANGED fleet /\ Rest
      BY <2>6 DEF HangUp
    <3>2. SlotHolders(a)' = SlotHolders(a)
      BY <2>6, <3>1 DEF Rest, IInv, TypeOK, Goes, SlotHolders
    <3>3. UNCHANGED <<storm, removed, base>>
      BY <3>1 DEF Rest, history
    <3>4. Bound(a)' = Bound(a)
      BY <3>1, <3>3 DEF Bound, Over
    <3> QED BY <3>1, <3>2, <3>3, <3>4, PacedStays DEF IInv
  <2> QED BY <1>3, <2>2, <2>3, <2>4, <2>5, <2>6 DEF Ends, HangUp
<1>4. ASSUME NEW b \in Accounts, SwitchTo(b) PROVE Paced(a)'
  <2>1. SlotHolders(a)' = SlotHolders(a)
    BY <1>4 DEF SwitchTo, reqVars, SlotHolders
  <2> QED BY <1>4, <2>1, RampPaces DEF SwitchTo, IInv
<1>5. CASE UNCHANGED vars
  <2>1. UNCHANGED <<fleet, storm, pc, at, removed, base>>
    BY <1>5 DEF vars, reqVars, history
  <2>2. SlotHolders(a)' = SlotHolders(a) /\ Bound(a)' = Bound(a)
    BY <2>1 DEF SlotHolders, Bound, Over
  <2> QED BY <2>1, <2>2, PacedStays DEF IInv
<1> QED
  BY <1>1, <1>2, <1>3, <1>4, <1>5, TickPaces, ReloadPaces DEF Next

\* The counts of an account stay natural numbers and its ramp inside its window,
\* for every pool, ramp and number of requests and reloads.
THEOREM TypeCorrect == Spec => []TypeOK
<1>1. IInv => TypeOK
  BY DEF IInv
<1> QED BY <1>1, InitIInv, StepPreserves, PTL DEF Spec

\* Whatever requests end, fail or hang up and whatever accounts come and go,
\* an account counts at most the requests that are on it, and exactly those
\* unless it was ever dropped.
THEOREM CountsRight == Spec => []SlotsAccountedFor
<1>1. IInv => SlotsAccountedFor
  BY DEF IInv
<1> QED BY <1>1, InitIInv, StepPreserves, PTL DEF Spec

\* While its ramp runs, an account that was never dropped is sent no more
\* requests at a time than the cap of the moment, or than it had when the ramp
\* came into force, however requests and ramps interleave: nobody slips in
\* between a poll's look and its grant, and time only raises the cap.
THEOREM HerdPaced == Spec => []HerdIsPaced
<1> DEFINE HInv == IInv /\ \A a \in Accounts : Paced(a)
<1>1. Init => HInv
  <2>1. ASSUME Init, NEW a \in Accounts PROVE Paced(a)
    BY <2>1 DEF Init, Fresh, Paced, Bound
  <2> QED BY <2>1, InitIInv
<1>2. HInv /\ [Next]_vars => HInv'
  BY StepPreserves, StepPaces
<1>3. HInv => HerdIsPaced
  BY HerdIsPacedIs
<1> HIDE DEF HInv
<1> QED BY <1>1, <1>2, <1>3, PTL DEF Spec
=============================================================================
