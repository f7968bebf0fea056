----------------------------- MODULE Admission -----------------------------
(***************************************************************************)
(* The storm ramp and the counts of requests on the accounts of a pool:    *)
(* Manager::admit and open with their drop guards, Fleet::try_admit, the   *)
(* ramps that set_current, ramp_if_cold and switch_to begin, and the       *)
(* reloads that drop accounts and bring them back while guards of older    *)
(* requests are still held.                                                *)
(*                                                                         *)
(* A request is selected, waits for a slot, is looked at once more, is     *)
(* sent (open) and gives its slot back at the headers; it stays open until *)
(* the end of its body.  Time is in ticks of the ramp.                     *)
(***************************************************************************)
EXTENDS Naturals, FiniteSets

CONSTANTS Requests, Accounts,
          NoOne,                         \* no current account
          StartConc, StepConc,           \* stormRamp of the pool
          StepTicks, WindowTicks,
          MaxRamps,                      \* bound: ramps begun
          MaxReloads                     \* bound: reloads of the configuration

ASSUME SomeRequests == IsFiniteSet(Requests)
ASSUME Ramp == StartConc \in Nat /\ StepConc \in Nat /\ StepTicks \in Nat /\ WindowTicks \in Nat
ASSUME NobodyIsNoOne == NoOne \notin Accounts
ASSUME Bounds == MaxRamps \in Nat /\ MaxReloads \in Nat

VARIABLES fleet,    \* the accounts
          storm,    \* stormRamp.enabled
          current,  \* the cursor
          pc, at,   \* of each request: how far it is, and on which account
          removed,  \* history: accounts a reload ever dropped
          base,     \* history: slots held on an account when its ramp came into force
          ramps, reloads

reqVars == <<pc, at>>
history == <<removed, base>>
bounds  == <<ramps, reloads>>
vars == <<fleet, storm, current, reqVars, history, bounds>>

\* flight: in_flight.  ramping, elapsed: ramp_started_at.
AccountState == [there : BOOLEAN, flight : Nat, open : Nat, ramping : BOOLEAN,
                 elapsed : 0 .. WindowTicks]

\* "slot": granted, not sent.  "wire": sent.  "body": headers are in.
\* "closing": dropped on the wire, its open guard gone and its slot not yet.
PC == {"idle", "wait", "slot", "wire", "body", "closing"}

TypeOK == /\ fleet \in [Accounts -> AccountState]
          /\ storm \in BOOLEAN
          /\ current \in Accounts \cup {NoOne}
          /\ pc \in [Requests -> PC]
          /\ at \in [Requests -> Accounts \cup {NoOne}]
          /\ removed \subseteq Accounts
          /\ base \in [Accounts -> Nat]
          /\ ramps \in 0 .. MaxRamps /\ reloads \in 0 .. MaxReloads

\* Account::from_config.
Fresh == [there |-> TRUE, flight |-> 0, open |-> 0, ramping |-> FALSE, elapsed |-> 0]

Init == /\ fleet = [a \in Accounts |-> Fresh]
        /\ storm = TRUE /\ current = NoOne
        /\ pc = [r \in Requests |-> "idle"] /\ at = [r \in Requests |-> NoOne]
        /\ removed = {} /\ base = [a \in Accounts |-> 0]
        /\ ramps = 0 /\ reloads = 0

Goes(r, there)  == pc' = [pc EXCEPT ![r] = there]
SlotHolders(a)  == {r \in Requests : at[r] = a /\ pc[r] \in {"slot", "wire", "closing"}}
OpenHolders(a)  == {r \in Requests : at[r] = a /\ pc[r] \in {"wire", "body"}}

\* An account that is not configured (any more) counts nothing.
Count(a, state) == fleet' = IF fleet[a].there THEN [fleet EXCEPT ![a] = state] ELSE fleet

\* Mutant: the subtraction does not saturate.
Minus1(n) == n - 1

Less(n) == IF n > 0 THEN n - 1 ELSE 0     \* saturating_sub

---------------------------------------------------------------------------
\* Ramps.

BeginRamp(a) ==
  /\ ramps < MaxRamps /\ ramps' = ramps + 1
  /\ fleet' = [fleet EXCEPT ![a] = [@ EXCEPT !.ramping = TRUE, !.elapsed = 0]]
  /\ base' = [base EXCEPT ![a] = Cardinality(SlotHolders(a))]

NoRamp == UNCHANGED <<fleet, base, ramps>>

\* Fleet::set_current: a diverted request (scoped) leaves the cursor alone.
SetCurrent(a, scoped) ==
  /\ current' = IF scoped THEN current ELSE a
  /\ IF current # a THEN BeginRamp(a) ELSE NoRamp

\* Fleet::ramp_if_cold; whether a session was active on it lately is open.
RampIfCold(a) ==
  /\ \/ ~fleet[a].ramping /\ fleet[a].flight = 0 /\ BeginRamp(a)
     \/ NoRamp
  /\ UNCHANGED current

\* Manager::switch_to, from the control plane.
SwitchTo(a) ==
  /\ fleet[a].there
  /\ current' = a /\ BeginRamp(a)
  /\ UNCHANGED <<storm, reqVars, removed, reloads>>

---------------------------------------------------------------------------
\* Requests.

\* Fleet::select: a pin or an affinity, a new session that is spread, the
\* cursor, or a request the current account is barred for.
Select(r) ==
  /\ pc[r] = "idle" /\ Goes(r, "wait")
  /\ \E a \in Accounts :
       /\ fleet[a].there
       /\ at' = [at EXCEPT ![r] = a]
       /\ \/ NoRamp /\ UNCHANGED current
          \/ RampIfCold(a)
          \/ SetCurrent(a, FALSE)
          \/ current # NoOne /\ SetCurrent(a, TRUE)
  /\ UNCHANGED <<storm, removed, reloads>>

AtLeast1(n) == IF n > 0 THEN n ELSE 1
Cap(elapsed) == AtLeast1(StartConc) + (elapsed \div AtLeast1(StepTicks)) * StepConc

Over(a) == fleet[a].elapsed >= WindowTicks

\* Mutant: one more than the cap.
RoomOneMore(a) == \/ ~fleet[a].there \/ ~storm \/ ~fleet[a].ramping \/ Over(a)
                  \/ fleet[a].flight <= Cap(fleet[a].elapsed)

\* Fleet::try_admit would let one more in.
Room(a) == \/ ~fleet[a].there \/ ~storm \/ ~fleet[a].ramping \/ Over(a)
           \/ fleet[a].flight < Cap(fleet[a].elapsed)

\* Mutant: the window of a ramp never ends.
AdmitUnderCap(r) ==
  LET a == at[r] IN
  /\ pc[r] = "wait" /\ Goes(r, "slot")
  /\ fleet[a].there /\ storm /\ fleet[a].ramping => fleet[a].flight < Cap(fleet[a].elapsed)
  /\ Count(a, [fleet[a] EXCEPT !.flight = @ + 1])
  /\ UNCHANGED <<storm, current, at, history, bounds>>

\* Manager::admit, the poll that succeeds; the ramp that is over is cleared.
Admit(r) ==
  LET a == at[r] IN
  /\ pc[r] = "wait" /\ Room(a) /\ Goes(r, "slot")
  /\ Count(a, [fleet[a] EXCEPT !.flight = @ + 1,
                               !.ramping = @ /\ ~(storm /\ Over(a))])
  /\ UNCHANGED <<storm, current, at, history, bounds>>

\* A guard is dropped.
Release(r) == Count(at[r], [fleet[at[r]] EXCEPT !.flight = Less(@)])
Close(r)   == Count(at[r], [fleet[at[r]] EXCEPT !.open = Less(@)])

Rest == UNCHANGED <<storm, current, at, history, bounds>>

\* The look before the send refuses, or the client hangs up: the slot goes.
Refused(r) == pc[r] = "slot" /\ Goes(r, "idle") /\ Release(r) /\ Rest

Open(r) ==
  /\ pc[r] = "slot" /\ Goes(r, "wire")
  /\ Count(at[r], [fleet[at[r]] EXCEPT !.open = @ + 1])
  /\ Rest

\* An answer, an error or the headers timeout.
Headers(r) == pc[r] = "wire" /\ Goes(r, "body") /\ Release(r) /\ Rest

\* The end of the body, or of the attempt that failed.
Finish(r) == pc[r] = "body" /\ Goes(r, "idle") /\ Close(r) /\ Rest

\* The client hangs up while the request waits or is on the wire; the guards
\* are dropped one after the other.
HangUp(r) ==
  \/ pc[r] = "wait" /\ Goes(r, "idle") /\ UNCHANGED fleet /\ Rest
  \/ pc[r] = "wire" /\ Goes(r, "closing") /\ Close(r) /\ Rest

\* Mutant: the slot is not a guard, so a request dropped on the wire keeps it.
DroppedKeepsSlot(r) == pc[r] = "closing" /\ Goes(r, "idle") /\ UNCHANGED fleet /\ Rest

Dropped(r) == pc[r] = "closing" /\ Goes(r, "idle") /\ Release(r) /\ Rest

---------------------------------------------------------------------------
\* The configuration and time.

\* Manager::sync_config: accounts that are gone are dropped with their
\* counts, new ones start from zero, and the ramp is switched on or off.
Reload ==
  /\ reloads < MaxReloads /\ reloads' = reloads + 1
  /\ \E there \in SUBSET Accounts, on \in BOOLEAN :
       /\ fleet' = [a \in Accounts |->
                      IF a \notin there THEN [Fresh EXCEPT !.there = FALSE]
                      ELSE IF fleet[a].there THEN fleet[a] ELSE Fresh]
       /\ current' = IF current \in there THEN current ELSE NoOne
       /\ removed' = removed \cup (Accounts \ there)
       /\ storm' = on
       /\ base' = [a \in Accounts |-> IF on /\ ~storm THEN Cardinality(SlotHolders(a))
                                                      ELSE base[a]]
  /\ UNCHANGED <<reqVars, ramps>>

Tick ==
  /\ \E a \in Accounts : fleet[a].ramping /\ ~Over(a)
  /\ fleet' = [a \in Accounts |->
                 IF fleet[a].ramping /\ ~Over(a) THEN [fleet[a] EXCEPT !.elapsed = @ + 1]
                                                 ELSE fleet[a]]
  /\ UNCHANGED <<storm, current, reqVars, history, bounds>>

---------------------------------------------------------------------------
Ends(r) == Headers(r) \/ Finish(r) \/ Dropped(r)

Next ==
  \/ \E r \in Requests : \/ Select(r) \/ Admit(r) \/ Refused(r) \/ Open(r)
                         \/ HangUp(r) \/ Ends(r)
  \/ \E a \in Accounts : SwitchTo(a)
  \/ Reload \/ Tick

Spec == Init /\ [][Next]_vars

\* A waiter polls every 50 ms; sends end by their timers; time passes.
FairSpec ==
  /\ Spec /\ WF_vars(Tick)
  /\ \A r \in Requests : WF_vars(Admit(r)) /\ WF_vars(Open(r) \/ Refused(r)) /\ WF_vars(Ends(r))

---------------------------------------------------------------------------
\* A request whose client went away, or that outlived its account, leaves no
\* count behind (manager.rs:773-775): an account counts at most the requests
\* that hold a slot or are open on it, and exactly those unless a reload once
\* dropped it.
SlotsAccountedFor ==
  \A a \in Accounts :
    /\ fleet[a].flight <= Cardinality(SlotHolders(a))
    /\ fleet[a].open <= Cardinality(OpenHolders(a))
    /\ a \notin removed => /\ fleet[a].flight = Cardinality(SlotHolders(a))
                           /\ fleet[a].open = Cardinality(OpenHolders(a))

\* While its ramp runs, the requests being sent to an account number no more
\* than the cap of the moment, or those already being sent when the ramp came
\* into force (docs/configuration.md:132, manager.rs:2059-2083).
HerdIsPaced ==
  \A a \in Accounts :
    storm /\ fleet[a].ramping /\ ~Over(a) /\ a \notin removed =>
      \/ Cardinality(SlotHolders(a)) <= Cap(fleet[a].elapsed)
      \/ Cardinality(SlotHolders(a)) <= base[a]

\* The ramp fails open (manager.rs:771): a waiter is let in or gone, whatever
\* the others do, once ramps stop being begun.
EveryWaiterAdmitted == \A r \in Requests : pc[r] = "wait" ~> pc[r] # "wait"

\* A running ramp is left alone (manager.rs:2613) unless the cursor moves to
\* the account or the operator switches to it.
RunningRampLeftAlone ==
  [][\A a \in Accounts :
       fleet[a].ramping /\ fleet'[a].ramping /\ fleet'[a].elapsed < fleet[a].elapsed
         => current' = a]_vars
=============================================================================
