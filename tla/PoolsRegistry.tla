--------------------------- MODULE PoolsRegistry ---------------------------
(***************************************************************************)
(* The live pools of the server (src/src/pools.rs): one manager per pool,  *)
(* what a load of the configuration does to them, and what of them the     *)
(* state file keeps.  Pure operators; each is one critical section of the  *)
(* registry's lock in the code.                                            *)
(*                                                                         *)
(* A manager is [pool, accts]: the pool name its fleet holds, which only   *)
(* sync_config sets, and the set of its accounts [id, apikey, tok, seen]   *)
(* ("seen": the server holds an observation of the account's quota).       *)
(***************************************************************************)
EXTENDS Naturals, Sequences, FiniteSets, TLC, ConfigDoc

\* Account::apply_credentials: what an account of that kind takes from its entry.
Credential(apikey, e) == IF apikey THEN e.key ELSE e.tok

\* Account::from_config; an account without a usable credential is skipped.
FromConfig(e) == [id |-> e.id, apikey |-> e.apikey, tok |-> Credential(e.apikey, e), seen |-> FALSE]
Usable(e)     == Credential(e.apikey, e) # 0

\* Manager::sync_config: an account is known by its id.  It stays of the kind
\* it was created with, and it keeps its own credential when that expires later
\* than the one on disk; an API key does not expire.  (The mutant keeps it
\* always.)
SyncAccountHeld(held, e) == IF held = {} THEN FromConfig(e) ELSE CHOOSE x \in held : TRUE

SyncAccount(held, e) ==
    IF held = {} THEN FromConfig(e)
    ELSE LET a == CHOOSE x \in held : TRUE
             disk == Credential(a.apikey, e)
         IN  [a EXCEPT !.tok = IF disk # 0 /\ (a.apikey \/ disk >= @) THEN disk ELSE @]

SyncManager(m, doc, pool) ==
    LET of(e)  == {a \in m.accts : a.id = e.id}
        served == {e \in Range(doc.pools[pool].accts) : of(e) # {} \/ Usable(e)}
    IN  [m EXCEPT !.pool = pool, !.accts = {SyncAccount(of(e), e) : e \in served}]

\* Manager::with_events.
NewManager(doc, pool) == SyncManager([pool |-> pool, accts |-> {}], doc, pool)

\* Pools::sync_config: managers for new pools, none for removed ones, and the
\* survivors synchronised.
Sync(reg, doc) ==
    [default |-> doc.default,
     map     |-> [p \in DOMAIN doc.pools |-> IF p \in DOMAIN reg.map THEN SyncManager(reg.map[p], doc, p)
                                             ELSE NewManager(doc, p)]]

\* Pools::new starts from no manager.
NoManagers == [default |-> NoPool, map |-> <<>>]

\* Mutant: the registry is left to the reload.
RekeyNever(reg, old, new) == reg

\* Pools::rename_pool: nothing when the new name is taken or the old one gone.
Rekey(reg, old, new) ==
    IF old = new \/ new \in DOMAIN reg.map \/ old \notin DOMAIN reg.map THEN reg
    ELSE [default |-> IF reg.default = old THEN new ELSE reg.default,
          map     |-> [p \in (DOMAIN reg.map \ {old}) \cup {new} |-> IF p = new THEN reg.map[old] ELSE reg.map[p]]]

----------------------------------------------------------------------------
\* State::set_pool and State::pool: the default pool's section has no name.
Section(reg, pool) == IF pool = reg.default THEN NoPool ELSE pool

\* Pools::export_state, as far as it is read back: the observed accounts.
Export(reg) == [s \in {Section(reg, p) : p \in DOMAIN reg.map} |->
                   LET p == CHOOSE q \in DOMAIN reg.map : Section(reg, q) = s
                   IN  {a.id : a \in {x \in reg.map[p].accts : x.seen}}]

\* Pools::restore_state and Manager::restore_pool_state: section by section,
\* and within one by account id.
Restore(reg, state) ==
    LET kept(p) == IF Section(reg, p) \in DOMAIN state THEN state[Section(reg, p)] ELSE {}
        back(p) == {[a EXCEPT !.seen = @ \/ a.id \in kept(p)] : a \in reg.map[p].accts}
    IN  [reg EXCEPT !.map = [p \in DOMAIN reg.map |-> [reg.map[p] EXCEPT !.accts = back(p)]]]

\* The accounts the server has observed.
Observed(reg) == UNION {{a.id : a \in {x \in reg.map[p].accts : x.seen}} : p \in DOMAIN reg.map}

\* Every account id the registry serves, with its pool.
Served(reg) == UNION {{<<p, a.id>> : a \in reg.map[p].accts} : p \in DOMAIN reg.map}
=============================================================================
