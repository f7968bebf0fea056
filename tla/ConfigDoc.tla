------------------------------ MODULE ConfigDoc ------------------------------
(***************************************************************************)
(* The configuration document and what a load and every command does to    *)
(* it: pure operators, one per operation of src/src/config.rs and of the   *)
(* commands of src/src/cli.rs.  An operation yields the new document, or   *)
(* Refused when the code returns an error and leaves the file alone.       *)
(*                                                                         *)
(* Pool names are numbers, so that their order is the order of the names.  *)
(* An account name is a sequence: <<mail>>, <<mail, name of organisation>> *)
(* (what the code writes "mail (organisation)") or a name given by hand.   *)
(* The mail stands for the user too; an organisation has a uuid, "org",    *)
(* and a name, "team", which another organisation may have as well.        *)
(* A credential is the moment it was issued at, which orders expiries.     *)
(***************************************************************************)
EXTENDS Naturals, Sequences, FiniteSets, SequencesExt, FiniteSetsExt

NoPool  == 0
NoId    == 0
Unknown == ""
Refused == [bad |-> "refused"]

\* A document somebody can load: everything else a file may hold is a record
\* with a field "bad".
IsDoc(x) == "bad" \notin DOMAIN x

EmptyPool == [accts |-> <<>>, dirs |-> {}, knob |-> 0]

\* The pools with one more, which is empty, unless it is there.
Opened(pools, p) == [q \in DOMAIN pools \cup {p} |-> IF q \in DOMAIN pools THEN pools[q] ELSE EmptyPool]

NewAccount(name) == [name |-> name, user |-> Unknown, org |-> Unknown, apikey |-> FALSE, codex |-> FALSE,
                     link |-> FALSE, id |-> NoId, tok |-> 0, key |-> 0, off |-> FALSE]

----------------------------------------------------------------------------
\* Config::pool_names: the default pool first, then the others in order.
PoolRank(doc, p) == IF p = doc.default THEN 0 ELSE p
FirstPool(doc, pools) == CHOOSE p \in pools : \A q \in pools : PoolRank(doc, p) <= PoolRank(doc, q)

Places(doc) == UNION {{<<p, i>> : i \in DOMAIN doc.pools[p].accts} : p \in DOMAIN doc.pools}

At(doc, place) == doc.pools[place[1]].accts[place[2]]

\* Config::all_accounts, as a set.
AllAccounts(doc) == {At(doc, place) : place \in Places(doc)}

NoPlace == <<NoPool, 0>>

\* The order in which accounts are looked at: pool by pool.
NotAfter(doc, x, y) == \/ PoolRank(doc, x[1]) < PoolRank(doc, y[1])
                       \/ x[1] = y[1] /\ x[2] <= y[2]
FirstPlace(doc, places) ==
    IF places = {} THEN NoPlace ELSE CHOOSE x \in places : \A y \in places : NotAfter(doc, x, y)

\* locate_by: the first account that passes the test.
LocateBy(doc, Test(_)) == FirstPlace(doc, {place \in Places(doc) : Test(At(doc, place))})

\* The first of two searches, when it finds something, else the second.
OrElse(place, other) == IF place # NoPlace THEN place ELSE other

SetAt(doc, place, entry) == [doc EXCEPT !.pools[place[1]].accts[place[2]] = entry]

----------------------------------------------------------------------------
\* A document as the parser makes it: pools with names, and in each a list of
\* entries whose ids, where they have one, have been issued.
IsDocument(doc, issued) ==
    /\ DOMAIN doc = {"default", "pools", "old", "log"}
    /\ doc.pools \in [DOMAIN doc.pools -> Range(doc.pools)] /\ IsFiniteSet(DOMAIN doc.pools)
    /\ {doc.default} \cup DOMAIN doc.pools \subseteq Nat \ {NoPool}
    /\ \A p \in DOMAIN doc.pools : /\ DOMAIN doc.pools[p] = DOMAIN EmptyPool
                                   /\ doc.pools[p].accts \in Seq(Range(doc.pools[p].accts))
    /\ \A place \in Places(doc) : /\ DOMAIN At(doc, place) = DOMAIN NewAccount(<<>>)
                                  /\ At(doc, place).id \in 0 .. issued

\* Every entry that has an id has one of its own; every entry has one.
IdsApart(doc) == \A x, y \in Places(doc) : x # y /\ At(doc, x).id = At(doc, y).id => At(doc, x).id = NoId
Numbered(doc) == \A x \in Places(doc) : At(doc, x).id # NoId

\* Every login whose profile is known has one entry, and an API key has none.
Known(e) == ~e.codex /\ e.user # Unknown /\ e.org # Unknown
SameLogin(e, f)  == Known(e) /\ Known(f) /\ e.user = f.user /\ e.org = f.org
LoginsApart(doc) == \A x, y \in Places(doc) : SameLogin(At(doc, x), At(doc, y)) => x = y
KeysBare(doc)    == \A x \in Places(doc) : At(doc, x).apikey /\ ~At(doc, x).codex => At(doc, x).user = Unknown

----------------------------------------------------------------------------
(* What a load fills in. *)

\* Config::ensure_pools: there is a pool, and the default names one of them.
EnsurePools(doc) ==
    IF doc.pools = <<>> THEN [doc EXCEPT !.pools = Opened(@, doc.default)]
    ELSE IF doc.default \notin DOMAIN doc.pools THEN [doc EXCEPT !.default = Min(DOMAIN doc.pools)]
    ELSE doc

\* The accounts without an id of their own, which is unique in the whole file.
Idless(doc) ==
    {place \in Places(doc) :
        \/ At(doc, place).id = NoId
        \/ \E other \in Places(doc) :
              /\ At(doc, other).id = At(doc, place).id
              /\ \/ other[1] < place[1]
                 \/ other[1] = place[1] /\ other[2] < place[2]}

\* Mutant: only the places are looked for, nothing is issued.
NoIds(doc, fresh) == doc

\* Config::ensure_account_ids: a fresh id for each of them.
EnsureIds(doc, fresh) ==
    LET nth(place) == Cardinality({o \in Idless(doc) : o[1] < place[1] \/ (o[1] = place[1] /\ o[2] < place[2])})
        fill(p) == [i \in DOMAIN doc.pools[p].accts |->
                       IF <<p, i>> \in Idless(doc)
                       THEN [doc.pools[p].accts[i] EXCEPT !.id = fresh + nth(<<p, i>>)]
                       ELSE doc.pools[p].accts[i]]
    IN  [doc EXCEPT !.pools = [p \in DOMAIN doc.pools |-> [doc.pools[p] EXCEPT !.accts = fill(p)]]]

\* migrate_pools and needs_api_key: a file of an older shape, or one without
\* a key, is brought up to date in memory.
Migrate(doc) == [doc EXCEPT !.old = FALSE]

\* What Config::load_from returns for a file it can parse, and whether the
\* file has to be written back.
Filled(doc, fresh) == EnsureIds(EnsurePools(Migrate(doc)), fresh)
MustRewrite(doc)   == doc.old \/ Idless(EnsurePools(Migrate(doc))) # {}

\* Config::validate, as far as the commands can break it.
Valid(doc) == /\ doc.default \in DOMAIN doc.pools
              /\ \A a \in AllAccounts(doc) : a.name # <<>>

\* Config::default, written by the first command or server that finds no file.
DefaultDoc == [default |-> 1, pools |-> [p \in {1} |-> EmptyPool], old |-> FALSE, log |-> {}]

----------------------------------------------------------------------------
(* Addressing a pool or an account. *)

\* pool_name: no name is the default pool, an unknown one an error.
Named(doc, p) == p = NoPool \/ p \in DOMAIN doc.pools
PoolName(doc, p) == IF p = NoPool THEN doc.default ELSE p

\* Config::ensure_pool and target_pool: `--pool` may create the pool.
EnsurePool(doc, p) == [doc EXCEPT !.pools = Opened(@, p)]
Target(doc, p) == IF p = NoPool THEN doc ELSE EnsurePool(doc, p)

\* Config::match_account_in: a full name or an id, <<"#", id>>, wins outright, then
\* the handle is matched loosely; the accounts of pool p that it fits.
MatchIn(doc, p, needle) ==
    LET accts == doc.pools[p].accts
        exact == {i \in DOMAIN accts : needle \in {accts[i].name, <<"#", accts[i].id>>}}
        pair  == {i \in DOMAIN accts : <<"/", accts[i].user, accts[i].org>> = needle}
        loose == {i \in DOMAIN accts : \/ <<accts[i].user>> = needle
                                       \/ <<accts[i].org>> = needle
                                       \/ <<Head(accts[i].name)>> = needle}
    IN  IF exact # {} THEN {Min(exact)} ELSE IF pair # {} THEN {Min(pair)} ELSE loose

TheOne(pool, fits) == IF Cardinality(fits) = 1 THEN <<pool, Min(fits)>> ELSE NoPlace

\* locate: in the pool asked for, or in the first pool where the handle fits
\* anything; a handle that fits several accounts there is an error.
Locate(doc, p, needle) ==
    LET fits(q) == MatchIn(doc, q, needle)
        pools   == {q \in IF p = NoPool THEN DOMAIN doc.pools ELSE {p} \cap DOMAIN doc.pools : fits(q) # {}}
    IN  IF pools = {} THEN NoPlace ELSE TheOne(FirstPool(doc, pools), MatchIn(doc, FirstPool(doc, pools), needle))

----------------------------------------------------------------------------
(* Logins and imports. *)

\* Mutant: the entry stays in the pool it was in as well.
EntryAtCopy(doc, pool, place, new) ==
    IF place # NoPlace /\ place[1] = pool THEN [doc |-> doc, place |-> place]
    ELSE [doc   |-> [EnsurePool(doc, pool) EXCEPT !.pools[pool].accts =
                        Append(@, IF place = NoPlace THEN new ELSE At(doc, place))],
          place |-> <<pool, Len(EnsurePool(doc, pool).pools[pool].accts) + 1>>]

\* entry_at: the account moves into the pool, or is created there.  Yields the
\* document and the place of the account in it.
EntryAt(doc, pool, place, new) ==
    LET with  == EnsurePool(doc, pool)
        moved == IF place = NoPlace THEN new ELSE At(doc, place)
        left  == IF place = NoPlace THEN with
                 ELSE [with EXCEPT !.pools[place[1]].accts = RemoveAt(@, place[2])]
    IN  IF place # NoPlace /\ place[1] = pool THEN [doc |-> doc, place |-> place]
        ELSE [doc   |-> [left EXCEPT !.pools[pool].accts = Append(@, moved)],
              place |-> <<pool, Len(with.pools[pool].accts) + 1>>]

\* A field the profile leaves out keeps what the entry had.
Or(new, old) == IF new = Unknown THEN old ELSE new

\* An account of the profile's user, in its organisation when it names one.
OfProfile(a, prof) == /\ prof.user # Unknown /\ ~a.codex
                      /\ a.user = prof.user
                      /\ prof.org = Unknown \/ a.org = prof.org

\* The document with the entry a login found or created made new.
Amend(at, New(_)) == SetAt(at.doc, at.place, New(At(at.doc, at.place)))

\* upsert_oauth_at: by the profile, else by the name; whatever entry is found
\* takes the name and the tokens.  apply_import links it afterwards: a linked
\* entry holds no token, and its tok is the one in the file it is linked to.
Upsert(doc, pool, name, tok, prof, link) ==
    Amend(EntryAt(doc, pool,
                  OrElse(LocateBy(doc, LAMBDA a : OfProfile(a, prof)), LocateBy(doc, LAMBDA a : a.name = name)),
                  NewAccount(name)),
          LAMBDA a : [a EXCEPT !.name = name, !.apikey = FALSE, !.link = link, !.tok = tok,
                               !.user = Or(prof.user, @), !.org = Or(prof.org, @)])

\* `corrall login --api`: by name alone.
AddApiKey(doc, pool, name, tok) ==
    Amend(EntryAt(doc, pool, LocateBy(doc, LAMBDA a : a.name = name), [NewAccount(name) EXCEPT !.apikey = TRUE]),
          LAMBDA a : [a EXCEPT !.apikey = TRUE, !.key = tok])

\* `corrall login --codex` and `import --codex`: among the Codex accounts, by
\* account id (kept as the user) or name.
AddCodex(doc, pool, name, tok, prof, link) ==
    Amend(EntryAt(doc, pool,
                  LocateBy(doc, LAMBDA a : a.codex /\ ((prof.user # Unknown /\ a.user = prof.user) \/ a.name = name)),
                  [NewAccount(name) EXCEPT !.codex = TRUE]),
          LAMBDA a : [a EXCEPT !.name = name, !.link = link, !.user = Or(prof.user, @), !.tok = tok])

\* Mutant: the mail, whatever the organisation.
DisplayNameMail(doc, prof) == <<prof.user>>

\* display_name: the mail, with the organisation's name when another account of
\* the file has the mail under another uuid.
DisplayName(doc, prof) ==
    IF /\ prof.team # Unknown
       /\ \E a \in AllAccounts(doc) : a.user = prof.user /\ a.org \notin {Unknown, prof.org}
    THEN <<prof.user, prof.team>> ELSE <<prof.user>>

\* is_anthropic_oauth.
AnthropicOauth(a) == ~a.apikey /\ ~a.codex

\* upsert_acrobat: an API key or a Codex account of the same name is left alone.
UpsertAcrobat(doc, src) ==
    Amend(EntryAt(EnsurePool(doc, src.pool), src.pool,
                  OrElse(LocateBy(doc, LAMBDA a : AnthropicOauth(a) /\ OfProfile(a, src)),
                         LocateBy(doc, LAMBDA a : AnthropicOauth(a) /\ a.name = src.name)),
                  NewAccount(src.name)),
          LAMBDA a : [a EXCEPT !.name = src.name, !.off = src.off, !.link = src.link, !.tok = src.tok,
                               !.user = Or(src.user, @), !.org = Or(src.org, @)])

\* The rows `import-claudeacrobat` plans from the file it loaded first, and what
\* it makes of them later.
Skipped == [pool |-> NoPool]
AcrobatRows(doc, rows) ==
    [i \in DOMAIN rows |-> LET place == LocateBy(doc, LAMBDA a : a.name = rows[i].name)
                           IN  IF place = NoPlace \/ AnthropicOauth(At(doc, place)) THEN rows[i] ELSE Skipped]
UpsertRow(doc, row) == IF row = Skipped THEN doc ELSE UpsertAcrobat(doc, row)

\* The write of the import: all rows, ids, and nothing unless the result loads.
Checked(doc) == IF Valid(doc) THEN doc ELSE Refused
Imported(doc, rows) ==
    LET after[i \in 0..Len(rows)] == IF i = 0 THEN doc ELSE UpsertRow(after[i - 1], rows[i])
    IN  after
Acrobat(doc, rows, fresh) == Checked(EnsureIds(Imported(doc, rows)[Len(rows)], fresh))

----------------------------------------------------------------------------
(* Edits of accounts and pools. *)

\* An edit of the account a handle names.
AtHandle(doc, place, Edited(_)) == IF place = NoPlace THEN Refused ELSE Edited(place)

\* `corrall remove`.
RemoveAccount(doc, pool, needle) ==
    AtHandle(doc, Locate(doc, pool, needle),
             LAMBDA place : [doc EXCEPT !.pools[place[1]].accts = RemoveAt(@, place[2])])

\* `corrall disable` and `enable`, and the account routes of the control plane.
SetDisabled(doc, pool, needle, off) ==
    AtHandle(doc, Locate(doc, pool, needle),
             LAMBDA place : [doc EXCEPT !.pools[place[1]].accts[place[2]].off = off])

\* `corrall threshold`, `distribute`, `probe`, `expiry`, ...: one setting of a
\* pool, which must exist.
SetKnob(doc, pool, knob) ==
    IF Named(doc, pool) THEN [doc EXCEPT !.pools[PoolName(doc, pool)].knob = knob] ELSE Refused

\* apply_pool_set: accounts move in first, then the settings, then the pointer.
MoveIn(doc, pool, needle) ==
    IF doc = Refused THEN Refused
    ELSE AtHandle(doc, Locate(doc, NoPool, needle),
                  LAMBDA place : IF place[1] = pool THEN doc
                                 ELSE [doc EXCEPT !.pools[place[1]].accts = RemoveAt(@, place[2]),
                                                  !.pools[pool].accts = Append(@, At(doc, place))])

Configured(doc, pool, set) ==
    IF doc = Refused THEN Refused
    ELSE [doc EXCEPT !.pools[pool].knob = set.knob, !.pools[pool].dirs = set.dirs,
                     !.default = IF set.makeDefault THEN pool ELSE @]

MovedIn(doc, pool, needles) ==
    LET after[i \in 0..Len(needles)] == IF i = 0 THEN doc ELSE MoveIn(after[i - 1], pool, needles[i])
    IN  after

ApplyPoolSet(doc, pool, set) == Configured(MovedIn(doc, pool, set.accts)[Len(set.accts)], pool, set)

\* `corrall pool add`, `pool set`, `pool rm`.
PoolAdd(doc, pool, set) == ApplyPoolSet(EnsurePool(doc, pool), pool, set)
PoolSet(doc, pool, set) == IF pool \in DOMAIN doc.pools THEN ApplyPoolSet(doc, pool, set) ELSE Refused
PoolRm(doc, pool, force) ==
    IF pool \notin DOMAIN doc.pools \/ pool = doc.default \/ (doc.pools[pool].accts # <<>> /\ ~force) THEN Refused
    ELSE [doc EXCEPT !.pools = [p \in DOMAIN @ \ {pool} |-> @[p]]]

\* Config::rename_pool: the default pointer follows.
RenamePool(doc, old, new) ==
    IF old = new THEN doc
    ELSE IF new \in DOMAIN doc.pools \/ old \notin DOMAIN doc.pools THEN Refused
    ELSE [doc EXCEPT !.pools = [p \in (DOMAIN @ \ {old}) \cup {new} |-> IF p = new THEN @[old] ELSE @[p]],
                     !.default = IF @ = old THEN new ELSE @]

\* pool_edit of the control plane: a setting of a pool that may be gone by
\* now, then the rename.
PoolEdit(doc, pool, knob, new) ==
    LET set == IF pool \in DOMAIN doc.pools THEN [doc EXCEPT !.pools[pool].knob = knob] ELSE doc
    IN  IF new = NoPool THEN set ELSE RenamePool(set, pool, new)

\* pool_create of the control plane: ensure_pool, so a pool that has come to
\* exist meanwhile is edited.
PoolCreate(doc, pool, knob) == [EnsurePool(doc, pool) EXCEPT !.pools[pool].knob = knob]

\* The write of a refreshed pair: into the entry with the id, in the pool the
\* fleet served when the refresh ended; no entry, no write.
PutToken(doc, pool, id, tok) ==
    LET mine == {i \in 1..Len(doc.pools[pool].accts) : doc.pools[pool].accts[i].id = id}
    IN  IF pool \notin DOMAIN doc.pools \/ mine = {} THEN doc
        ELSE IF doc.pools[pool].accts[Min(mine)].link THEN doc
        ELSE [doc EXCEPT !.pools[pool].accts[Min(mine)].tok = tok]
=============================================================================
