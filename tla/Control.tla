------------------------------ MODULE Control ------------------------------
(***************************************************************************)
(* The configuration file and everything that writes it or lives by it:    *)
(* the commands of the CLI, each a process of its own; the server's        *)
(* control plane and its token writes, which are tasks of one process; and *)
(* the server's start, reload, stop and crash.                             *)
(*                                                                         *)
(* A behaviour is one scenario: a file, and for every process the command  *)
(* it runs.  A command goes through stages (a load before the edit, the    *)
(* edit under the lock, the reload it asks the server for), and a stage    *)
(* through steps.  A load may have to write the file back, without the     *)
(* lock when it is not part of an edit.  Each step that another process    *)
(* or task can observe or come in front of is an action.                   *)
(***************************************************************************)
EXTENDS Naturals, Sequences, FiniteSets, TLC, PoolsRegistry

CONSTANTS
    Procs,       \* The commands and handlers.
    Daemon,      \* The server's own start.
    Flows,       \* The flow ids of pending logins.
    Scenarios,   \* The behaviours begin with one of these.
    Nobody       \* Holds the lock when no process does.

ASSUME ProcsAssumption == /\ IsFiniteSet(Procs)
                          /\ Daemon \notin Procs /\ Nobody \notin Procs \cup {Daemon}
\* The commands that edit the file.
EditOps == {"login", "login/submit", "import", "apikey", "codex", "acrobat", "remove", "disable", "action", "knob",
            "pool add", "pool set", "pool rm", "create", "edit", "token"}

\* The provider names no organisation without the account that is in it.
IsProfile(c) == c.user = Unknown => c.org = Unknown

\* What the parser of the command line and the routes let through: a pool is
\* given or left to the default one, except where a command needs its name.
Wellformed(c) ==
    /\ c.op \in EditOps \cup {"status", "login/start", "login/cancel", "none"}
    /\ c.op \in {"login", "login/submit", "import", "apikey", "codex", "create", "pool add", "pool set"} => c.pool \in Nat
    /\ c.op \in {"create", "pool add", "pool set"} => c.pool # NoPool
    /\ c.op = "edit" => c.new \in Nat
    /\ c.op \in {"pool add", "pool set"} => c.set.accts \in Seq(Range(c.set.accts))
    /\ c.op \in {"login", "login/submit", "import"} => IsProfile(c)
    /\ c.op = "acrobat" => /\ c.rows \in Seq(Range(c.rows))
                           /\ \A i \in DOMAIN c.rows : IsProfile(c.rows[i]) /\ c.rows[i].pool \in Nat \ {NoPool}

\* The server's own start is `corrall server`.  A file the behaviour begins with
\* has been written by hand or by another process: no command of this behaviour
\* is in its history.  A server that already runs has loaded it, and given
\* every entry an id of its own.
ASSUME ScenariosAssumption == \A s \in Scenarios :
    /\ s.cmd[Daemon].op = "server" /\ \A p \in Procs : Wellformed(s.cmd[p])
    /\ s.lastId \in Nat
    /\ IsDoc(s.doc) => IsDocument(s.doc, s.lastId) /\ s.doc.log = {}
    /\ s.up => IsDoc(s.doc) /\ IdsApart(s.doc) /\ Numbered(s.doc)

All == Procs \cup {Daemon}

VARIABLES
    cmd,       \* What each process runs; fixed by the scenario.
    job,       \* Where each process is, and what it has read.
    lock,      \* Config::update's mutex and FileLock: who is inside, or Nobody.
    file,      \* The inode config_path names; 0 when there is no file.
    temp,      \* The inode the server's temporary file names; 0 when there is none.
    data,      \* What every inode holds.
    registry,  \* The live pools.
    live,      \* The configuration the server's handlers see.
    up,        \* "down", "bound" (connections wait) or "serving".
    state,     \* The state file.
    flows,     \* Pending logins: "none", "pending" or "old".
    clock,     \* The moment the last credential was issued at.
    lastId,    \* The last account id that was issued.
    kills,     \* Bound: how many processes may still be ended, the server's stops and crashes included.
    past       \* History, for the properties only; see below.

(***************************************************************************)
(* "past" is what the properties remember of a behaviour:                  *)
(*   tags       "race": a document changed since it was read was written   *)
(*              over; "twin": two server tasks used the temporary file at  *)
(*              once; "overlap": two reloads, or a reload and a rename of  *)
(*              the live pools, interleaved; "unheard": an edit nobody     *)
(*              told the server of, or a reload that failed; "stale": a    *)
(*              login's name was chosen on a file changed since; "moved":  *)
(*              a rotated token found no entry; "older": an entry got a    *)
(*              credential older than its own.                             *)
(*   lost       the edits undone by a save made without the lock.          *)
(*   rehomed    the accounts moved to another pool, or whose section of    *)
(*              the state file has another name now.                       *)
(*   nameless   the submits that got a token and no profile.               *)
(*   displaced  the logins whose entry another login took by its name.     *)
(*   redeemed   how often each pending login was exchanged.                *)
(*   seen       the accounts observed when the behaviour begins.           *)
(*   logins     the logins of the file the behaviour begins with.          *)
(***************************************************************************)

vars == <<cmd, job, lock, file, temp, data, registry, live, up, state, flows, clock, lastId, kills, past>>

Empty == [bad |-> "empty"]    \* Truncated and not written yet.
Torn  == [bad |-> "torn"]     \* Two writes mixed.
Free  == [bad |-> "free"]     \* An inode nobody has used.

Inodes == 1..(Cardinality(All) + 3)

\* What a read of the configuration file finds.
OnDisk == IF file = 0 THEN [bad |-> "missing"] ELSE data[file]

\* A job that has read nothing.
NoJob == [stage |-> "start", step |-> "", doc |-> Refused, fill |-> FALSE, fd |-> 0, fresh |-> TRUE,
          tok |-> 0, name |-> <<>>, pool |-> NoPool, id |-> NoId]

Over(stage) == [NoJob EXCEPT !.stage = stage]
Ended(p) == job[p].stage \in {"done", "failed"}
AtStep(p, stage, step) == job[p].stage = stage /\ job[p].step = step
Go(j, stage, step) == [j EXCEPT !.stage = stage, !.step = step]

----------------------------------------------------------------------------
(* Which process executes a step: it decides what a crash ends and whose   *)
(* temporary file a save uses.                                             *)

ServerOps == {"server", "create", "edit", "action", "login/start", "login/submit", "login/cancel", "token"}
InServer(p) == cmd[p].op \in ServerOps \/ job[p].stage = "reload"

\* The commands that load the file before anything else, and those of them
\* that create it.
Obtains    == {"login", "apikey", "codex", "import", "acrobat"}
Creates    == Obtains \cup {"server"}
LoadsFirst == Obtains \cup {"status"}
First(op) == IF op \in LoadsFirst THEN <<"pre", "read">>
             ELSE IF op = "server" THEN <<"boot", "read">>
             ELSE IF op \in ServerOps THEN <<"handler", op>>
             ELSE <<"edit", "lock">>

\* After an edit: a token is written without a reload, a handler reconciles,
\* a command notifies.
AfterEdit(p) == IF cmd[p].op = "token" THEN Over("done")
                ELSE IF cmd[p].op = "edit" THEN Go(NoJob, "handler", "rekey")
                ELSE IF cmd[p].op \in ServerOps THEN Go(NoJob, "reload", "read")
                ELSE Go(NoJob, "notify", "")

\* An error ends a command; a reload that fails is only logged.
AfterError(p) == IF job[p].stage = "reload" THEN Over("done") ELSE Over("failed")

\* Leaving the edit releases the lock.
Unlocked(p, j) == IF lock = p /\ j.stage # "edit" THEN Nobody ELSE lock

\* The edits their command has reported as done.
Acknowledged == {p \in Procs : /\ First(cmd[p].op)[1] # "boot"
                               /\ cmd[p].op \notin {"status", "login/start", "login/cancel"}
                               /\ \/ job[p].stage \in {"notify", "reload", "done"}
                                  \/ AtStep(p, "handler", "rekey")}

Tag(tags) == [past EXCEPT !.tags = @ \cup tags]

----------------------------------------------------------------------------
(* What an edit makes of the document it read under the lock. *)

Profile(c) == [user |-> c.user, org |-> c.org]
NoProfile  == [user |-> Unknown, org |-> Unknown]

\* The name a login goes by: the one given, or one made from the profile and
\* the document at hand.
Naming(c, doc) == IF c.name # <<>> THEN c.name ELSE DisplayName(doc, c)

Edit(p, doc) ==
    LET c == cmd[p]
        j == job[p]
        into == Target(doc, c.pool)
        pool == PoolName(doc, c.pool)
    IN  CASE c.op = "login"        -> Upsert(into, pool, j.name, j.tok, Profile(c), FALSE)
          [] c.op = "login/submit" -> IF j.name = <<>> THEN Upsert(into, pool, Naming(c, doc), j.tok, Profile(c), FALSE)
                                      ELSE Upsert(into, pool, j.name, j.tok, NoProfile, FALSE)
          [] c.op = "import"       -> Upsert(into, pool, j.name, j.tok, Profile(c), c.link)
          [] c.op = "apikey"       -> AddApiKey(into, pool, j.name, j.tok)
          [] c.op = "codex"        -> AddCodex(into, pool, j.name, j.tok, Profile(c), c.link)
          [] c.op = "acrobat"      -> Acrobat(doc, j.name, lastId + 1)
          [] c.op = "remove"       -> RemoveAccount(doc, c.pool, c.needle)
          [] c.op \in {"disable", "action"} -> SetDisabled(doc, c.pool, c.needle, c.off)
          [] c.op = "knob"         -> SetKnob(doc, c.pool, c.knob)
          [] c.op = "pool add"     -> PoolAdd(doc, c.pool, c.set)
          [] c.op = "pool set"     -> PoolSet(doc, c.pool, c.set)
          [] c.op = "pool rm"      -> PoolRm(doc, c.pool, c.force)
          [] c.op = "create"       -> PoolCreate(doc, c.pool, c.knob)
          [] c.op = "edit"         -> PoolEdit(doc, c.pool, c.knob, c.new)
          [] c.op = "token"        -> PutToken(doc, j.pool, j.id, j.tok)

\* The document that goes to the file: what was read, edited, and the edit in
\* its history.
Logged(p, doc) == [default |-> doc.default, pools |-> doc.pools, old |-> doc.old,
                   log |-> job[p].doc.log \cup {p}]

----------------------------------------------------------------------------
(* Loading. *)

\* A server handler needs a server; everything else starts by itself.
Start(p) ==
    /\ job[p].stage = "start"
    /\ cmd[p].op # "none"
    /\ cmd[p].op \in ServerOps \ {"server"} => up = "serving"
    /\ job' = [job EXCEPT ![p] = Go(NoJob, First(cmd[p].op)[1], First(cmd[p].op)[2])]
    /\ UNCHANGED <<cmd, lock, file, temp, data, registry, live, up, state, flows, clock, lastId, kills, past>>

\* Mutant: the read does not wait for the lock.
LockLater(p) ==
    /\ AtStep(p, "edit", "lock")
    /\ lock' = p
    /\ job' = [job EXCEPT ![p].step = "read"]
    /\ UNCHANGED <<cmd, file, temp, data, registry, live, up, state, flows, clock, lastId, kills, past>>

\* Config::update takes the mutex and the file lock before it reads.
Lock(p) ==
    /\ AtStep(p, "edit", "lock")
    /\ lock = Nobody
    /\ lock' = p
    /\ job' = [job EXCEPT ![p].step = "read"]
    /\ UNCHANGED <<cmd, file, temp, data, registry, live, up, state, flows, clock, lastId, kills, past>>

\* The job after a load: the file is written back first when something was
\* filled in, with or without the lock.
Loaded(j, doc, rewrite) == [j EXCEPT !.doc = doc, !.fresh = TRUE, !.fill = rewrite,
                                     !.step = IF rewrite THEN "save" ELSE "loaded"]

\* What a load makes of the file it finds.
AfterRead(p) ==
    LET j == job[p]
        filled == Filled(OnDisk, lastId + 1)
    IN  CASE file = 0 /\ j.stage = "edit"         -> Loaded(j, DefaultDoc, FALSE)
          [] file = 0 /\ j.stage \in {"pre", "boot"} /\ cmd[p].op \in Creates
                                                  -> Loaded(j, DefaultDoc, TRUE)
          [] file # 0 /\ IsDoc(OnDisk) /\ Valid(filled) -> Loaded(j, filled, MustRewrite(OnDisk))
          [] OTHER                                -> AfterError(p)

\* Config::load and load_or_create up to the rewrite.
Read(p) ==
    /\ job[p].step = "read"
    /\ \E next \in {AfterRead(p)} :
       LET others == \E q \in All \ {p} : job[q].stage = "reload" /\ job[q].step # "read"
       IN  /\ job' = [job EXCEPT ![p] = next]
           /\ lock' = Unlocked(p, next)
           /\ lastId' = lastId + IF IsDoc(OnDisk) THEN Cardinality(Idless(EnsurePools(OnDisk))) ELSE 0
           /\ past' = Tag((IF job[p].stage = "reload" /\ others THEN {"overlap"} ELSE {})
                          \cup (IF job[p].stage = "reload" /\ next.stage = "done" THEN {"unheard"} ELSE {})
                          \cup (IF job[p].stage = "edit" /\ ~job[p].fresh THEN {"stale"} ELSE {}))
    /\ UNCHANGED <<cmd, file, temp, data, registry, live, up, state, flows, clock, kills>>

\* The ids that have another pool in the new document.
Rehomed(old, new) == {At(old, place).id : place \in {x \in Places(old) :
    ~\E y \in Places(new) : y[1] = x[1] /\ At(new, y).id = At(old, x).id}}

\* An account gets a credential that was issued before the one it has.
Older(old, new) == IsDoc(new) /\ \E x \in Places(old), y \in Places(new) :
    At(old, x).id = At(new, y).id /\ At(new, y).tok \in 1..(At(old, x).tok - 1)

\* The entries of somebody else that a login without an entry takes because they
\* have the name it goes by: a Codex account's, that of another organisation of
\* the same name, any for a name given by hand or without the organisation's name.
\* The case display_name is for, a mail in two organisations with names of their
\* own, is not among them.
Namesakes(p, doc) ==
    LET c    == cmd[p]
        name == IF job[p].name = <<>> THEN Naming(c, doc) ELSE job[p].name
        prof == IF p \in past.nameless THEN NoProfile ELSE Profile(c)
    IN  {a \in AllAccounts(doc) :
            \/ /\ c.op \in {"login", "login/submit", "import"}
               /\ a.name = name /\ LocateBy(doc, LAMBDA b : OfProfile(b, prof)) = NoPlace
               /\ a.codex \/ a.user # c.user \/ c.name # <<>> \/ c.team = Unknown \/ name # <<c.user>>
            \/ /\ c.op = "acrobat" /\ AnthropicOauth(a)
               /\ \E i \in DOMAIN c.rows : a.name = c.rows[i].name /\ ~OfProfile(a, c.rows[i])}

\* The logins that have no entry for it: a Codex entry stays one, so that the new
\* login is in none either.
Displaced(p, doc) == UNION {{<<a.user, a.org>>} \cup (IF a.codex THEN {<<cmd[p].user, cmd[p].org>>} ELSE {}) :
                                a \in Namesakes(p, doc)}

\* The body of an update, under the lock.
Apply(p) ==
    /\ AtStep(p, "edit", "loaded")
    /\ \E doc \in {Edit(p, job[p].doc)} :
       LET next == IF doc = Refused THEN AfterError(p)
                   ELSE [job[p] EXCEPT !.doc = Logged(p, doc), !.fill = FALSE, !.step = "save"]
       IN  /\ job' = [job EXCEPT ![p] = next]
           /\ lock' = Unlocked(p, next)
           /\ lastId' = IF doc # Refused /\ cmd[p].op = "acrobat" THEN lastId + Cardinality(Places(doc)) ELSE lastId
           /\ past' = [past EXCEPT !.tags = @ \cup (IF cmd[p].op = "token" /\ doc = job[p].doc THEN {"moved"} ELSE {})
                                             \cup (IF Older(job[p].doc, doc) THEN {"older"} ELSE {}),
                                   !.displaced = @ \cup Displaced(p, job[p].doc),
                                   !.rehomed = @ \cup (IF doc = Refused \/ cmd[p].op = "edit" THEN {}
                                                       ELSE Rehomed(job[p].doc, doc))]
    /\ UNCHANGED <<cmd, file, temp, data, registry, live, up, state, flows, clock, kills>>

----------------------------------------------------------------------------
(* Saving. *)

\* The job after a save: a rewrite goes on with what it loaded, an edit is
\* done and leaves the lock.
AfterSave(p) == IF job[p].fill THEN [job[p] EXCEPT !.step = "loaded", !.fill = FALSE, !.fd = 0]
                ELSE AfterEdit(p)

\* Another content at the path makes what the other processes have read old.
Aged(p, next) == [q \in All |-> IF q = p THEN next
                                ELSE IF job[q].doc = Refused /\ job[q].name = <<>> THEN job[q]
                                ELSE [job[q] EXCEPT !.fresh = FALSE]]

\* A write that puts doc at the path: the edits it undoes are lost.
Overwrites(p, doc) ==
    LET known  == Acknowledged \cup (IF job[p].fill THEN {} ELSE {p})
        undone == IF IsDoc(doc) /\ (job[p].fill \/ "twin" \in past.tags) THEN known \ doc.log ELSE {}
    IN  [past EXCEPT !.lost = @ \cup undone,
                     !.tags = @ \cup (IF job[p].fresh THEN {} ELSE {"race"})]

\* An inode nothing refers to; what the others hold is of no use to anybody.
InUse  == {file, temp} \cup {job[p].fd : p \in All}
Unused == CHOOSE n \in Inodes : n \notin InUse
Put(n, content) == [m \in Inodes |-> IF m = n THEN content ELSE IF m \in InUse THEN data[m] ELSE Free]

\* A command's temporary file is its own: the rename is the only visible step.
SaveByCommand(p) ==
    /\ job[p].step = "save"
    /\ ~InServer(p)
    /\ LET next == AfterSave(p)
       IN  /\ file' = Unused
           /\ data' = Put(Unused, job[p].doc)
           /\ job' = Aged(p, next)
           /\ lock' = Unlocked(p, next)
           /\ past' = Overwrites(p, job[p].doc)
    /\ UNCHANGED <<cmd, temp, registry, live, up, state, flows, clock, lastId, kills>>

\* Mutant: the file itself is opened and written.
TempInPlace == IF file # 0 THEN file ELSE Unused

\* The tasks of the server share one temporary name, made from its pid.
TempInode == IF temp # 0 THEN temp ELSE Unused

\* open(create, truncate).
Open(p) ==
    /\ job[p].step = "save"
    /\ InServer(p)
    /\ temp' = TempInode
    /\ data' = Put(TempInode, Empty)
    /\ job' = [job EXCEPT ![p].fd = TempInode, ![p].step = "write"]
    /\ past' = Tag(IF \E q \in All \ {p} : job[q].step \in {"write", "rename"} THEN {"twin"} ELSE {})
    /\ UNCHANGED <<cmd, lock, file, registry, live, up, state, flows, clock, lastId, kills>>

\* write_all and sync_all: over what another task has written through a
\* descriptor of its own, the longer of the two shows.
Write(p) ==
    /\ job[p].step = "write"
    /\ \E new \in {job[p].doc} \cup (IF data[job[p].fd] = Empty THEN {} ELSE {Torn}) :
          /\ data' = Put(job[p].fd, new)
          /\ past' = IF file = job[p].fd THEN Overwrites(p, new) ELSE past
          /\ job' = LET next == [job[p] EXCEPT !.fd = 0, !.step = "rename"]
                    IN  IF file = job[p].fd THEN Aged(p, next) ELSE [job EXCEPT ![p] = next]
    /\ UNCHANGED <<cmd, lock, file, temp, registry, live, up, state, flows, clock, lastId, kills>>

\* Whatever the temporary name refers to by now becomes the file.
Rename(p) ==
    /\ job[p].step = "rename"
    /\ temp # 0
    /\ LET next == AfterSave(p)
       IN  /\ job' = Aged(p, next)
           /\ lock' = Unlocked(p, next)
           /\ past' = Overwrites(p, data[temp])
    /\ file' = temp
    /\ temp' = 0
    /\ UNCHANGED <<cmd, data, registry, live, up, state, flows, clock, lastId, kills>>

\* Another task has renamed it: a rewrite is given up, an edit fails.
RenameFails(p) ==
    /\ job[p].step = "rename"
    /\ temp = 0
    /\ LET next == IF job[p].fill THEN AfterSave(p) ELSE AfterError(p)
       IN  /\ job' = [job EXCEPT ![p] = next]
           /\ lock' = Unlocked(p, next)
    /\ UNCHANGED <<cmd, file, temp, data, registry, live, up, state, flows, clock, lastId, kills, past>>

----------------------------------------------------------------------------
(* The commands around their edit. *)

\* A login or an import gets the credential, and the name it will go by from
\* the file it loaded; an import of claudeacrobat plans its rows.
Obtain(p) ==
    /\ AtStep(p, "pre", "loaded")
    /\ cmd[p].op \in Obtains
    /\ clock' = clock + 1
    /\ LET name == IF cmd[p].op = "acrobat" THEN AcrobatRows(job[p].doc, cmd[p].rows)
                   ELSE Naming(cmd[p], job[p].doc)
       IN  job' = [job EXCEPT ![p] = [NoJob EXCEPT !.stage = "edit", !.step = "lock", !.fresh = job[p].fresh,
                                                   !.tok = clock + 1, !.name = name]]
    /\ UNCHANGED <<cmd, lock, file, temp, data, registry, live, up, state, flows, lastId, kills, past>>

\* `corrall accounts`, `pool list` and the like only load.
Show(p) ==
    /\ AtStep(p, "pre", "loaded")
    /\ cmd[p].op = "status"
    /\ job' = [job EXCEPT ![p] = Over("done")]
    /\ UNCHANGED <<cmd, lock, file, temp, data, registry, live, up, state, flows, clock, lastId, kills, past>>

\* What the file says has reached the server.
Calm == past.tags = {}

\* notify_reload: a server that does not answer is not an error.  One that is
\* bound already answers when it serves.
Notify(p) ==
    /\ job[p].stage = "notify"
    /\ up # "bound"
    /\ job' = [job EXCEPT ![p] = IF up = "serving" THEN Go(NoJob, "reload", "read") ELSE Over("done")]
    /\ past' = Tag(IF up = "down" /\ job[Daemon].stage = "boot" THEN {"unheard"} ELSE {})
    /\ UNCHANGED <<cmd, lock, file, temp, data, registry, live, up, state, flows, clock, lastId, kills>>

----------------------------------------------------------------------------
(* The server's reload, as the route and as every handler's reconcile run it: *)
(* nothing serialises two of them.                                          *)

SyncPools(p) ==
    /\ AtStep(p, "reload", "loaded")
    /\ registry' = Sync(registry, job[p].doc)
    /\ job' = [job EXCEPT ![p].step = "publish"]
    /\ past' = Tag(IF \E q \in Procs : AtStep(q, "handler", "rekey") THEN {"overlap"} ELSE {})
    /\ UNCHANGED <<cmd, lock, file, temp, data, live, up, state, flows, clock, lastId, kills>>

Publish(p) ==
    /\ AtStep(p, "reload", "publish")
    /\ live' = job[p].doc
    /\ job' = [job EXCEPT ![p] = Over("done")]
    /\ UNCHANGED <<cmd, lock, file, temp, data, registry, up, state, flows, clock, lastId, kills, past>>

----------------------------------------------------------------------------
(* The control plane. *)

\* pool_create, pool_edit and account_action look at the configuration in
\* memory before they edit the one on disk.
Check(p) ==
    /\ job[p].stage = "handler"
    /\ job[p].step \in {"create", "edit", "action"}
    /\ job' = [job EXCEPT ![p] = IF (cmd[p].pool \in DOMAIN live.pools) = (cmd[p].op # "create")
                                 THEN Go(NoJob, "edit", "lock") ELSE Over("failed")]
    /\ UNCHANGED <<cmd, lock, file, temp, data, registry, live, up, state, flows, clock, lastId, kills, past>>

\* Pools::rename_pool, before the reconcile.
RekeyPool(p) ==
    /\ AtStep(p, "handler", "rekey")
    /\ registry' = IF cmd[p].new = NoPool THEN registry ELSE Rekey(registry, cmd[p].pool, cmd[p].new)
    /\ job' = [job EXCEPT ![p] = Go(NoJob, "reload", "read")]
    /\ past' = Tag(IF \E q \in Procs : job[q].stage = "reload" /\ job[q].step # "read" THEN {"overlap"} ELSE {})
    /\ UNCHANGED <<cmd, lock, file, temp, data, live, up, state, flows, clock, lastId, kills>>

\* login_start sweeps the old flows.
LoginStart(p) ==
    /\ AtStep(p, "handler", "login/start")
    /\ flows' = [f \in Flows |-> IF f = cmd[p].flow THEN "pending" ELSE IF flows[f] = "old" THEN "none" ELSE flows[f]]
    /\ job' = [job EXCEPT ![p] = Over("done")]
    /\ UNCHANGED <<cmd, lock, file, temp, data, registry, live, up, state, clock, lastId, kills, past>>

\* Mutant: the flow is looked up, and dropped when the login is done.
PeekFlow(p) ==
    /\ AtStep(p, "handler", "login/submit")
    /\ job' = [job EXCEPT ![p] = IF flows[cmd[p].flow] = "pending" THEN Go(NoJob, "handler", "exchange")
                                 ELSE Over("failed")]
    /\ past' = IF flows[cmd[p].flow] = "pending" THEN [past EXCEPT !.redeemed[cmd[p].flow] = @ + 1] ELSE past
    /\ UNCHANGED <<cmd, lock, file, temp, data, registry, live, up, state, flows, clock, lastId, kills>>

\* login_submit takes the flow out before it awaits anything.
TakeFlow(p) ==
    /\ AtStep(p, "handler", "login/submit")
    /\ flows' = [f \in Flows |-> IF f = cmd[p].flow \/ flows[f] = "old" THEN "none" ELSE flows[f]]
    /\ job' = [job EXCEPT ![p] = IF flows[cmd[p].flow] = "pending" THEN Go(NoJob, "handler", "exchange")
                                 ELSE Over("failed")]
    /\ past' = IF flows[cmd[p].flow] = "pending" THEN [past EXCEPT !.redeemed[cmd[p].flow] = @ + 1] ELSE past
    /\ UNCHANGED <<cmd, lock, file, temp, data, registry, live, up, state, clock, lastId, kills>>

\* parse_auth_code: a paste that is no code, or has the state of another login,
\* is refused.
Parses(paste) == paste = "code"

\* exchange_code: the provider gives a token for the code.
Issued(p, name) ==
    /\ Parses(cmd[p].paste)
    /\ clock' = clock + 1
    /\ job' = [job EXCEPT ![p] = [NoJob EXCEPT !.stage = "edit", !.step = "lock", !.tok = clock + 1, !.name = name]]

\* finish_manual_login and fetch_profile.  Without a profile the login goes by
\* the name it was started with, or is just "account"; without a token, or when
\* the client hangs up, there is no flow left to submit again.
Exchange(p) ==
    /\ AtStep(p, "handler", "exchange")
    /\ \/ Issued(p, <<>>) /\ UNCHANGED past
       \/ /\ Issued(p, IF cmd[p].name = <<>> THEN <<"account">> ELSE cmd[p].name)
          /\ past' = [past EXCEPT !.nameless = @ \cup {p}]
       \/ /\ job' = [job EXCEPT ![p] = Over("failed")]
          /\ UNCHANGED <<clock, past>>
    /\ UNCHANGED <<cmd, lock, file, temp, data, registry, live, up, state, flows, lastId, kills>>

LoginCancel(p) ==
    /\ AtStep(p, "handler", "login/cancel")
    /\ flows' = [flows EXCEPT ![cmd[p].flow] = "none"]
    /\ job' = [job EXCEPT ![p] = Over("done")]
    /\ UNCHANGED <<cmd, lock, file, temp, data, registry, live, up, state, clock, lastId, kills, past>>

FlowAges(f) ==
    /\ flows[f] = "pending"
    /\ flows' = [flows EXCEPT ![f] = "old"]
    /\ UNCHANGED <<cmd, job, lock, file, temp, data, registry, live, up, state, clock, lastId, kills, past>>

\* ensure_token_fresh has a new pair: into the fleet, then, under the pool name
\* the fleet has at that moment, into the file.
Rotate(p) ==
    /\ AtStep(p, "handler", "token")
    /\ \/ \E q \in DOMAIN registry.map : \E held \in registry.map[q].accts :
             /\ held.id = cmd[p].id /\ ~held.apikey
             /\ clock' = clock + 1
             /\ registry' = [registry EXCEPT !.map[q].accts = (@ \ {held}) \cup {[held EXCEPT !.tok = clock + 1]}]
             /\ job' = [job EXCEPT ![p] = [NoJob EXCEPT !.stage = "edit", !.step = "lock", !.tok = clock + 1,
                                                        !.pool = registry.map[q].pool, !.id = cmd[p].id]]
       \/ /\ \A q \in DOMAIN registry.map : \A a \in registry.map[q].accts : a.id = cmd[p].id => a.apikey
          /\ job' = [job EXCEPT ![p] = Over("failed")]
          /\ UNCHANGED <<clock, registry>>
    /\ UNCHANGED <<cmd, lock, file, temp, data, live, up, state, flows, lastId, kills, past>>

----------------------------------------------------------------------------
(* The life of the server. *)

\* The configuration is loaded before the port is bound, and the pools are
\* built after it.
Bind ==
    /\ AtStep(Daemon, "boot", "loaded")
    /\ up' = "bound"
    /\ job' = [job EXCEPT ![Daemon].step = "build"]
    /\ UNCHANGED <<cmd, lock, file, temp, data, registry, live, state, flows, clock, lastId, kills, past>>

\* The accounts whose readings the state file keeps in another section than
\* the one their pool restores from.
Elsewhere(reg, kept) == {s[2] : s \in {x \in Served(reg) :
    /\ \E n \in DOMAIN kept : x[2] \in kept[n]
    /\ Section(reg, x[1]) \notin DOMAIN kept \/ x[2] \notin kept[Section(reg, x[1])]}}

\* Pools::new and restore_state.
Build(doc, kept) == Restore(Sync(NoManagers, doc), kept)

Serve ==
    /\ AtStep(Daemon, "boot", "build")
    /\ registry' = Build(job[Daemon].doc, state)
    /\ live' = job[Daemon].doc
    /\ up' = "serving"
    /\ job' = [job EXCEPT ![Daemon] = Over("serving")]
    /\ past' = [past EXCEPT !.tags = @ \cup (IF job[Daemon].fresh THEN {} ELSE {"unheard"}),
                            !.rehomed = @ \cup Elsewhere(registry', state)]
    /\ UNCHANGED <<cmd, lock, file, temp, data, state, flows, clock, lastId, kills>>

\* The saver's tick.
SaveState ==
    /\ up = "serving"
    /\ state # Export(registry)
    /\ state' = Export(registry)
    /\ UNCHANGED <<cmd, job, lock, file, temp, data, registry, live, up, flows, clock, lastId, kills, past>>

\* The process ends, and with it every task in it; the kernel releases the
\* file lock, and the next process has another pid and no flows.
Down ==
    /\ up = "serving"
    /\ kills > 0
    /\ kills' = kills - 1
    /\ up' = "down"
    /\ temp' = 0
    /\ flows' = [f \in Flows |-> "none"]
    /\ job' = [p \in All |-> IF p = Daemon THEN NoJob
                             ELSE IF job[p].stage = "start" \/ Ended(p) \/ ~InServer(p) THEN job[p]
                             ELSE IF cmd[p].op \in ServerOps THEN Over("failed") ELSE Over("done")]
    /\ lock' = IF lock \in All /\ InServer(lock) THEN Nobody ELSE lock
    /\ UNCHANGED <<cmd, file, data, registry, live, clock, lastId, past>>

\* On SIGTERM the state is saved last.
Stop ==
    /\ Down
    /\ state' = Export(registry)

Crash ==
    /\ Down
    /\ UNCHANGED state

\* A command is interrupted.
Kill(p) ==
    /\ job[p].stage \in {"pre", "edit", "notify"}
    /\ ~InServer(p)
    /\ kills > 0
    /\ kills' = kills - 1
    /\ job' = [job EXCEPT ![p] = Over("failed")]
    /\ lock' = IF lock = p THEN Nobody ELSE lock
    /\ past' = Tag(IF job[p].stage = "notify" THEN {"unheard"} ELSE {})
    /\ UNCHANGED <<cmd, file, temp, data, registry, live, up, state, flows, clock, lastId>>

----------------------------------------------------------------------------
Step(p) == \/ Lock(p) \/ Read(p) \/ Apply(p)
           \/ SaveByCommand(p) \/ Open(p) \/ Write(p) \/ Rename(p) \/ RenameFails(p)
           \/ Obtain(p) \/ Show(p) \/ Notify(p)
           \/ SyncPools(p) \/ Publish(p)
           \/ Check(p) \/ RekeyPool(p) \/ LoginStart(p) \/ TakeFlow(p) \/ Exchange(p) \/ LoginCancel(p) \/ Rotate(p)

Boot == Start(Daemon) \/ Step(Daemon) \/ Bind \/ Serve

\* Every process that started has ended: anything else that stops is a deadlock.
Idle == /\ \A p \in Procs : job[p].stage \in {"start", "done", "failed"}
        /\ job[Daemon].stage \in {"serving", "failed"}
        /\ UNCHANGED vars

Next == \/ \E p \in Procs : Start(p) \/ Step(p) \/ Kill(p)
        \/ Boot \/ SaveState \/ Stop \/ Crash
        \/ \E f \in Flows : FlowAges(f)
        \/ Idle

\* The logins of a document whose profile is known.
Logins(doc) == {<<a.user, a.org>> : a \in {x \in AllAccounts(doc) : AnthropicOauth(x) /\ Unknown \notin {x.user, x.org}}}

Init == \E s \in Scenarios :
    /\ cmd = s.cmd
    /\ file = IF IsDoc(s.doc) THEN 1 ELSE 0
    /\ data = [n \in Inodes |-> IF n = 1 /\ IsDoc(s.doc) THEN s.doc ELSE Free]
    /\ state = s.state
    /\ clock = s.clock /\ lastId = s.lastId
    /\ job = [p \in All |-> IF p = Daemon /\ s.up THEN Over("serving") ELSE NoJob]
    /\ lock = Nobody /\ temp = 0
    /\ \/ /\ ~s.up
          /\ registry = NoManagers /\ live = Refused /\ up = "down"
       \/ /\ s.up
          /\ registry = Build(s.doc, s.state) /\ live = s.doc /\ up = "serving"
    /\ flows = [f \in Flows |-> "none"]
    /\ kills = s.kills
    /\ past = [tags |-> {}, lost |-> {}, rehomed |-> {}, nameless |-> {}, displaced |-> {}, redeemed |-> [f \in Flows |-> 0],
               seen   |-> UNION Range(s.state),
               logins |-> IF IsDoc(s.doc) THEN Logins(s.doc) ELSE {}]

Spec == Init /\ [][Next]_vars

----------------------------------------------------------------------------
(* Properties. *)

TypeOK ==
    /\ lock \in All \cup {Nobody}
    /\ file \in Inodes \cup {0} /\ temp \in Inodes \cup {0}
    /\ \A n \in Inodes : IsDoc(data[n]) => data[n].log \subseteq Procs
    /\ up \in {"down", "bound", "serving"}
    /\ \A p \in All : /\ job[p].stage \in {"start", "pre", "edit", "notify", "reload", "handler", "boot",
                                          "serving", "done", "failed"}
                      /\ job[p].fd \in Inodes \cup {0}
    /\ \A f \in Flows : flows[f] \in {"none", "pending", "old"}
    /\ past.lost \subseteq Procs
    /\ \A served \in Served(registry) : served[2] \in 1..lastId

\* An edit a command has reported as done is in the file, unless a load that
\* rewrote the file without the lock has put an older document over it: edits
\* never undo each other (the mutex and the file lock of Config::update).
UpdatesKept == IsDoc(OnDisk) => Acknowledged \ past.lost \subseteq OnDisk.log

\* write_private_atomic never leaves a half-written file, whoever is killed
\* when, except when two tasks of the server save at the same time.
WholeFile == file # 0 /\ ~IsDoc(OnDisk) => "twin" \in past.tags

\* Once every command has ended, and unless a reload was missed or overtaken,
\* the server serves what the file says: the same pools, the same default, in
\* each pool the same accounts under the same ids with the same credentials,
\* and the handlers see that document.  (An account that was an OAuth login and
\* is given an API key, or the reverse, is served with what it had until the
\* server starts again: its credentials are left out.)
ServesFile ==
    (/\ up = "serving" /\ Calm
     /\ \A p \in Procs : Ended(p) \/ job[p].stage = "start")
    => /\ IsDoc(OnDisk)
       /\ registry.default = OnDisk.default
       /\ DOMAIN registry.map = DOMAIN OnDisk.pools
       /\ \A p \in DOMAIN OnDisk.pools :
             /\ registry.map[p].pool = p
             /\ LET served == registry.map[p].accts
                    stored == {e \in Range(OnDisk.pools[p].accts) : Usable(e)}
                IN  /\ {a.id : a \in served} = {e.id : e \in stored}
                    /\ \A a \in served, e \in stored :
                          a.id = e.id /\ a.apikey = e.apikey => a.tok = Credential(e.apikey, e)
             /\ p \in DOMAIN live.pools /\ live.pools[p].knob = OnDisk.pools[p].knob

\* No id is served by two managers.
OneManager == \A s, t \in Served(registry) : s[2] = t[2] => s = t

\* In a file a command has written, no two entries have one id.
OneId == IsDoc(OnDisk) /\ OnDisk.log # {} =>
    \A p, q \in Places(OnDisk) : p # q /\ At(OnDisk, p).id = At(OnDisk, q).id => At(OnDisk, p).id = NoId

\* The places where a login has an entry.
Entries(login) == {p \in Places(OnDisk) : AnthropicOauth(At(OnDisk, p)) /\ <<At(OnDisk, p).user, At(OnDisk, p).org>> = login}

\* A login has one entry.  An entry that `login --api` gives a key keeps the
\* profile of its login, and an import does not see it (upsert_acrobat): with
\* such a command, or such an entry at the start, nothing is claimed.
NoLoginTwice == \A s \in Scenarios : IsDoc(s.doc) => LoginsApart(s.doc) /\ KeysBare(s.doc)
OneEntry == IsDoc(OnDisk) /\ NoLoginTwice /\ (\A p \in Procs : cmd[p].op # "apikey") =>
    \A login \in Logins(OnDisk) : Cardinality(Entries(login)) = 1

\* An account has one home, wherever logins, imports and edits of pools move
\* it, whatever names and organisations they give, and whichever loads give it
\* its id (upsert_oauth, entry_at, ensure_account_ids, rename_pool).
OneHome == OneManager /\ OneId /\ OneEntry

\* A login stays in the file until it is removed or its name is given to an API
\* key: another login, of the same mail in another organisation too, never takes
\* its entry, unless the name it goes by was chosen on a file that has changed
\* since, or is for another reason the name of that entry (display_name tells two
\* organisations apart by their names, which may be the same or missing, and
\* upsert_oauth_at falls back to the name whoever the entry belongs to).
LoginsKept ==
    IsDoc(OnDisk) /\ past.tags \cap {"stale", "race"} = {}
    => \A login \in past.logins \cup {<<cmd[p].user, cmd[p].org>> :
                        p \in {q \in Acknowledged \ (past.lost \cup past.nameless) : cmd[q].op \in {"login", "login/submit"} /\ cmd[q].org # Unknown}} :
          \/ login \in past.displaced
          \/ login \in Logins(OnDisk)
          \/ \E p \in Procs : cmd[p].op \in {"remove", "pool rm", "apikey"}

\* A pending login is exchanged at most once, however many submits race for it.
FlowsAreOneShot ==
    \A f \in Flows : past.redeemed[f] <= Cardinality({p \in Procs : cmd[p].op = "login/start" /\ cmd[p].flow = f})

\* What the server has observed of an account survives every reload, the rename
\* of its pool, and a restart, as long as the account stays in its pool.
ReadingsKept ==
    (/\ up = "serving" /\ Calm /\ IsDoc(OnDisk)
     /\ \A p \in Procs : Ended(p) \/ job[p].stage = "start")
    => past.seen \cap {s[2] : s \in Served(registry)} \subseteq Observed(registry) \cup past.rehomed
=============================================================================
