--------------------------- MODULE Control_proofs ---------------------------
(***************************************************************************)
(* The configuration file under any number of commands, handlers, reloads  *)
(* and restarts: it is never half-written, an edit is never undone by      *)
(* another, and a pending login is exchanged once; then what stands in it: *)
(* every id is one the process issued, and every account has one home.     *)
(***************************************************************************)

EXTENDS Control, FiniteSetTheorems, FunctionTheorems, SequenceTheorems, WellFoundedInduction, TLAPS

\* A job that has the temporary file of the server open or written.
Saving(j) == j.step \in {"write", "rename"}

\* A job inside Config::update's lock.
Inside(j) == j.stage = "edit" /\ j.step # "lock"

\* A job with a document in its hands.
HasRead(j) == j.step \in {"loaded", "save", "write", "rename"}

\* What a job is by itself, whatever the others do.
Fits(p, op, j) ==
    /\ DOMAIN j = DOMAIN NoJob
    /\ j.step \in {"read", "save", "write", "rename"} => j.stage \in {"pre", "edit", "reload", "boot"}
    /\ Saving(j) => op \in ServerOps \/ j.stage = "reload"
    /\ HasRead(j) => IsDoc(j.doc)
    /\ j.step \in {"save", "write", "rename"} /\ ~j.fill => j.stage = "edit" /\ p \in j.doc.log
    /\ j.stage = "handler" /\ j.step \in ServerOps => j.step = op
    /\ op = "login/start" =>
         j \in {NoJob, Go(NoJob, "handler", "login/start"), Over("done"), Over("failed")}

Jobs == /\ job = [p \in All |-> job[p]]
        /\ \A p \in All : Fits(p, cmd[p].op, job[p])

OneInside == \A p \in All : Inside(job[p]) => lock = p

Files == /\ file \in Inodes \cup {0} /\ temp \in Inodes \cup {0}
         /\ temp # 0 => temp # file
         /\ data = [n \in Inodes |-> data[n]]

\* Unless two tasks of the server ever saved at a time, the one that saves has
\* the temporary file to itself.
TempIsOwn ==
    "twin" \notin past.tags =>
        \A p \in All : Saving(job[p]) =>
            /\ temp # 0
            /\ job[p].step = "write" => job[p].fd = temp /\ data[temp] = Empty
            /\ job[p].step = "rename" => data[temp] = job[p].doc
            /\ \A q \in All \ {p} : ~Saving(job[q])

\* A command that runs op and stands at j has reported its edit as done.
Reported(op, j) == /\ First(op)[1] # "boot"
                   /\ op \notin {"status", "login/start", "login/cancel"}
                   /\ \/ j.stage \in {"notify", "reload", "done"}
                      \/ j.stage = "handler" /\ j.step = "rekey"

\* The edits that are done and not lost.
Safe == Acknowledged \ past.lost

\* Nobody who is inside the lock has read a file without them.
ReadAll == /\ \A p \in All : Inside(job[p]) /\ HasRead(job[p]) => Safe \subseteq job[p].doc.log
           /\ file = 0 => Safe = {}

\* The logins that were begun under a flow id.
Begun(f) == {p \in Procs : cmd[p].op = "login/start" /\ cmd[p].flow = f /\ job[p].stage = "done"}

Exchanged ==
    /\ cmd[Daemon].op = "server"
    /\ flows = [f \in Flows |-> flows[f]]
    /\ past.redeemed \in [Flows -> Nat]
    /\ \A f \in Flows :
         past.redeemed[f] + (IF flows[f] = "pending" THEN 1 ELSE 0) <= Cardinality(Begun(f))

PastIs == DOMAIN past = {"tags", "lost", "rehomed", "nameless", "displaced", "redeemed", "seen", "logins"}

\* The file and what is about to become it.
Core == /\ Jobs /\ OneInside /\ Files /\ TempIsOwn /\ ReadAll /\ PastIs
        /\ WholeFile /\ UpdatesKept

---------------------------------------------------------------------------
(* Jobs and histories as records.                                          *)

LEMMA NoJobIs ==
  /\ DOMAIN NoJob = {"stage", "step", "doc", "fill", "fd", "fresh", "tok", "name", "pool", "id"}
  /\ NoJob.stage = "start" /\ NoJob.step = "" /\ NoJob.doc = Refused /\ NoJob.name = <<>>
  /\ NoJob.fill = FALSE /\ NoJob.fd = 0
BY DEF NoJob

LEMMA GoIs ==
  ASSUME NEW j, DOMAIN j = DOMAIN NoJob, NEW stage, NEW step
  PROVE  /\ DOMAIN Go(j, stage, step) = DOMAIN NoJob
         /\ Go(j, stage, step).stage = stage /\ Go(j, stage, step).step = step
         /\ Go(j, stage, step).doc = j.doc /\ Go(j, stage, step).fill = j.fill
         /\ Go(j, stage, step).fd = j.fd
BY NoJobIs DEF Go

LEMMA NewJobIs ==
  ASSUME NEW stage, NEW step
  PROVE  /\ DOMAIN Go(NoJob, stage, step) = DOMAIN NoJob
         /\ Go(NoJob, stage, step).stage = stage /\ Go(NoJob, stage, step).step = step
BY GoIs

LEMMA OverIs ==
  ASSUME NEW stage
  PROVE  /\ DOMAIN Over(stage) = DOMAIN NoJob
         /\ Over(stage).stage = stage /\ Over(stage).step = ""
BY NoJobIs DEF Over

LEMMA StepIs ==
  ASSUME NEW j, DOMAIN j = DOMAIN NoJob, NEW step
  PROVE  LET k == [j EXCEPT !.step = step] IN
         /\ DOMAIN k = DOMAIN NoJob /\ k.stage = j.stage /\ k.step = step
         /\ k.doc = j.doc /\ k.fill = j.fill /\ k.fd = j.fd
BY NoJobIs

LEMMA LoadedIs ==
  ASSUME NEW j, DOMAIN j = DOMAIN NoJob, NEW doc, NEW rewrite \in BOOLEAN
  PROVE  /\ DOMAIN Loaded(j, doc, rewrite) = DOMAIN NoJob
         /\ Loaded(j, doc, rewrite).stage = j.stage
         /\ Loaded(j, doc, rewrite).doc = doc
         /\ Loaded(j, doc, rewrite).fill = rewrite
         /\ Loaded(j, doc, rewrite).step = IF rewrite THEN "save" ELSE "loaded"
BY NoJobIs DEF Loaded

LEMMA TagIs ==
  ASSUME PastIs, NEW tags
  PROVE  /\ DOMAIN Tag(tags) = DOMAIN past
         /\ Tag(tags).tags = past.tags \cup tags
         /\ Tag(tags).lost = past.lost /\ Tag(tags).redeemed = past.redeemed
BY DEF PastIs, Tag

\* What a load fills in keeps the shape of a document, and its history.
LEMMA FilledIs ==
  ASSUME NEW doc, IsDoc(doc), NEW fresh
  PROVE  IsDoc(Filled(doc, fresh)) /\ Filled(doc, fresh).log = doc.log
<1> DEFINE d1 == Migrate(doc)
           d2 == EnsurePools(d1)
<1>1. DOMAIN d1 = DOMAIN doc /\ d1.log = doc.log
  BY DEF Migrate
<1>2. DOMAIN d2 = DOMAIN d1 /\ d2.log = d1.log
  BY DEF EnsurePools
<1> HIDE DEF d1, d2
<1>3. DOMAIN EnsureIds(d2, fresh) = DOMAIN d2 /\ EnsureIds(d2, fresh).log = d2.log
  BY DEF EnsureIds
<1>4. Filled(doc, fresh) = EnsureIds(d2, fresh)
  BY DEF Filled, d1, d2
<1> QED BY <1>1, <1>2, <1>3, <1>4 DEF IsDoc

LEMMA DefaultDocIs == IsDoc(DefaultDoc) /\ DefaultDoc.log = {}
BY DEF IsDoc, DefaultDoc

LEMMA LoggedIs ==
  ASSUME NEW p, NEW doc
  PROVE  IsDoc(Logged(p, doc)) /\ Logged(p, doc).log = job[p].doc.log \cup {p}
BY DEF IsDoc, Logged

LEMMA Broken == ~IsDoc(Empty) /\ ~IsDoc(Torn) /\ ~IsDoc(Free) /\ ~IsDoc(Refused)
BY DEF IsDoc, Empty, Torn, Free, Refused

---------------------------------------------------------------------------
(* Inodes.                                                                 *)

LEMMA ThereIsAnInode == Inodes \ InUse # {}
<1> DEFINE fds == {job[p].fd : p \in All}
           F == [p \in All |-> job[p].fd]
<1>1. IsFiniteSet(All) /\ Cardinality(All) \in Nat
  <2>1. IsFiniteSet({Daemon})
    BY FS_Singleton
  <2>2. IsFiniteSet(All)
    BY <2>1, ProcsAssumption, FS_Union DEF All
  <2> QED BY <2>2, FS_CardinalityType
<1>2. IsFiniteSet(fds) /\ Cardinality(fds) <= Cardinality(All)
  <2>1. F \in Surjection(All, fds)
    BY DEF Surjection
  <2> QED BY <1>1, <2>1, FS_Surjection
<1>3. IsFiniteSet(fds \cup {temp}) /\ Cardinality(fds \cup {temp}) <= Cardinality(fds) + 1
  BY <1>2, FS_AddElement, FS_CardinalityType
<1>4. /\ IsFiniteSet((fds \cup {temp}) \cup {file})
      /\ Cardinality((fds \cup {temp}) \cup {file}) <= Cardinality(fds \cup {temp}) + 1
  <2> DEFINE both == fds \cup {temp}
  <2> HIDE DEF both
  <2>1. IsFiniteSet(both)
    BY <1>3 DEF both
  <2>2. /\ IsFiniteSet(both \cup {file})
        /\ Cardinality(both \cup {file}) \in {Cardinality(both), Cardinality(both) + 1}
    BY <2>1, FS_AddElement
  <2>3. Cardinality(both) \in Nat
    BY <2>1, FS_CardinalityType
  <2> QED BY <2>2, <2>3 DEF both
<1>5. InUse = (fds \cup {temp}) \cup {file}
  BY DEF InUse
<1>6. IsFiniteSet(InUse) /\ Cardinality(InUse) <= Cardinality(All) + 2
  <2>1. /\ Cardinality(fds) \in Nat /\ Cardinality(fds \cup {temp}) \in Nat
        /\ Cardinality((fds \cup {temp}) \cup {file}) \in Nat
    BY <1>2, <1>3, <1>4, FS_CardinalityType
  <2> QED BY <1>1, <1>2, <1>3, <1>4, <1>5, <2>1
<1>7. IsFiniteSet(Inodes) /\ Cardinality(Inodes) = Cardinality(All) + 3
  BY <1>1, FS_Interval DEF Inodes
<1> SUFFICES ASSUME Inodes \subseteq InUse PROVE FALSE
  OBVIOUS
<1>8. Cardinality(Inodes) <= Cardinality(InUse)
  BY <1>6, FS_Subset
<1> QED BY <1>1, <1>6, <1>7, <1>8, FS_CardinalityType

LEMMA UnusedIs == Unused \in Inodes /\ Unused \notin InUse
BY ThereIsAnInode DEF Unused

LEMMA PutIs ==
  ASSUME NEW n, NEW content
  PROVE  /\ Put(n, content) = [m \in Inodes |-> Put(n, content)[m]]
         /\ n \in Inodes => Put(n, content)[n] = content
         /\ \A m \in Inodes \cap InUse : m # n => Put(n, content)[m] = data[m]
BY DEF Put

---------------------------------------------------------------------------
(* Where a job goes after a load, a save or an error.                      *)

LEMMA AfterErrorIs ==
  ASSUME NEW p \in All
  PROVE  /\ DOMAIN AfterError(p) = DOMAIN NoJob
         /\ AfterError(p).step = ""
         /\ AfterError(p).stage = IF job[p].stage = "reload" THEN "done" ELSE "failed"
BY OverIs DEF AfterError

LEMMA AfterEditIs ==
  ASSUME NEW p \in All
  PROVE  /\ DOMAIN AfterEdit(p) = DOMAIN NoJob
         /\ AfterEdit(p).stage \in {"done", "handler", "reload", "notify"}
         /\ AfterEdit(p).step \in {"", "rekey", "read"}
         /\ AfterEdit(p).stage = "handler" => AfterEdit(p).step = "rekey"
         /\ AfterEdit(p).step = "read" => AfterEdit(p).stage = "reload"
<1>1. AfterEdit(p) \in {Over("done"), Go(NoJob, "handler", "rekey"),
                        Go(NoJob, "reload", "read"), Go(NoJob, "notify", "")}
  BY DEF AfterEdit
<1>2. /\ DOMAIN Over("done") = DOMAIN NoJob
      /\ Over("done").stage = "done" /\ Over("done").step = ""
  BY OverIs
<1>3. /\ DOMAIN Go(NoJob, "handler", "rekey") = DOMAIN NoJob
      /\ Go(NoJob, "handler", "rekey").stage = "handler"
      /\ Go(NoJob, "handler", "rekey").step = "rekey"
  BY NewJobIs
<1>4. /\ DOMAIN Go(NoJob, "reload", "read") = DOMAIN NoJob
      /\ Go(NoJob, "reload", "read").stage = "reload"
      /\ Go(NoJob, "reload", "read").step = "read"
  BY NewJobIs
<1>5. /\ DOMAIN Go(NoJob, "notify", "") = DOMAIN NoJob
      /\ Go(NoJob, "notify", "").stage = "notify"
      /\ Go(NoJob, "notify", "").step = ""
  BY NewJobIs
<1> QED BY <1>1, <1>2, <1>3, <1>4, <1>5

LEMMA SavedIs ==
  ASSUME NEW j, DOMAIN j = DOMAIN NoJob
  PROVE  LET k == [j EXCEPT !.step = "loaded", !.fill = FALSE, !.fd = 0] IN
         /\ DOMAIN k = DOMAIN NoJob /\ k.stage = j.stage /\ k.step = "loaded" /\ k.doc = j.doc
BY NoJobIs

\* A place where a job may stand that is not that of a login's start.
LEMMA NotAStart ==
  ASSUME NEW p \in All, Jobs,
         job[p].step \in {"read", "save", "write", "rename", "loaded", "lock", "publish", "build",
                          "rekey", "exchange", "create", "edit", "action", "login/submit",
                          "login/cancel", "token"}
         \/ job[p].stage = "notify"
  PROVE  cmd[p].op # "login/start"
<1>1. Fits(p, cmd[p].op, job[p])
  BY DEF Jobs
<1>2. Go(NoJob, "handler", "login/start").step = "login/start"
      /\ Go(NoJob, "handler", "login/start").stage = "handler"
  BY GoIs
<1>3. Over("done").stage = "done" /\ Over("done").step = ""
      /\ Over("failed").stage = "failed" /\ Over("failed").step = ""
  BY OverIs
<1>4. cmd[p].op = "login/start" =>
        job[p] \in {NoJob, Go(NoJob, "handler", "login/start"), Over("done"), Over("failed")}
  BY <1>1 DEF Fits
<1> QED BY <1>2, <1>3, <1>4, NoJobIs

LEMMA AfterSaveIs ==
  ASSUME Jobs, NEW p \in All, job[p].step \in {"save", "rename"}
  PROVE  LET j == AfterSave(p) IN
         /\ Fits(p, cmd[p].op, j)
         /\ ~Saving(j)
         /\ Inside(j) => Inside(job[p])
         /\ HasRead(j) => j.doc = job[p].doc
         /\ Inside(j) \/ job[p].stage # "edit" => job[p].fill
         /\ job[p].fill => (Reported(cmd[p].op, j) => Reported(cmd[p].op, job[p]))
         /\ j.stage = "edit" <=> Inside(j)
<1> DEFINE j == AfterSave(p)
           op == cmd[p].op
<1>1. Fits(p, op, job[p]) /\ op # "login/start"
  BY NotAStart DEF Jobs
<1>2. CASE job[p].fill
  <2>1. /\ DOMAIN j = DOMAIN NoJob /\ j.stage = job[p].stage /\ j.step = "loaded"
        /\ j.doc = job[p].doc
    BY <1>1, <1>2, SavedIs DEF AfterSave, Fits
  <2>2. Fits(p, op, j)
    BY <1>1, <2>1 DEF Fits, HasRead, Saving, ServerOps
  <2> QED BY <1>2, <2>1, <2>2 DEF Saving, Inside, HasRead, Reported
<1>3. CASE ~job[p].fill
  <2>1. j = AfterEdit(p)
    BY <1>3 DEF AfterSave
  <2>2. job[p].stage = "edit"
    BY <1>1, <1>3 DEF Fits
  <2>3. Fits(p, op, j)
    BY <1>1, <2>1, AfterEditIs DEF Fits, HasRead, Saving, ServerOps
  <2> QED BY <1>3, <2>1, <2>2, <2>3, AfterEditIs DEF Saving, Inside, HasRead
<1> QED BY <1>2, <1>3

---------------------------------------------------------------------------
(* Steps that change no file.                                              *)

LEMMA AcknowledgedIs == Acknowledged = {p \in Procs : Reported(cmd[p].op, job[p])}
BY DEF Acknowledged, Reported, AtStep

LEMMA SafeShrinks ==
  ASSUME UNCHANGED cmd, past.lost \subseteq past'.lost,
         \A q \in Procs : Reported(cmd[q].op, job'[q]) => Reported(cmd[q].op, job[q])
  PROVE  Safe' \subseteq Safe
<1>1. Acknowledged' = {q \in Procs : Reported(cmd'[q].op, job'[q])}
  BY DEF Acknowledged, Reported, AtStep
<1> QED BY <1>1, AcknowledgedIs DEF Safe

LEMMA QuietKeeps ==
  ASSUME Core, NEW p \in All, NEW j,
         job' = [job EXCEPT ![p] = j], UNCHANGED <<cmd, file, temp, data>>,
         Fits(p, cmd[p].op, j), ~Saving(j),
         Inside(j) => lock' = p,
         lock' = lock \/ lock \in {p, Nobody},
         DOMAIN past' = DOMAIN past, past'.lost = past.lost, past.tags \subseteq past'.tags,
         Reported(cmd[p].op, j) => Reported(cmd[p].op, job[p]),
         Inside(j) /\ HasRead(j) => Safe \subseteq j.doc.log
  PROVE  Core'
<1>1. job'[p] = j /\ \A q \in All : q # p => job'[q] = job[q]
  BY DEF Core, Jobs
<1>2. Jobs'
  <2>1. job' = [q \in All |-> job'[q]]
    BY DEF Core, Jobs
  <2>2. \A q \in All : Fits(q, cmd[q].op, job'[q])
    BY <1>1 DEF Core, Jobs
  <2> QED BY <2>1, <2>2 DEF Jobs
<1>3. OneInside'
  <2>1. \A q \in All : Inside(job'[q]) => lock' = q
    BY <1>1, ProcsAssumption DEF Core, OneInside, All
  <2> QED BY <2>1 DEF OneInside
<1>4. Files'
  BY DEF Core, Files
<1>5. TempIsOwn'
  <2> SUFFICES ASSUME "twin" \notin past'.tags, NEW q \in All, Saving(job'[q])
               PROVE  /\ temp # 0
                      /\ job'[q].step = "write" => job'[q].fd = temp /\ data[temp] = Empty
                      /\ job'[q].step = "rename" => data[temp] = job'[q].doc
                      /\ \A r \in All \ {q} : ~Saving(job'[r])
    BY DEF TempIsOwn
  <2>1. q # p /\ job'[q] = job[q] /\ "twin" \notin past.tags
    BY <1>1
  <2> QED BY <1>1, <2>1 DEF Core, TempIsOwn
<1>6. Safe' \subseteq Safe
  <2>1. \A q \in Procs : Reported(cmd[q].op, job'[q]) => Reported(cmd[q].op, job[q])
    BY <1>1 DEF All
  <2> QED BY <2>1, SafeShrinks
<1>7. ReadAll'
  <2>1. ASSUME NEW q \in All, Inside(job'[q]), HasRead(job'[q])
        PROVE  Safe' \subseteq job'[q].doc.log
    BY <1>1, <1>6, <2>1 DEF Core, ReadAll
  <2>2. file' = 0 => Safe' = {}
    BY <1>6 DEF Core, ReadAll
  <2> QED BY <2>1, <2>2 DEF ReadAll
<1>8. OnDisk' = OnDisk
  BY DEF OnDisk
<1>9. PastIs' /\ WholeFile' /\ UpdatesKept'
  BY <1>6, <1>8 DEF Core, PastIs, WholeFile, UpdatesKept, Safe
<1> QED BY <1>2, <1>3, <1>4, <1>5, <1>7, <1>9 DEF Core

LEMMA StartKeeps ==
  ASSUME Core, NEW p \in All, Start(p)
  PROVE  Core'
<1> DEFINE op == cmd[p].op
           j == Go(NoJob, First(op)[1], First(op)[2])
<1>1. /\ job' = [job EXCEPT ![p] = j]
      /\ UNCHANGED <<cmd, file, temp, data, lock, past>>
  BY DEF Start
<1>2. /\ DOMAIN j = DOMAIN NoJob /\ j.stage = First(op)[1] /\ j.step = First(op)[2]
  BY NewJobIs
<1>3. \/ First(op)[1] = "pre" /\ First(op)[2] = "read" /\ op \in LoadsFirst
      \/ First(op)[1] = "boot" /\ First(op)[2] = "read" /\ op = "server"
      \/ First(op)[1] = "handler" /\ First(op)[2] = op /\ op \in ServerOps /\ First(op) = <<"handler", op>>
      \/ First(op)[1] = "edit" /\ First(op)[2] = "lock" /\ op \notin ServerOps
  BY DEF First
<1>4. op = "login/start" => j = Go(NoJob, "handler", "login/start")
  BY DEF First, LoadsFirst, Obtains, ServerOps
<1> HIDE DEF j
<1>5. Fits(p, op, j)
  BY <1>2, <1>3, <1>4 DEF Fits, Saving, HasRead, LoadsFirst, Obtains, ServerOps
<1>6. ~Saving(j) /\ ~Inside(j) /\ ~Reported(op, j)
  BY <1>2, <1>3 DEF Saving, Inside, Reported, ServerOps
<1> QED BY <1>1, <1>5, <1>6, QuietKeeps

LEMMA LockKeeps ==
  ASSUME Core, NEW p \in All, Lock(p)
  PROVE  Core'
<1> DEFINE j == [job[p] EXCEPT !.step = "read"]
<1>1. /\ job[p].stage = "edit" /\ job[p].step = "lock" /\ lock = Nobody /\ lock' = p
      /\ job' = [job EXCEPT ![p] = j]
      /\ UNCHANGED <<cmd, file, temp, data, past>>
  BY DEF Lock, AtStep
<1>2. Fits(p, cmd[p].op, job[p]) /\ cmd[p].op # "login/start"
  BY <1>1, NotAStart DEF Core, Jobs
<1>3. DOMAIN j = DOMAIN NoJob /\ j.stage = "edit" /\ j.step = "read"
  BY <1>1, <1>2, StepIs DEF Fits
<1> HIDE DEF j
<1>4. Fits(p, cmd[p].op, j) /\ ~Saving(j) /\ ~HasRead(j) /\ ~Reported(cmd[p].op, j)
  BY <1>2, <1>3 DEF Fits, Saving, HasRead, Reported
<1> QED BY <1>1, <1>4, QuietKeeps

\* A load that succeeds hands out the edits that are in the file.
LEMMA AfterReadIs ==
  ASSUME Core, NEW p \in All, job[p].step = "read"
  PROVE  LET j == AfterRead(p) IN
         \/ j = AfterError(p)
         \/ /\ DOMAIN j = DOMAIN NoJob /\ j.stage = job[p].stage
            /\ j.step \in {"save", "loaded"} /\ (j.step = "save" => j.fill)
            /\ IsDoc(j.doc) /\ Safe \subseteq j.doc.log
<1> DEFINE j == AfterRead(p)
           filled == Filled(OnDisk, lastId + 1)
<1>1. Fits(p, cmd[p].op, job[p])
  BY DEF Core, Jobs
<1>2. DOMAIN job[p] = DOMAIN NoJob
  BY <1>1 DEF Fits
<1>3. CASE file = 0 /\ j \in {Loaded(job[p], DefaultDoc, FALSE), Loaded(job[p], DefaultDoc, TRUE)}
  <2>1. Safe = {}
    BY <1>3 DEF Core, ReadAll
  <2>2. PICK rewrite \in BOOLEAN : j = Loaded(job[p], DefaultDoc, rewrite)
    BY <1>3
  <2> QED BY <1>2, <2>1, <2>2, LoadedIs, DefaultDocIs
<1>4. CASE /\ file # 0 /\ IsDoc(OnDisk)
           /\ j = Loaded(job[p], filled, MustRewrite(OnDisk))
  <2>1. IsDoc(filled) /\ filled.log = OnDisk.log
    BY <1>4, FilledIs
  <2>2. Safe \subseteq OnDisk.log
    BY <1>4 DEF Core, UpdatesKept, Safe
  <2> DEFINE rewrite == IF MustRewrite(OnDisk) THEN TRUE ELSE FALSE
  <2>3. rewrite \in BOOLEAN /\ Loaded(job[p], filled, rewrite) = Loaded(job[p], filled, MustRewrite(OnDisk))
    <3>1. MustRewrite(OnDisk) \in BOOLEAN
      BY <1>4 DEF MustRewrite
    <3> QED BY <3>1
  <2> HIDE DEF rewrite, filled
  <2> QED BY <1>2, <1>4, <2>1, <2>2, <2>3, LoadedIs
<1>5. j = AfterError(p) \/ (file = 0 /\ j \in {Loaded(job[p], DefaultDoc, FALSE), Loaded(job[p], DefaultDoc, TRUE)})
      \/ (file # 0 /\ IsDoc(OnDisk) /\ j = Loaded(job[p], filled, MustRewrite(OnDisk)))
  BY DEF AfterRead
<1> QED BY <1>3, <1>4, <1>5

\* A job that fails, and what it had locked.
LEMMA ErrorFits ==
  ASSUME Jobs, NEW p \in All, cmd[p].op # "login/start"
  PROVE  /\ Fits(p, cmd[p].op, AfterError(p))
         /\ ~Saving(AfterError(p)) /\ ~Inside(AfterError(p)) /\ AfterError(p).stage # "edit"
         /\ Reported(cmd[p].op, AfterError(p)) => Reported(cmd[p].op, job[p])
BY AfterErrorIs DEF Fits, Saving, HasRead, Inside, Reported, ServerOps

LEMMA ReadKeeps ==
  ASSUME Core, NEW p \in All, Read(p)
  PROVE  Core'
<1> DEFINE j == AfterRead(p)
<1>1. /\ job[p].step = "read" /\ job' = [job EXCEPT ![p] = j] /\ lock' = Unlocked(p, j)
      /\ UNCHANGED <<cmd, file, temp, data>>
  BY DEF Read
<1>2. /\ cmd[p].op # "login/start" /\ Fits(p, cmd[p].op, job[p])
      /\ job[p].stage \in {"pre", "edit", "reload", "boot"}
  BY <1>1, NotAStart DEF Core, Jobs, Fits
<1>3. DOMAIN past' = DOMAIN past /\ past'.lost = past.lost /\ past.tags \subseteq past'.tags
  <2>1. PICK tags : past' = Tag(tags)
    BY DEF Read
  <2> QED BY <2>1, TagIs DEF Core
<1> HIDE DEF j
<1>4. CASE j = AfterError(p)
  <2>1. lock' = lock \/ lock = p
    BY <1>1 DEF Unlocked
  <2>2. /\ Fits(p, cmd[p].op, j) /\ ~Saving(j) /\ ~Inside(j)
        /\ Reported(cmd[p].op, j) => Reported(cmd[p].op, job[p])
    BY <1>2, <1>4, ErrorFits DEF Core
  <2> QED BY <1>1, <1>3, <2>1, <2>2, QuietKeeps
<1>5. CASE j # AfterError(p)
  <2>1. /\ DOMAIN j = DOMAIN NoJob /\ j.stage = job[p].stage
        /\ j.step \in {"save", "loaded"} /\ (j.step = "save" => j.fill)
        /\ IsDoc(j.doc) /\ Safe \subseteq j.doc.log
    BY <1>1, <1>5, AfterReadIs DEF j
  <2>2. Fits(p, cmd[p].op, j) /\ ~Saving(j)
    BY <1>2, <2>1 DEF Fits, Saving, HasRead, ServerOps
  <2>3. Reported(cmd[p].op, j) => Reported(cmd[p].op, job[p])
    BY <1>2, <2>1 DEF Reported
  <2>4. (Inside(j) => lock' = p) /\ (lock' = lock \/ lock = p)
    <3>1. Inside(j) => Inside(job[p])
      BY <1>1, <2>1 DEF Inside
    <3> QED BY <1>1, <2>1, <3>1 DEF Unlocked, Inside, Core, OneInside
  <2> QED BY <1>1, <1>3, <2>1, <2>2, <2>3, <2>4, QuietKeeps
<1> QED BY <1>4, <1>5

LEMMA AppliedIs ==
  ASSUME NEW j, DOMAIN j = DOMAIN NoJob, NEW doc
  PROVE  LET k == [j EXCEPT !.doc = doc, !.fill = FALSE, !.step = "save"] IN
         /\ DOMAIN k = DOMAIN NoJob /\ k.stage = j.stage /\ k.step = "save" /\ k.doc = doc
BY NoJobIs

LEMMA AppliedPast ==
  ASSUME NEW p, Apply(p)
  PROVE  \E tags, gone, rehomed : past' = [past EXCEPT !.tags = @ \cup tags, !.displaced = @ \cup gone, !.rehomed = @ \cup rehomed]
<1>1. PICK d \in {Edit(p, job[p].doc)} :
        past' = [past EXCEPT !.tags = @ \cup (IF cmd[p].op = "token" /\ d = job[p].doc THEN {"moved"} ELSE {})
                                        \cup (IF Older(job[p].doc, d) THEN {"older"} ELSE {}),
                             !.displaced = @ \cup Displaced(p, job[p].doc),
                             !.rehomed = @ \cup (IF d = Refused \/ cmd[p].op = "edit" THEN {}
                                                 ELSE Rehomed(job[p].doc, d))]
  BY DEF Apply
<1> DEFINE t1 == IF cmd[p].op = "token" /\ d = job[p].doc THEN {"moved"} ELSE {}
           t2 == IF Older(job[p].doc, d) THEN {"older"} ELSE {}
           gone == Displaced(p, job[p].doc)
           re == IF d = Refused \/ cmd[p].op = "edit" THEN {} ELSE Rehomed(job[p].doc, d)
<1>2. past' = [past EXCEPT !.tags = @ \cup t1 \cup t2, !.displaced = @ \cup gone, !.rehomed = @ \cup re]
  BY <1>1
<1> HIDE DEF t1, t2, gone, re
<1>3. (past.tags \cup t1) \cup t2 = past.tags \cup (t1 \cup t2)
  OBVIOUS
<1> QED BY <1>2, <1>3

LEMMA ApplyKeeps ==
  ASSUME Core, NEW p \in All, Apply(p)
  PROVE  Core'
<1>1. PICK doc :
        LET next == IF doc = Refused THEN AfterError(p)
                    ELSE [job[p] EXCEPT !.doc = Logged(p, doc), !.fill = FALSE, !.step = "save"]
        IN  job' = [job EXCEPT ![p] = next] /\ lock' = Unlocked(p, next)
  BY DEF Apply
<1>2. /\ job[p].stage = "edit" /\ job[p].step = "loaded"
      /\ UNCHANGED <<cmd, file, temp, data>>
  BY DEF Apply, AtStep
<1>3. cmd[p].op # "login/start" /\ Fits(p, cmd[p].op, job[p])
  BY <1>2, NotAStart DEF Core, Jobs
<1>4. DOMAIN past' = DOMAIN past /\ past'.lost = past.lost /\ past.tags \subseteq past'.tags
  <2>1. \E tags, gone, rehomed : past' = [past EXCEPT !.tags = @ \cup tags, !.displaced = @ \cup gone, !.rehomed = @ \cup rehomed]
    BY AppliedPast
  <2> QED BY <2>1 DEF Core, PastIs
<1>5. CASE doc = Refused
  BY <1>1, <1>2, <1>3, <1>4, <1>5, ErrorFits, QuietKeeps DEF Core, Unlocked
<1>6. CASE doc # Refused
  <2> DEFINE j == [job[p] EXCEPT !.doc = Logged(p, doc), !.fill = FALSE, !.step = "save"]
  <2>1. job' = [job EXCEPT ![p] = j] /\ lock' = Unlocked(p, j)
    BY <1>1, <1>6
  <2>2. /\ DOMAIN j = DOMAIN NoJob /\ j.stage = "edit" /\ j.step = "save"
        /\ j.doc = Logged(p, doc)
    BY <1>2, <1>3, AppliedIs DEF Fits
  <2> HIDE DEF j
  <2>3. IsDoc(j.doc) /\ j.doc.log = job[p].doc.log \cup {p}
    BY <2>2, LoggedIs
  <2>4. Fits(p, cmd[p].op, j) /\ ~Saving(j) /\ ~Reported(cmd[p].op, j)
    BY <1>3, <2>2, <2>3 DEF Fits, Saving, HasRead, Reported
  <2>5. lock = p /\ Safe \subseteq job[p].doc.log
    BY <1>2 DEF Core, OneInside, ReadAll, Inside, HasRead
  <2>6. lock' = p
    BY <2>1, <2>2, <2>5 DEF Unlocked
  <2> QED BY <1>2, <1>4, <2>1, <2>3, <2>4, <2>5, <2>6, QuietKeeps
<1> QED BY <1>5, <1>6

LEMMA RenameFailsKeeps ==
  ASSUME Core, NEW p \in All, RenameFails(p)
  PROVE  Core'
<1> DEFINE j == IF job[p].fill THEN AfterSave(p) ELSE AfterError(p)
<1>1. /\ job[p].step = "rename" /\ job' = [job EXCEPT ![p] = j] /\ lock' = Unlocked(p, j)
      /\ UNCHANGED <<cmd, file, temp, data, past>>
  BY DEF RenameFails
<1>2. cmd[p].op # "login/start"
  BY <1>1, NotAStart DEF Core
<1>3. CASE job[p].fill
  <2>1. j = AfterSave(p)
    BY <1>3
  <2> HIDE DEF j
  <2>2. /\ Fits(p, cmd[p].op, j) /\ ~Saving(j) /\ (Inside(j) => Inside(job[p]))
        /\ HasRead(j) => j.doc = job[p].doc
        /\ Reported(cmd[p].op, j) => Reported(cmd[p].op, job[p])
        /\ j.stage = "edit" <=> Inside(j)
    BY <1>1, <1>3, <2>1, AfterSaveIs DEF Core
  <2>3. Inside(j) => lock' = p
    BY <1>1, <2>2 DEF Unlocked, Core, OneInside
  <2>4. Inside(j) /\ HasRead(j) => Safe \subseteq j.doc.log
    BY <1>1, <2>2 DEF Core, ReadAll, HasRead
  <2> QED BY <1>1, <2>2, <2>3, <2>4, QuietKeeps DEF Unlocked
<1>4. CASE ~job[p].fill
  BY <1>1, <1>2, <1>4, ErrorFits, QuietKeeps DEF Core, Unlocked
<1> QED BY <1>3, <1>4

\* The steps that only move a job on: what has to be known of where it goes.
LEMMA MoveKeeps ==
  ASSUME Core, NEW p \in All, NEW j,
         job' = [job EXCEPT ![p] = j], UNCHANGED <<cmd, file, temp, data, lock>>,
         Fits(p, cmd[p].op, j), ~Saving(j), ~Inside(j),
         Reported(cmd[p].op, j) => Reported(cmd[p].op, job[p]),
         past' = past \/ \E tags : past' = Tag(tags)
  PROVE  Core'
<1>1. DOMAIN past' = DOMAIN past /\ past'.lost = past.lost /\ past.tags \subseteq past'.tags
  <2>1. CASE past' = past
    BY <2>1
  <2>2. CASE \E tags : past' = Tag(tags)
    BY <2>2, TagIs DEF Core
  <2> QED BY <2>1, <2>2
<1> QED BY <1>1, QuietKeeps

\* A new job at the lock, or one that is over: it fits wherever it comes from.
LEMMA FreshFits ==
  ASSUME NEW p \in All, NEW op, op # "login/start", NEW j, DOMAIN j = DOMAIN NoJob,
         \/ j.stage = "edit" /\ j.step = "lock"
         \/ j.stage = "reload" /\ j.step \in {"read", "publish"}
         \/ j.stage = "handler" /\ j.step = "exchange"
         \/ j.stage = "boot" /\ j.step = "build"
         \/ j.stage \in {"done", "failed", "serving"} /\ j.step = ""
  PROVE  Fits(p, op, j) /\ ~Saving(j) /\ ~Inside(j)
BY DEF Fits, Saving, Inside, HasRead, ServerOps

\* Where a step of a handler can be, its command is of that kind.
LEMMA HandlerIs ==
  ASSUME Jobs, NEW p \in All, job[p].stage = "handler", job[p].step \in ServerOps
  PROVE  cmd[p].op = job[p].step
BY DEF Jobs, Fits

LEMMA ObtainKeeps ==
  ASSUME Core, NEW p \in All, Obtain(p)
  PROVE  Core'
<1>1. PICK name : job' = [job EXCEPT ![p] = [NoJob EXCEPT !.stage = "edit", !.step = "lock",
                                                !.fresh = job[p].fresh, !.tok = clock + 1, !.name = name]]
  BY DEF Obtain
<1> DEFINE j == [NoJob EXCEPT !.stage = "edit", !.step = "lock",
                              !.fresh = job[p].fresh, !.tok = clock + 1, !.name = name]
<1>2. DOMAIN j = DOMAIN NoJob /\ j.stage = "edit" /\ j.step = "lock"
  BY NoJobIs
<1>3. job' = [job EXCEPT ![p] = j] /\ UNCHANGED <<cmd, file, temp, data, lock, past>>
  BY <1>1 DEF Obtain
<1>4. cmd[p].op # "login/start"
  BY DEF Obtain, Obtains
<1> HIDE DEF j
<1>5. ~Reported(cmd[p].op, j)
  BY <1>2 DEF Reported
<1> QED BY <1>2, <1>3, <1>4, <1>5, FreshFits, MoveKeeps

LEMMA ShowKeeps ==
  ASSUME Core, NEW p \in All, Show(p)
  PROVE  Core'
<1>1. /\ job' = [job EXCEPT ![p] = Over("done")] /\ cmd[p].op = "status"
      /\ UNCHANGED <<cmd, file, temp, data, lock, past>>
  BY DEF Show
<1>2. ~Reported(cmd[p].op, Over("done"))
  BY <1>1 DEF Reported
<1> QED BY <1>1, <1>2, OverIs, FreshFits, MoveKeeps

LEMMA NotifyKeeps ==
  ASSUME Core, NEW p \in All, Notify(p)
  PROVE  Core'
<1> DEFINE j == IF up = "serving" THEN Go(NoJob, "reload", "read") ELSE Over("done")
<1>1. /\ job[p].stage = "notify" /\ job' = [job EXCEPT ![p] = j]
      /\ UNCHANGED <<cmd, file, temp, data, lock>>
  BY DEF Notify
<1>2. \E tags : past' = Tag(tags)
  BY DEF Notify
<1>3. cmd[p].op # "login/start"
  BY <1>1, NotAStart DEF Core
<1>4. DOMAIN j = DOMAIN NoJob
      /\ ((j.stage = "reload" /\ j.step = "read") \/ (j.stage = "done" /\ j.step = ""))
  <2>1. /\ DOMAIN Go(NoJob, "reload", "read") = DOMAIN NoJob
        /\ Go(NoJob, "reload", "read").stage = "reload"
        /\ Go(NoJob, "reload", "read").step = "read"
    BY NewJobIs
  <2>2. /\ DOMAIN Over("done") = DOMAIN NoJob
        /\ Over("done").stage = "done" /\ Over("done").step = ""
    BY OverIs
  <2>3. j = Go(NoJob, "reload", "read") \/ j = Over("done")
    OBVIOUS
  <2> HIDE DEF j
  <2> QED BY <2>1, <2>2, <2>3
<1>5. Reported(cmd[p].op, j) => Reported(cmd[p].op, job[p])
  BY <1>1 DEF Reported
<1> HIDE DEF j
<1> QED BY <1>1, <1>2, <1>3, <1>4, <1>5, FreshFits, MoveKeeps

LEMMA SyncPoolsKeeps ==
  ASSUME Core, NEW p \in All, SyncPools(p)
  PROVE  Core'
<1> DEFINE j == [job[p] EXCEPT !.step = "publish"]
<1>1. /\ job[p].stage = "reload" /\ job[p].step = "loaded" /\ job' = [job EXCEPT ![p] = j]
      /\ UNCHANGED <<cmd, file, temp, data, lock>>
  BY DEF SyncPools, AtStep
<1>2. \E tags : past' = Tag(tags)
  BY DEF SyncPools
<1>3. cmd[p].op # "login/start" /\ DOMAIN job[p] = DOMAIN NoJob
  BY <1>1, NotAStart DEF Core, Jobs, Fits
<1>4. DOMAIN j = DOMAIN NoJob /\ j.stage = "reload" /\ j.step = "publish"
  BY <1>1, <1>3, StepIs
<1> HIDE DEF j
<1>5. Reported(cmd[p].op, j) => Reported(cmd[p].op, job[p])
  BY <1>1 DEF Reported
<1> QED BY <1>1, <1>2, <1>3, <1>4, <1>5, FreshFits, MoveKeeps

LEMMA PublishKeeps ==
  ASSUME Core, NEW p \in All, Publish(p)
  PROVE  Core'
<1>1. /\ job[p].stage = "reload" /\ job[p].step = "publish"
      /\ job' = [job EXCEPT ![p] = Over("done")]
      /\ UNCHANGED <<cmd, file, temp, data, lock, past>>
  BY DEF Publish, AtStep
<1>2. cmd[p].op # "login/start"
  BY <1>1, NotAStart DEF Core
<1>3. Reported(cmd[p].op, Over("done")) => Reported(cmd[p].op, job[p])
  BY <1>1 DEF Reported
<1> QED BY <1>1, <1>2, <1>3, OverIs, FreshFits, MoveKeeps

---------------------------------------------------------------------------
(* The steps of the control plane.                                         *)

LEMMA CheckKeeps ==
  ASSUME Core, NEW p \in All, Check(p)
  PROVE  Core'
<1> DEFINE j == IF (cmd[p].pool \in DOMAIN live.pools) = (cmd[p].op # "create")
                THEN Go(NoJob, "edit", "lock") ELSE Over("failed")
<1>1. /\ job[p].step \in {"create", "edit", "action"} /\ job' = [job EXCEPT ![p] = j]
      /\ UNCHANGED <<cmd, file, temp, data, lock, past>>
  BY DEF Check
<1>2. cmd[p].op # "login/start"
  BY <1>1, NotAStart DEF Core
<1>3. DOMAIN j = DOMAIN NoJob
      /\ ((j.stage = "edit" /\ j.step = "lock") \/ (j.stage = "failed" /\ j.step = ""))
  <2>1. /\ DOMAIN Go(NoJob, "edit", "lock") = DOMAIN NoJob
        /\ Go(NoJob, "edit", "lock").stage = "edit" /\ Go(NoJob, "edit", "lock").step = "lock"
    BY NewJobIs
  <2>2. /\ DOMAIN Over("failed") = DOMAIN NoJob
        /\ Over("failed").stage = "failed" /\ Over("failed").step = ""
    BY OverIs
  <2>3. j = Go(NoJob, "edit", "lock") \/ j = Over("failed")
    OBVIOUS
  <2> HIDE DEF j
  <2> QED BY <2>1, <2>2, <2>3
<1> HIDE DEF j
<1>4. ~Reported(cmd[p].op, j)
  BY <1>3 DEF Reported
<1> QED BY <1>1, <1>2, <1>3, <1>4, FreshFits, MoveKeeps

LEMMA RekeyPoolKeeps ==
  ASSUME Core, NEW p \in All, RekeyPool(p)
  PROVE  Core'
<1> DEFINE j == Go(NoJob, "reload", "read")
<1>1. /\ job[p].stage = "handler" /\ job[p].step = "rekey" /\ job' = [job EXCEPT ![p] = j]
      /\ UNCHANGED <<cmd, file, temp, data, lock>>
  BY DEF RekeyPool, AtStep
<1>2. \E tags : past' = Tag(tags)
  BY DEF RekeyPool
<1>3. cmd[p].op # "login/start"
  BY <1>1, NotAStart DEF Core
<1>4. DOMAIN j = DOMAIN NoJob /\ j.stage = "reload" /\ j.step = "read"
  BY NewJobIs
<1> HIDE DEF j
<1>5. Reported(cmd[p].op, j) => Reported(cmd[p].op, job[p])
  BY <1>1 DEF Reported
<1> QED BY <1>1, <1>2, <1>3, <1>4, <1>5, FreshFits, MoveKeeps

\* The answer to a login's start or cancellation is no edit.
LEMMA LoginStartKeeps ==
  ASSUME Core, NEW p \in All, LoginStart(p)
  PROVE  Core'
<1>1. /\ job[p].stage = "handler" /\ job[p].step = "login/start"
      /\ job' = [job EXCEPT ![p] = Over("done")]
      /\ UNCHANGED <<cmd, file, temp, data, lock, past>>
  BY DEF LoginStart, AtStep
<1>2. cmd[p].op = "login/start"
  BY <1>1, HandlerIs DEF Core, ServerOps
<1>3. DOMAIN Over("done") = DOMAIN NoJob /\ Over("done").stage = "done" /\ Over("done").step = ""
  BY OverIs
<1>4. Fits(p, cmd[p].op, Over("done")) /\ ~Saving(Over("done")) /\ ~Inside(Over("done"))
  BY <1>2, <1>3 DEF Fits, Saving, Inside, HasRead
<1>5. ~Reported(cmd[p].op, Over("done"))
  BY <1>2 DEF Reported
<1> QED BY <1>1, <1>4, <1>5, MoveKeeps

LEMMA LoginCancelKeeps ==
  ASSUME Core, NEW p \in All, LoginCancel(p)
  PROVE  Core'
<1>1. /\ job[p].stage = "handler" /\ job[p].step = "login/cancel"
      /\ job' = [job EXCEPT ![p] = Over("done")]
      /\ UNCHANGED <<cmd, file, temp, data, lock, past>>
  BY DEF LoginCancel, AtStep
<1>2. cmd[p].op = "login/cancel"
  BY <1>1, HandlerIs DEF Core, ServerOps
<1>3. ~Reported(cmd[p].op, Over("done"))
  BY <1>2 DEF Reported
<1> QED BY <1>1, <1>2, <1>3, OverIs, FreshFits, MoveKeeps

\* A step of a login or a token write that only changes the history's other
\* fields.
LEMMA OtherPastKeeps ==
  ASSUME Core, NEW p \in All, NEW j,
         job' = [job EXCEPT ![p] = j], UNCHANGED <<cmd, file, temp, data, lock>>,
         cmd[p].op # "login/start", DOMAIN j = DOMAIN NoJob,
         \/ j.stage = "edit" /\ j.step = "lock"
         \/ j.stage = "handler" /\ j.step = "exchange"
         \/ j.stage = "failed" /\ j.step = "",
         DOMAIN past' = DOMAIN past, past'.lost = past.lost, past'.tags = past.tags
  PROVE  Core'
<1>1. Fits(p, cmd[p].op, j) /\ ~Saving(j) /\ ~Inside(j)
  BY FreshFits
<1>2. ~Reported(cmd[p].op, j)
  BY DEF Reported
<1> QED BY <1>1, <1>2, QuietKeeps

LEMMA TakeFlowKeeps ==
  ASSUME Core, NEW p \in All, TakeFlow(p)
  PROVE  Core'
<1> DEFINE j == IF flows[cmd[p].flow] = "pending" THEN Go(NoJob, "handler", "exchange")
                ELSE Over("failed")
<1>1. /\ job[p].step = "login/submit" /\ job' = [job EXCEPT ![p] = j]
      /\ UNCHANGED <<cmd, file, temp, data, lock>>
      /\ past' = IF flows[cmd[p].flow] = "pending" THEN [past EXCEPT !.redeemed[cmd[p].flow] = @ + 1] ELSE past
  BY DEF TakeFlow, AtStep
<1>2. cmd[p].op # "login/start"
  BY <1>1, NotAStart DEF Core
<1>3. DOMAIN j = DOMAIN NoJob
      /\ ((j.stage = "handler" /\ j.step = "exchange") \/ (j.stage = "failed" /\ j.step = ""))
  <2>1. /\ DOMAIN Go(NoJob, "handler", "exchange") = DOMAIN NoJob
        /\ Go(NoJob, "handler", "exchange").stage = "handler"
        /\ Go(NoJob, "handler", "exchange").step = "exchange"
    BY NewJobIs
  <2>2. /\ DOMAIN Over("failed") = DOMAIN NoJob
        /\ Over("failed").stage = "failed" /\ Over("failed").step = ""
    BY OverIs
  <2>3. j = Go(NoJob, "handler", "exchange") \/ j = Over("failed")
    OBVIOUS
  <2> HIDE DEF j
  <2> QED BY <2>1, <2>2, <2>3
<1>4. DOMAIN past' = DOMAIN past /\ past'.lost = past.lost /\ past'.tags = past.tags
  BY <1>1 DEF Core, PastIs
<1> HIDE DEF j
<1> QED BY <1>1, <1>2, <1>3, <1>4, OtherPastKeeps

LEMMA ExchangeKeeps ==
  ASSUME Core, NEW p \in All, Exchange(p)
  PROVE  Core'
<1>1. /\ job[p].step = "exchange" /\ UNCHANGED <<cmd, file, temp, data, lock>>
      /\ past' \in {past, [past EXCEPT !.nameless = @ \cup {p}]}
  BY DEF Exchange, AtStep
<1>2. cmd[p].op # "login/start"
  BY <1>1, NotAStart DEF Core
<1>3. DOMAIN past' = DOMAIN past /\ past'.lost = past.lost /\ past'.tags = past.tags
  BY <1>1 DEF Core, PastIs
<1>4. CASE \E name : Issued(p, name)
  <2>1. PICK name : Issued(p, name)
    BY <1>4
  <2> DEFINE j == [NoJob EXCEPT !.stage = "edit", !.step = "lock", !.tok = clock + 1, !.name = name]
  <2>2. job' = [job EXCEPT ![p] = j]
    BY <2>1 DEF Issued
  <2>3. DOMAIN j = DOMAIN NoJob /\ j.stage = "edit" /\ j.step = "lock"
    BY NoJobIs
  <2> HIDE DEF j
  <2> QED BY <1>1, <1>2, <1>3, <2>2, <2>3, OtherPastKeeps
<1>5. CASE job' = [job EXCEPT ![p] = Over("failed")]
  <2> DEFINE j == Over("failed")
  <2>1. DOMAIN j = DOMAIN NoJob /\ j.stage = "failed" /\ j.step = ""
    BY OverIs
  <2>2. job' = [job EXCEPT ![p] = j]
    BY <1>5
  <2> HIDE DEF j
  <2> QED BY <1>1, <1>2, <1>3, <2>1, <2>2, OtherPastKeeps
<1> QED BY <1>4, <1>5 DEF Exchange

LEMMA RotateKeeps ==
  ASSUME Core, NEW p \in All, Rotate(p)
  PROVE  Core'
<1>1. job[p].step = "token" /\ UNCHANGED <<cmd, file, temp, data, lock, past>>
  BY DEF Rotate, AtStep
<1>2. cmd[p].op # "login/start"
  BY <1>1, NotAStart DEF Core
<1>3. CASE job' = [job EXCEPT ![p] = Over("failed")]
  BY <1>1, <1>2, <1>3, OverIs, OtherPastKeeps
<1>4. CASE \E pool : job' = [job EXCEPT ![p] = [NoJob EXCEPT !.stage = "edit", !.step = "lock",
                                !.tok = clock + 1, !.pool = pool, !.id = cmd[p].id]]
  <2>1. PICK pool : job' = [job EXCEPT ![p] = [NoJob EXCEPT !.stage = "edit", !.step = "lock",
                                !.tok = clock + 1, !.pool = pool, !.id = cmd[p].id]]
    BY <1>4
  <2> DEFINE j == [NoJob EXCEPT !.stage = "edit", !.step = "lock",
                                !.tok = clock + 1, !.pool = pool, !.id = cmd[p].id]
  <2>2. job' = [job EXCEPT ![p] = j]
    BY <2>1
  <2>3. DOMAIN j = DOMAIN NoJob /\ j.stage = "edit" /\ j.step = "lock"
    BY NoJobIs
  <2> HIDE DEF j
  <2> QED BY <1>1, <1>2, <2>2, <2>3, OtherPastKeeps
<1> QED BY <1>3, <1>4 DEF Rotate

---------------------------------------------------------------------------
(* The life of the server, and a command that is interrupted.              *)

LEMMA BindKeeps ==
  ASSUME Core, Bind
  PROVE  Core'
<1> DEFINE p == Daemon
           j == [job[p] EXCEPT !.step = "build"]
<1>1. /\ p \in All /\ job[p].stage = "boot" /\ job[p].step = "loaded"
      /\ job' = [job EXCEPT ![p] = j]
      /\ UNCHANGED <<cmd, file, temp, data, lock, past>>
  BY DEF Bind, AtStep, All
<1>2. cmd[p].op # "login/start" /\ DOMAIN job[p] = DOMAIN NoJob
  BY <1>1, NotAStart DEF Core, Jobs, Fits
<1>3. DOMAIN j = DOMAIN NoJob /\ j.stage = "boot" /\ j.step = "build"
  BY <1>1, <1>2, StepIs
<1> HIDE DEF j
<1>4. ~Reported(cmd[p].op, j)
  BY <1>3 DEF Reported
<1> QED BY <1>1, <1>2, <1>3, <1>4, FreshFits, MoveKeeps

LEMMA ServeKeeps ==
  ASSUME Core, Serve
  PROVE  Core'
<1>1. /\ Daemon \in All /\ job[Daemon].stage = "boot" /\ job[Daemon].step = "build"
      /\ job' = [job EXCEPT ![Daemon] = Over("serving")]
      /\ UNCHANGED <<cmd, file, temp, data, lock>>
  BY DEF Serve, AtStep, All
<1>2. cmd[Daemon].op # "login/start"
  BY <1>1, NotAStart DEF Core
<1>3. DOMAIN Over("serving") = DOMAIN NoJob
      /\ Over("serving").stage = "serving" /\ Over("serving").step = ""
  BY OverIs
<1>4. /\ Fits(Daemon, cmd[Daemon].op, Over("serving"))
      /\ ~Saving(Over("serving")) /\ ~Inside(Over("serving"))
  BY <1>1, <1>2, <1>3, FreshFits
<1>5. ~Reported(cmd[Daemon].op, Over("serving"))
  BY <1>3 DEF Reported
<1>6. DOMAIN past' = DOMAIN past /\ past'.lost = past.lost /\ past.tags \subseteq past'.tags
  BY DEF Serve, Core, PastIs
<1> QED BY <1>1, <1>4, <1>5, <1>6, QuietKeeps

LEMMA KillKeeps ==
  ASSUME Core, NEW p \in All, Kill(p)
  PROVE  Core'
<1>1. /\ job[p].stage \in {"pre", "edit", "notify"}
      /\ job' = [job EXCEPT ![p] = Over("failed")]
      /\ lock' = IF lock = p THEN Nobody ELSE lock
      /\ UNCHANGED <<cmd, file, temp, data>>
  BY DEF Kill
<1>2. PICK tags : past' = Tag(tags)
  BY DEF Kill
<1>3. DOMAIN past' = DOMAIN past /\ past'.lost = past.lost /\ past.tags \subseteq past'.tags
  BY <1>2, TagIs DEF Core
<1>4. DOMAIN Over("failed") = DOMAIN NoJob
      /\ Over("failed").stage = "failed" /\ Over("failed").step = ""
  BY OverIs
<1>5. Fits(p, cmd[p].op, Over("failed"))
  BY <1>4 DEF Fits, Saving, HasRead, ServerOps
<1>6. /\ ~Saving(Over("failed")) /\ ~Inside(Over("failed"))
      /\ ~Reported(cmd[p].op, Over("failed"))
  BY <1>4 DEF Saving, Inside, Reported
<1> QED BY <1>1, <1>3, <1>5, <1>6, QuietKeeps

\* A task of the server that the end of the process takes with it.
Dies(p) == ~(job[p].stage = "start" \/ Ended(p) \/ ~InServer(p))

LEMMA DownKeeps ==
  ASSUME Core, Down
  PROVE  Core'
<1> DEFINE dead(p) == IF cmd[p].op \in ServerOps THEN Over("failed") ELSE Over("done")
<1>1. /\ job' = [p \in All |-> IF p = Daemon THEN NoJob ELSE IF Dies(p) THEN dead(p) ELSE job[p]]
      /\ lock' = IF lock \in All /\ InServer(lock) THEN Nobody ELSE lock
      /\ temp' = 0
      /\ UNCHANGED <<cmd, file, data, past>>
  BY DEF Down, Dies
<1>2. /\ DOMAIN Over("failed") = DOMAIN NoJob
      /\ Over("failed").stage = "failed" /\ Over("failed").step = ""
      /\ DOMAIN Over("done") = DOMAIN NoJob
      /\ Over("done").stage = "done" /\ Over("done").step = ""
  BY OverIs
<1>3. ASSUME NEW p \in All
      PROVE  job'[p] \in {NoJob, Over("failed"), Over("done"), job[p]}
  BY <1>1
<1>4. ASSUME NEW p \in All
      PROVE  /\ Fits(p, cmd[p].op, job'[p]) /\ ~Saving(job'[p])
             /\ Inside(job'[p]) \/ HasRead(job'[p]) => job'[p] = job[p]
             /\ Inside(job'[p]) => ~InServer(p)
  <2>1. Fits(p, cmd[p].op, NoJob) /\ ~Saving(NoJob) /\ ~Inside(NoJob) /\ ~HasRead(NoJob)
    BY NoJobIs DEF Fits, Saving, Inside, HasRead, ServerOps
  <2>2. /\ Fits(p, cmd[p].op, Over("failed")) /\ ~Saving(Over("failed"))
        /\ ~Inside(Over("failed")) /\ ~HasRead(Over("failed"))
    BY <1>2 DEF Fits, Saving, Inside, HasRead, ServerOps
  <2>3. /\ Fits(p, cmd[p].op, Over("done")) /\ ~Saving(Over("done"))
        /\ ~Inside(Over("done")) /\ ~HasRead(Over("done"))
    BY <1>2 DEF Fits, Saving, Inside, HasRead, ServerOps
  <2>4. CASE job'[p] \in {NoJob, Over("failed"), Over("done")}
    BY <2>1, <2>2, <2>3, <2>4
  <2>5. CASE job'[p] = job[p] /\ p # Daemon /\ ~Dies(p)
    <3>1. Fits(p, cmd[p].op, job[p])
      BY DEF Core, Jobs
    <3>2. ~Saving(job[p])
      BY <2>5, <3>1 DEF Dies, Ended, InServer, Fits, Saving
    <3>3. Inside(job[p]) => ~InServer(p)
      BY <2>5 DEF Dies, Ended, Inside
    <3> QED BY <2>5, <3>1, <3>2, <3>3
  <2> QED BY <1>1, <2>4, <2>5
<1>5. Jobs'
  <2>1. job' = [p \in All |-> job'[p]]
    BY <1>1, Zenon
  <2> QED BY <1>1, <1>4, <2>1 DEF Jobs
<1>6. OneInside'
  <2>1. ASSUME NEW p \in All, Inside(job'[p])
        PROVE  lock' = p
    BY <1>1, <1>4, <2>1 DEF Core, OneInside
  <2> QED BY <2>1 DEF OneInside
<1>7. Files' /\ TempIsOwn' /\ PastIs'
  BY <1>1, <1>4 DEF Core, Files, TempIsOwn, PastIs
<1>8. Safe' \subseteq Safe
  <2>1. ASSUME NEW q \in Procs, Reported(cmd[q].op, job'[q])
        PROVE  Reported(cmd[q].op, job[q])
    <3>1. q \in All /\ q # Daemon
      BY ProcsAssumption DEF All
    <3>2. CASE Dies(q)
      <4>1. cmd[q].op \notin ServerOps
        BY <1>1, <1>2, <2>1, <3>1, <3>2 DEF Reported
      <4>2. job[q].stage = "reload"
        BY <3>2, <4>1 DEF Dies, InServer
      <4> QED BY <2>1, <4>2 DEF Reported
    <3>3. CASE ~Dies(q)
      BY <1>1, <2>1, <3>1, <3>3
    <3> QED BY <3>2, <3>3
  <2> QED BY <1>1, <2>1, SafeShrinks
<1>9. ReadAll'
  <2>1. ASSUME NEW p \in All, Inside(job'[p]), HasRead(job'[p])
        PROVE  Safe' \subseteq job'[p].doc.log
    BY <1>4, <1>8, <2>1 DEF Core, ReadAll
  <2>2. file' = 0 => Safe' = {}
    BY <1>1, <1>8 DEF Core, ReadAll
  <2> QED BY <2>1, <2>2 DEF ReadAll
<1>10. OnDisk' = OnDisk
  BY <1>1 DEF OnDisk
<1>11. WholeFile' /\ UpdatesKept'
  BY <1>1, <1>8, <1>10 DEF Core, WholeFile, UpdatesKept, Safe
<1> QED BY <1>5, <1>6, <1>7, <1>9, <1>11 DEF Core

---------------------------------------------------------------------------
(* Saves.                                                                  *)

LEMMA StaleIs ==
  ASSUME NEW j, DOMAIN j = DOMAIN NoJob
  PROVE  LET k == [j EXCEPT !.fresh = FALSE] IN
         /\ DOMAIN k = DOMAIN NoJob /\ k.stage = j.stage /\ k.step = j.step
         /\ k.doc = j.doc /\ k.fill = j.fill /\ k.fd = j.fd
BY NoJobIs

\* A new content makes what the others have read old, and changes nothing else
\* of them.
LEMMA AgedIs ==
  ASSUME Jobs, NEW p \in All, NEW next, job' = Aged(p, next)
  PROVE  /\ job' = [q \in All |-> job'[q]]
         /\ job'[p] = next
         /\ \A q \in All \ {p} :
              /\ Fits(q, cmd[q].op, job'[q])
              /\ job'[q].stage = job[q].stage /\ job'[q].step = job[q].step
              /\ job'[q].doc = job[q].doc /\ job'[q].fd = job[q].fd
<1>1. /\ job' = [q \in All |-> job'[q]] /\ job'[p] = next
      /\ \A q \in All \ {p} :
           job'[q] = IF job[q].doc = Refused /\ job[q].name = <<>> THEN job[q]
                     ELSE [job[q] EXCEPT !.fresh = FALSE]
  BY DEF Aged
<1>2. ASSUME NEW q \in All \ {p}
      PROVE  /\ Fits(q, cmd[q].op, job'[q])
             /\ job'[q].stage = job[q].stage /\ job'[q].step = job[q].step
             /\ job'[q].doc = job[q].doc /\ job'[q].fd = job[q].fd
  <2> DEFINE k == [job[q] EXCEPT !.fresh = FALSE]
  <2>1. Fits(q, cmd[q].op, job[q])
    BY DEF Jobs
  <2>2. CASE job'[q] = job[q]
    BY <2>1, <2>2
  <2>3. CASE job'[q] = k /\ ~(job[q].doc = Refused /\ job[q].name = <<>>)
    <3>1. /\ DOMAIN k = DOMAIN NoJob /\ k.stage = job[q].stage /\ k.step = job[q].step
          /\ k.doc = job[q].doc /\ k.fill = job[q].fill /\ k.fd = job[q].fd
      BY <2>1, StaleIs DEF Fits
    <3> HIDE DEF k
    <3>2. cmd[q].op # "login/start"
      <4>1. /\ Go(NoJob, "handler", "login/start").doc = Refused
            /\ Go(NoJob, "handler", "login/start").name = <<>>
            /\ Over("done").doc = Refused /\ Over("done").name = <<>>
            /\ Over("failed").doc = Refused /\ Over("failed").name = <<>>
        BY NoJobIs DEF Go, Over
      <4>2. cmd[q].op = "login/start" =>
              job[q] \in {NoJob, Go(NoJob, "handler", "login/start"), Over("done"), Over("failed")}
        BY <2>1 DEF Fits
      <4> QED BY <2>3, <4>1, <4>2, NoJobIs
    <3>3. Fits(q, cmd[q].op, k)
      BY <2>1, <3>1, <3>2 DEF Fits, Saving, HasRead
    <3> QED BY <2>3, <3>1, <3>3
  <2> QED BY <1>1, <2>2, <2>3
<1> QED BY <1>1, <1>2

LEMMA OverwritesIs ==
  ASSUME PastIs, NEW p \in All, NEW doc, past' = Overwrites(p, doc)
  PROVE  /\ DOMAIN past' = DOMAIN past /\ past.tags \subseteq past'.tags
         /\ past.lost \subseteq past'.lost
         /\ IsDoc(doc) /\ (job[p].fill \/ "twin" \in past.tags) =>
              /\ Acknowledged \ past'.lost \subseteq doc.log
              /\ ~job[p].fill => p \in past'.lost \cup doc.log
         /\ past'.redeemed = past.redeemed
<1> DEFINE known == Acknowledged \cup (IF job[p].fill THEN {} ELSE {p})
           undone == IF IsDoc(doc) /\ (job[p].fill \/ "twin" \in past.tags) THEN known \ doc.log ELSE {}
           race == IF job[p].fresh THEN {} ELSE {"race"}
<1>1. past' = [past EXCEPT !.lost = @ \cup undone, !.tags = @ \cup race]
  BY DEF Overwrites
<1> HIDE DEF race
<1>2. /\ DOMAIN past' = DOMAIN past /\ past'.tags = past.tags \cup race
      /\ past'.lost = past.lost \cup undone /\ past'.redeemed = past.redeemed
  <2> HIDE DEF undone
  <2> QED BY <1>1 DEF PastIs
<1>3. IsDoc(doc) /\ (job[p].fill \/ "twin" \in past.tags) => undone = known \ doc.log
  OBVIOUS
<1> HIDE DEF undone
<1>4. Acknowledged \subseteq known /\ (~job[p].fill => p \in known)
  OBVIOUS
<1> QED BY <1>2, <1>3, <1>4

\* A document that becomes the file, by a command or by the server.
LEMMA SaveKeeps ==
  ASSUME Core, NEW p \in All, job[p].step \in {"save", "rename"}, NEW doc, UNCHANGED cmd,
         job' = Aged(p, AfterSave(p)), lock' = Unlocked(p, AfterSave(p)),
         past' = Overwrites(p, doc), doc = job[p].doc \/ "twin" \in past.tags,
         file' # 0, OnDisk' = doc, Files', TempIsOwn'
  PROVE  Core'
<1> DEFINE j == AfterSave(p)
<1>1. /\ job' = [q \in All |-> job'[q]] /\ job'[p] = j
      /\ \A q \in All \ {p} :
           /\ Fits(q, cmd[q].op, job'[q])
           /\ job'[q].stage = job[q].stage /\ job'[q].step = job[q].step
           /\ job'[q].doc = job[q].doc
  BY AgedIs DEF Core
<1>2. /\ Fits(p, cmd[p].op, j) /\ ~Saving(j)
      /\ Inside(j) => Inside(job[p])
      /\ HasRead(j) => j.doc = job[p].doc
      /\ Inside(j) \/ job[p].stage # "edit" => job[p].fill
      /\ job[p].fill => (Reported(cmd[p].op, j) => Reported(cmd[p].op, job[p]))
      /\ j.stage = "edit" <=> Inside(j)
  BY AfterSaveIs DEF Core
<1>3. /\ DOMAIN past' = DOMAIN past /\ past.tags \subseteq past'.tags
      /\ past.lost \subseteq past'.lost
      /\ IsDoc(doc) /\ (job[p].fill \/ "twin" \in past.tags) =>
           /\ Acknowledged \ past'.lost \subseteq doc.log
           /\ ~job[p].fill => p \in past'.lost \cup doc.log
  BY OverwritesIs DEF Core
<1>4. /\ Fits(p, cmd[p].op, job[p])
      /\ IsDoc(job[p].doc)
      /\ ~job[p].fill => job[p].stage = "edit" /\ p \in job[p].doc.log
  BY DEF Core, Jobs, Fits, HasRead
<1> HIDE DEF j
<1>5. Jobs'
  BY <1>1, <1>2 DEF Jobs
<1>6. OneInside'
  <2>1. ASSUME NEW q \in All, Inside(job'[q])
        PROVE  lock' = q
    <3>1. Inside(job[q])
      BY <1>1, <1>2, <2>1 DEF Inside
    <3>2. lock = q
      BY <3>1 DEF Core, OneInside
    <3> QED BY <1>1, <1>2, <2>1, <3>2 DEF Unlocked, j, Inside
  <2> QED BY <2>1 DEF OneInside
<1>7. /\ Acknowledged' \subseteq Acknowledged \cup {p}
      /\ job[p].fill => Acknowledged' \subseteq Acknowledged
  <2>1. Acknowledged' = {q \in Procs : Reported(cmd[q].op, job'[q])}
    BY DEF Acknowledged, Reported, AtStep
  <2>2. \A q \in Procs : q # p => (Reported(cmd[q].op, job'[q]) <=> Reported(cmd[q].op, job[q]))
    BY <1>1 DEF Reported, All
  <2> QED BY <1>1, <1>2, <2>1, <2>2, AcknowledgedIs
<1>8. IsDoc(doc) => Safe' \subseteq doc.log
  <2>1. CASE job[p].fill \/ "twin" \in past.tags
    BY <1>3, <1>7, <2>1 DEF Safe
  <2>2. CASE ~job[p].fill /\ "twin" \notin past.tags
    <3>1. Inside(job[p]) /\ HasRead(job[p])
      BY <1>4, <2>2 DEF Inside, HasRead
    <3>2. Safe \subseteq job[p].doc.log
      BY <3>1 DEF Core, ReadAll
    <3> QED BY <1>3, <1>4, <1>7, <2>2, <3>2 DEF Safe
  <2> QED BY <2>1, <2>2
<1>9. ReadAll'
  <2>1. ASSUME NEW q \in All, Inside(job'[q]), HasRead(job'[q])
        PROVE  Safe' \subseteq job'[q].doc.log
    <3>1. Inside(job[q]) /\ (q # p => HasRead(job[q]) /\ job'[q].doc = job[q].doc)
      BY <1>1, <1>2, <2>1 DEF Inside, HasRead
    <3>2. lock = q /\ job[p].fill
      <4>1. q # p => ~Inside(job[p]) /\ lock = q
        BY <3>1 DEF Core, OneInside
      <4>2. q # p => job[p].fill
        BY <1>4, <4>1 DEF Inside
      <4> QED BY <1>1, <1>2, <2>1, <3>1, <4>1, <4>2 DEF Core, OneInside
    <3>3. Safe' \subseteq Safe
      BY <1>3, <1>7, <3>2 DEF Safe
    <3>4. HasRead(job[q]) /\ job'[q].doc = job[q].doc
      BY <1>1, <1>2, <2>1, <3>1 DEF HasRead
    <3>5. Safe \subseteq job[q].doc.log
      BY <3>1, <3>4 DEF Core, ReadAll
    <3> QED BY <3>3, <3>4, <3>5
  <2> QED BY <2>1 DEF ReadAll
<1>10. WholeFile' /\ UpdatesKept' /\ PastIs'
  BY <1>3, <1>4, <1>8 DEF Core, PastIs, WholeFile, UpdatesKept, Safe
<1> QED BY <1>5, <1>6, <1>9, <1>10 DEF Core

LEMMA SaveByCommandKeeps ==
  ASSUME Core, NEW p \in All, SaveByCommand(p)
  PROVE  Core'
<1>1. /\ job[p].step = "save" /\ ~InServer(p)
      /\ file' = Unused /\ data' = Put(Unused, job[p].doc)
      /\ job' = Aged(p, AfterSave(p)) /\ lock' = Unlocked(p, AfterSave(p))
      /\ past' = Overwrites(p, job[p].doc)
      /\ UNCHANGED <<cmd, temp>>
  BY DEF SaveByCommand
<1>2. Unused \in Inodes /\ Unused \notin InUse
  BY UnusedIs
<1>3. Unused # 0 /\ temp # Unused
  BY <1>2 DEF Inodes, InUse
<1>4. /\ data' = [m \in Inodes |-> data'[m]]
      /\ data'[Unused] = job[p].doc
      /\ temp # 0 => data'[temp] = data[temp]
  <2>1. temp # 0 => temp \in Inodes \cap InUse
    BY DEF Core, Files, InUse
  <2> QED BY <1>1, <1>2, <1>3, <2>1, PutIs
<1>5. OnDisk' = job[p].doc
  BY <1>1, <1>3, <1>4 DEF OnDisk
<1>6. Files'
  BY <1>1, <1>2, <1>3, <1>4 DEF Core, Files
<1>7. TempIsOwn'
  <2>1. /\ ~Saving(job'[p])
        /\ \A q \in All \ {p} : /\ job'[q].step = job[q].step /\ job'[q].doc = job[q].doc
                                /\ job'[q].fd = job[q].fd
    BY <1>1, AgedIs, AfterSaveIs DEF Core
  <2>2. past.tags \subseteq past'.tags
    BY <1>1, OverwritesIs DEF Core
  <2> SUFFICES ASSUME "twin" \notin past'.tags, NEW q \in All, Saving(job'[q])
               PROVE  /\ temp' # 0
                      /\ job'[q].step = "write" => job'[q].fd = temp' /\ data'[temp'] = Empty
                      /\ job'[q].step = "rename" => data'[temp'] = job'[q].doc
                      /\ \A r \in All \ {q} : ~Saving(job'[r])
    BY DEF TempIsOwn
  <2>3. q # p /\ Saving(job[q]) /\ "twin" \notin past.tags
    BY <2>1, <2>2 DEF Saving
  <2>4. /\ temp # 0
        /\ job[q].step = "write" => job[q].fd = temp /\ data[temp] = Empty
        /\ job[q].step = "rename" => data[temp] = job[q].doc
        /\ \A r \in All \ {q} : ~Saving(job[r])
    BY <2>3 DEF Core, TempIsOwn
  <2>5. \A r \in All \ {q} : ~Saving(job'[r])
    BY <2>1, <2>4 DEF Saving
  <2> QED BY <1>1, <1>4, <2>1, <2>3, <2>4, <2>5
<1> QED BY <1>1, <1>3, <1>5, <1>6, <1>7, SaveKeeps

LEMMA RenameKeeps ==
  ASSUME Core, NEW p \in All, Rename(p)
  PROVE  Core'
<1>1. /\ job[p].step = "rename" /\ temp # 0
      /\ file' = temp /\ temp' = 0 /\ UNCHANGED <<cmd, data>>
      /\ job' = Aged(p, AfterSave(p)) /\ lock' = Unlocked(p, AfterSave(p))
      /\ past' = Overwrites(p, data[temp])
  BY DEF Rename
<1>2. OnDisk' = data[temp]
  BY <1>1 DEF OnDisk
<1>3. Files'
  BY <1>1 DEF Core, Files
<1>4. data[temp] = job[p].doc \/ "twin" \in past.tags
  BY <1>1 DEF Core, TempIsOwn, Saving
<1>5. TempIsOwn'
  <2>1. /\ ~Saving(job'[p])
        /\ \A q \in All \ {p} : job'[q].step = job[q].step
    BY <1>1, AgedIs, AfterSaveIs DEF Core
  <2>2. past.tags \subseteq past'.tags
    BY <1>1, OverwritesIs DEF Core
  <2>3. "twin" \notin past'.tags => \A q \in All : ~Saving(job'[q])
    BY <1>1, <2>1, <2>2 DEF Core, TempIsOwn, Saving
  <2> QED BY <2>3 DEF TempIsOwn
<1> QED BY <1>1, <1>2, <1>3, <1>4, <1>5, SaveKeeps

\* A task of the server that works on the temporary file: the document it has
\* stays, and what it was, it is.
LEMMA WorkKeeps ==
  ASSUME Core, NEW p \in All, UNCHANGED <<cmd, lock>>,
         job' = [q \in All |-> job'[q]],
         \A q \in All : /\ Fits(q, cmd[q].op, job'[q])
                        /\ job'[q].stage = job[q].stage /\ job'[q].doc = job[q].doc
                        /\ q # p => job'[q].step = job[q].step,
         job[p].step \in {"save", "write"}, job'[p].step \in {"write", "rename"},
         file' = file, Files', TempIsOwn',
         DOMAIN past' = DOMAIN past, past.tags \subseteq past'.tags, past.lost \subseteq past'.lost,
         \/ OnDisk' = OnDisk
         \/ /\ "twin" \in past.tags
            /\ IsDoc(OnDisk') => Acknowledged \ past'.lost \subseteq OnDisk'.log
  PROVE  Core'
<1>1. Jobs'
  BY DEF Jobs
<1>2. OneInside'
  BY DEF Core, OneInside, Inside
<1>3. \A q \in All : Reported(cmd[q].op, job'[q]) => Reported(cmd[q].op, job[q])
  BY DEF Reported
<1>4. Safe' \subseteq Safe /\ Acknowledged' \subseteq Acknowledged
  <2>1. Acknowledged' = {q \in Procs : Reported(cmd[q].op, job'[q])}
    BY DEF Acknowledged, Reported, AtStep
  <2> QED BY <1>3, <2>1, SafeShrinks, AcknowledgedIs DEF All
<1>5. ReadAll'
  <2>1. ASSUME NEW q \in All, Inside(job'[q]), HasRead(job'[q])
        PROVE  Safe' \subseteq job'[q].doc.log
    <3>1. Inside(job[q]) /\ HasRead(job[q])
      BY <2>1 DEF Inside, HasRead
    <3> QED BY <1>4, <3>1 DEF Core, ReadAll
  <2>2. file' = 0 => Safe' = {}
    BY <1>4 DEF Core, ReadAll
  <2> QED BY <2>1, <2>2 DEF ReadAll
<1>6. UpdatesKept'
  <2>1. Acknowledged' \ past'.lost \subseteq Acknowledged \ past.lost
    BY <1>4
  <2> QED BY <1>4, <2>1 DEF Core, UpdatesKept
<1>7. WholeFile' /\ PastIs'
  BY DEF Core, WholeFile, PastIs
<1> QED BY <1>1, <1>2, <1>5, <1>6, <1>7 DEF Core

LEMMA OpenedIs ==
  ASSUME NEW j, DOMAIN j = DOMAIN NoJob, NEW n, NEW step
  PROVE  LET k == [j EXCEPT !.fd = n, !.step = step] IN
         /\ DOMAIN k = DOMAIN NoJob /\ k.stage = j.stage /\ k.step = step
         /\ k.doc = j.doc /\ k.fill = j.fill /\ k.fd = n
BY NoJobIs

LEMMA OpenKeeps ==
  ASSUME Core, NEW p \in All, Open(p)
  PROVE  Core'
<1> DEFINE n == TempInode
           j == [job[p] EXCEPT !.fd = n, !.step = "write"]
<1>1. /\ job[p].step = "save" /\ InServer(p)
      /\ temp' = n /\ data' = Put(n, Empty)
      /\ job' = [job EXCEPT ![p] = j]
      /\ past' = Tag(IF \E q \in All \ {p} : job[q].step \in {"write", "rename"} THEN {"twin"} ELSE {})
      /\ UNCHANGED <<cmd, lock, file>>
  BY DEF Open
<1>2. n \in Inodes /\ n # file /\ n # 0
  BY UnusedIs DEF TempInode, Core, Files, InUse, Inodes
<1>3. Fits(p, cmd[p].op, job[p]) /\ cmd[p].op # "login/start"
  BY <1>1, NotAStart DEF Core, Jobs
<1>4. /\ DOMAIN j = DOMAIN NoJob /\ j.stage = job[p].stage /\ j.step = "write"
      /\ j.doc = job[p].doc /\ j.fill = job[p].fill /\ j.fd = n
  BY <1>3, OpenedIs DEF Fits
<1> HIDE DEF j, n
<1>5. Fits(p, cmd[p].op, j)
  BY <1>1, <1>3, <1>4 DEF Fits, Saving, HasRead, InServer
<1>6. /\ job' = [q \in All |-> job'[q]] /\ job'[p] = j
      /\ \A q \in All \ {p} : job'[q] = job[q]
  BY <1>1 DEF Core, Jobs
<1>7. \A q \in All : /\ Fits(q, cmd[q].op, job'[q])
                     /\ job'[q].stage = job[q].stage /\ job'[q].doc = job[q].doc
                     /\ q # p => job'[q].step = job[q].step
  BY <1>4, <1>5, <1>6 DEF Core, Jobs
<1>8. data' = [m \in Inodes |-> data'[m]] /\ data'[n] = Empty
      /\ (file # 0 => data'[file] = data[file])
  <2>1. file # 0 => file \in Inodes \cap InUse
    BY DEF Core, Files, InUse
  <2> QED BY <1>1, <1>2, <2>1, PutIs
<1>9. OnDisk' = OnDisk
  BY <1>1, <1>8 DEF OnDisk
<1>10. Files'
  BY <1>1, <1>2, <1>8 DEF Core, Files
<1>11. /\ DOMAIN past' = DOMAIN past /\ past.tags \subseteq past'.tags /\ past'.lost = past.lost
       /\ (\E q \in All \ {p} : Saving(job[q])) => "twin" \in past'.tags
  <2> DEFINE tags == IF \E q \in All \ {p} : job[q].step \in {"write", "rename"} THEN {"twin"} ELSE {}
  <2>1. (\E q \in All \ {p} : Saving(job[q])) => "twin" \in tags
    BY DEF Saving
  <2>2. past' = Tag(tags)
    BY <1>1
  <2> HIDE DEF tags
  <2> QED BY <2>1, <2>2, TagIs DEF Core
<1>12. TempIsOwn'
  <2> SUFFICES ASSUME "twin" \notin past'.tags, NEW q \in All, Saving(job'[q])
               PROVE  /\ temp' # 0
                      /\ job'[q].step = "write" => job'[q].fd = temp' /\ data'[temp'] = Empty
                      /\ job'[q].step = "rename" => data'[temp'] = job'[q].doc
                      /\ \A r \in All \ {q} : ~Saving(job'[r])
    BY DEF TempIsOwn
  <2>1. q = p /\ \A r \in All \ {p} : ~Saving(job'[r])
    BY <1>6, <1>11
  <2> QED BY <1>1, <1>2, <1>4, <1>6, <1>8, <2>1
<1>13. job[p].step \in {"save", "write"} /\ job'[p].step \in {"write", "rename"}
  BY <1>1, <1>4, <1>6
<1>14. UNCHANGED <<cmd, lock>> /\ file' = file /\ past.lost \subseteq past'.lost
  BY <1>1, <1>11
<1> QED BY <1>6, <1>7, <1>9, <1>10, <1>11, <1>12, <1>13, <1>14, WorkKeeps

LEMMA WrittenIs ==
  ASSUME NEW j, DOMAIN j = DOMAIN NoJob
  PROVE  LET k == [j EXCEPT !.fd = 0, !.step = "rename"] IN
         /\ DOMAIN k = DOMAIN NoJob /\ k.stage = j.stage /\ k.step = "rename"
         /\ k.doc = j.doc /\ k.fill = j.fill
BY NoJobIs

LEMMA WriteKeeps ==
  ASSUME Core, NEW p \in All, Write(p)
  PROVE  Core'
<1> DEFINE n == job[p].fd
           j == [job[p] EXCEPT !.fd = 0, !.step = "rename"]
<1>1. PICK new \in {job[p].doc} \cup (IF data[n] = Empty THEN {} ELSE {Torn}) :
        /\ data' = Put(n, new)
        /\ past' = IF file = n THEN Overwrites(p, new) ELSE past
        /\ job' = IF file = n THEN Aged(p, j) ELSE [job EXCEPT ![p] = j]
  BY DEF Write
<1>2. job[p].step = "write" /\ UNCHANGED <<cmd, lock, file, temp>>
  BY DEF Write
<1>3. Fits(p, cmd[p].op, job[p]) /\ cmd[p].op # "login/start"
  BY <1>2, NotAStart DEF Core, Jobs
<1>4. /\ DOMAIN j = DOMAIN NoJob /\ j.stage = job[p].stage /\ j.step = "rename"
      /\ j.doc = job[p].doc /\ j.fill = job[p].fill
  BY <1>3, WrittenIs DEF Fits
<1> HIDE DEF j
<1>5. Fits(p, cmd[p].op, j)
  BY <1>2, <1>3, <1>4 DEF Fits, Saving, HasRead
<1>6. /\ job' = [q \in All |-> job'[q]] /\ job'[p] = j
      /\ \A q \in All : /\ Fits(q, cmd[q].op, job'[q])
                        /\ job'[q].stage = job[q].stage /\ job'[q].doc = job[q].doc
                        /\ q # p => job'[q].step = job[q].step
  <2>1. CASE file = n
    <3>1. job' = Aged(p, j)
      BY <1>1, <2>1
    <3> QED BY <1>4, <1>5, <3>1, AgedIs DEF Core
  <2>2. CASE file # n
    BY <1>1, <1>4, <1>5, <2>2 DEF Core, Jobs
  <2> QED BY <2>1, <2>2
<1>7. /\ DOMAIN past' = DOMAIN past /\ past.tags \subseteq past'.tags
      /\ past.lost \subseteq past'.lost
      /\ file = n /\ IsDoc(new) /\ "twin" \in past.tags =>
           Acknowledged \ past'.lost \subseteq new.log
  BY <1>1, OverwritesIs DEF Core
<1>8. "twin" \notin past.tags =>
        /\ n = temp /\ temp # 0 /\ data[temp] = Empty
        /\ \A q \in All \ {p} : ~Saving(job[q])
  BY <1>2 DEF Core, TempIsOwn, Saving
<1>9. data' = [m \in Inodes |-> data'[m]]
      /\ (n \in Inodes => data'[n] = new)
      /\ (file \notin {0, n} => data'[file] = data[file])
  <2>1. file # 0 => file \in Inodes \cap InUse
    BY DEF Core, Files, InUse
  <2> QED BY <1>1, <2>1, PutIs
<1>10. Files'
  BY <1>2, <1>9 DEF Core, Files
<1>11. TempIsOwn'
  <2> SUFFICES ASSUME "twin" \notin past'.tags, NEW q \in All, Saving(job'[q])
               PROVE  /\ temp' # 0
                      /\ job'[q].step = "write" => job'[q].fd = temp' /\ data'[temp'] = Empty
                      /\ job'[q].step = "rename" => data'[temp'] = job'[q].doc
                      /\ \A r \in All \ {q} : ~Saving(job'[r])
    BY DEF TempIsOwn
  <2>1. /\ n = temp /\ temp # 0 /\ data[temp] = Empty
        /\ \A r \in All \ {p} : ~Saving(job[r])
    BY <1>7, <1>8
  <2>2. q = p /\ \A r \in All \ {p} : ~Saving(job'[r])
    BY <1>6, <2>1 DEF Saving
  <2>3. temp \in Inodes /\ new = job[p].doc
    BY <1>1, <2>1 DEF Core, Files
  <2> QED BY <1>2, <1>4, <1>6, <1>9, <2>1, <2>2, <2>3
<1>12. \/ OnDisk' = OnDisk
       \/ /\ "twin" \in past.tags
          /\ IsDoc(OnDisk') => Acknowledged \ past'.lost \subseteq OnDisk'.log
  <2>1. CASE file = n /\ file # 0
    <3>1. "twin" \in past.tags
      BY <1>8, <2>1 DEF Core, Files
    <3>2. OnDisk' = new
      BY <1>2, <1>9, <2>1 DEF OnDisk, Core, Files
    <3> QED BY <1>7, <2>1, <3>1, <3>2
  <2>2. CASE file # n \/ file = 0
    BY <1>2, <1>9, <2>2 DEF OnDisk
  <2> QED BY <2>1, <2>2
<1> QED BY <1>2, <1>4, <1>6, <1>7, <1>10, <1>11, <1>12, WorkKeeps

---------------------------------------------------------------------------
LEMMA InitCore ==
  ASSUME Init
  PROVE  Core
<1>1. PICK s \in Scenarios :
        /\ cmd = s.cmd
        /\ file = IF IsDoc(s.doc) THEN 1 ELSE 0
        /\ data = [n \in Inodes |-> IF n = 1 /\ IsDoc(s.doc) THEN s.doc ELSE Free]
        /\ job = [p \in All |-> IF p = Daemon /\ s.up THEN Over("serving") ELSE NoJob]
  BY DEF Init
<1>2. /\ temp = 0
      /\ past.lost = {} /\ PastIs
  BY DEF Init, PastIs
<1>3. cmd[Daemon].op = "server"
  BY <1>1, ScenariosAssumption
<1>4. DOMAIN Over("serving") = DOMAIN NoJob
      /\ Over("serving").stage = "serving" /\ Over("serving").step = ""
  BY OverIs
<1>5. /\ job = [p \in All |-> job[p]]
      /\ \A p \in All : job[p] = NoJob \/ (p = Daemon /\ job[p] = Over("serving"))
  BY <1>1
<1>6. \A p \in All : /\ Fits(p, cmd[p].op, job[p]) /\ ~Saving(job[p])
                     /\ ~Inside(job[p]) /\ ~Reported(cmd[p].op, job[p])
  <2>1. \A p, op : Fits(p, op, NoJob) /\ ~Saving(NoJob) /\ ~Inside(NoJob) /\ ~Reported(op, NoJob)
    BY NoJobIs DEF Fits, Saving, Inside, HasRead, Reported
  <2>2. /\ Fits(Daemon, "server", Over("serving")) /\ ~Saving(Over("serving"))
        /\ ~Inside(Over("serving")) /\ ~Reported("server", Over("serving"))
    BY <1>4 DEF Fits, Saving, Inside, HasRead, Reported
  <2> QED BY <1>3, <1>5, <2>1, <2>2
<1>7. Safe = {} /\ Acknowledged = {}
  BY <1>6, AcknowledgedIs DEF Safe, All
<1>8. 1 \in Inodes
  <2>1. IsFiniteSet(All)
    BY ProcsAssumption, FS_Singleton, FS_Union DEF All
  <2> QED BY <2>1, FS_CardinalityType DEF Inodes
<1>9. Files
  BY <1>1, <1>2, <1>8 DEF Files
<1>10. file # 0 => IsDoc(OnDisk)
  BY <1>1, <1>8 DEF OnDisk
<1> QED
  BY <1>2, <1>5, <1>6, <1>7, <1>9, <1>10
  DEF Core, Jobs, OneInside, TempIsOwn, ReadAll, WholeFile, UpdatesKept

LEMMA StepKeeps ==
  ASSUME Core, NEW p \in All, Step(p)
  PROVE  Core'
BY LockKeeps, ReadKeeps, ApplyKeeps, SaveByCommandKeeps, OpenKeeps, WriteKeeps, RenameKeeps,
   RenameFailsKeeps, ObtainKeeps, ShowKeeps, NotifyKeeps, SyncPoolsKeeps, PublishKeeps, CheckKeeps,
   RekeyPoolKeeps, LoginStartKeeps, TakeFlowKeeps, ExchangeKeeps, LoginCancelKeeps, RotateKeeps
DEF Step

\* What neither the file, nor a job, nor the history has a part in.
LEMMA ElseKeeps ==
  ASSUME Core, UNCHANGED <<cmd, job, lock, file, temp, data, past>>
  PROVE  Core'
<1>1. UNCHANGED <<Safe, Acknowledged, OnDisk>>
  BY DEF Safe, Acknowledged, AtStep, OnDisk
<1> QED
  BY <1>1 DEF Core, Jobs, OneInside, Files, TempIsOwn, ReadAll, PastIs, WholeFile, UpdatesKept

LEMMA NextKeeps ==
  ASSUME Core, [Next]_vars
  PROVE  Core'
<1>1. ASSUME NEW p \in Procs, Start(p) \/ Step(p) \/ Kill(p) PROVE Core'
  BY <1>1, StartKeeps, StepKeeps, KillKeeps DEF All
<1>2. CASE Boot
  BY <1>2, StartKeeps, StepKeeps, BindKeeps, ServeKeeps DEF Boot, All
<1>3. CASE SaveState \/ Idle \/ UNCHANGED vars
  BY <1>3, ElseKeeps DEF SaveState, Idle, vars
<1>4. CASE Stop \/ Crash
  BY <1>4, DownKeeps DEF Stop, Crash
<1>5. ASSUME NEW f \in Flows, FlowAges(f) PROVE Core'
  BY <1>5, ElseKeeps DEF FlowAges
<1> QED BY <1>1, <1>2, <1>3, <1>4, <1>5 DEF Next

LEMMA CoreHolds == Spec => []Core
<1> HIDE DEF Core
<1>1. Init => Core
  BY InitCore
<1>2. Core /\ [Next]_vars => Core'
  BY NextKeeps
<1> QED BY <1>1, <1>2, PTL DEF Spec

\* The configuration file is never half-written, whatever is killed, crashes
\* or restarts in the middle of a save, unless two tasks of the server have
\* used its temporary file at once.
THEOREM FileIsWhole == Spec => []WholeFile
<1>1. Core => WholeFile
  BY DEF Core
<1> QED BY <1>1, CoreHolds, PTL

\* Edits never undo each other: Config::update reads under the lock it writes
\* under, so an edit that was reported as done stays in the file, but for the
\* loads that write the file back without the lock.
THEOREM EditsAreKept == Spec => []UpdatesKept
<1>1. Core => UpdatesKept
  BY DEF Core
<1> QED BY <1>1, CoreHolds, PTL

---------------------------------------------------------------------------
(* Pending logins.                                                         *)

\* A step of one process leaves the others where they are.
LEMMA OthersStay ==
  ASSUME Core, NEW p \in All, Start(p) \/ Step(p) \/ Kill(p)
  PROVE  \A q \in All \ {p} : job'[q].stage = job[q].stage
<1>1. job = [q \in All |-> job[q]] /\ Jobs
  BY DEF Core, Jobs
<1>2. CASE SaveByCommand(p) \/ Rename(p)
  <2>1. job' = Aged(p, AfterSave(p))
    BY <1>2 DEF SaveByCommand, Rename
  <2> QED BY <1>1, <2>1, AgedIs
<1>3. CASE Write(p)
  <2> DEFINE next == [job[p] EXCEPT !.fd = 0, !.step = "rename"]
  <2>1. job' = Aged(p, next) \/ job' = [job EXCEPT ![p] = next]
    BY <1>3 DEF Write
  <2> HIDE DEF next
  <2> QED BY <1>1, <2>1, AgedIs
<1>4. CASE Start(p) \/ Lock(p) \/ Read(p) \/ Apply(p) \/ Open(p) \/ RenameFails(p) \/ Kill(p)
  BY <1>1, <1>4 DEF Start, Lock, Read, Apply, Open, RenameFails, Kill
<1>5. CASE Obtain(p) \/ Show(p) \/ Notify(p) \/ SyncPools(p) \/ Publish(p) \/ Check(p) \/ RekeyPool(p)
  BY <1>1, <1>5 DEF Obtain, Show, Notify, SyncPools, Publish, Check, RekeyPool
<1>6. CASE LoginStart(p) \/ TakeFlow(p) \/ LoginCancel(p)
  BY <1>1, <1>6 DEF LoginStart, TakeFlow, LoginCancel
<1>7. CASE Exchange(p) \/ Rotate(p)
  BY <1>1, <1>7 DEF Exchange, Issued, Rotate
<1> QED BY <1>2, <1>3, <1>4, <1>5, <1>6, <1>7 DEF Step

\* A login's start that has answered takes no other step.
LEMMA AnsweredIsOver ==
  ASSUME Core, NEW p \in All, cmd[p].op = "login/start", job[p].stage = "done"
  PROVE  ~(Start(p) \/ Step(p) \/ Kill(p))
<1>1. job[p].step = ""
  <2>1. job[p] \in {NoJob, Go(NoJob, "handler", "login/start"), Over("done"), Over("failed")}
    BY DEF Core, Jobs, Fits
  <2>2. NoJob.step = "" /\ Over("done").step = "" /\ Over("failed").step = ""
    BY NoJobIs, OverIs
  <2>3. Go(NoJob, "handler", "login/start").stage = "handler"
    BY NewJobIs
  <2> QED BY <2>1, <2>2, <2>3
<1>2. ~Start(p) /\ ~Kill(p)
  BY DEF Start, Kill
<1>3. ~Lock(p) /\ ~Read(p) /\ ~Apply(p) /\ ~SaveByCommand(p) /\ ~Open(p) /\ ~Write(p) /\ ~Rename(p)
      /\ ~RenameFails(p)
  BY <1>1 DEF Lock, Read, Apply, SaveByCommand, Open, Write, Rename, RenameFails, AtStep
<1>4. ~Obtain(p) /\ ~Show(p) /\ ~Notify(p) /\ ~SyncPools(p) /\ ~Publish(p) /\ ~Check(p) /\ ~RekeyPool(p)
  BY <1>1 DEF Obtain, Show, Notify, SyncPools, Publish, Check, RekeyPool, AtStep
<1>5. ~LoginStart(p) /\ ~TakeFlow(p) /\ ~Exchange(p) /\ ~LoginCancel(p) /\ ~Rotate(p)
  BY <1>1 DEF LoginStart, TakeFlow, Exchange, LoginCancel, Rotate, AtStep
<1> QED BY <1>2, <1>3, <1>4, <1>5 DEF Step

LEMMA BegunByOne ==
  ASSUME Core, UNCHANGED cmd, NEW p \in All, Start(p) \/ Step(p) \/ Kill(p), NEW f
  PROVE  Begun(f) \subseteq Begun(f)'
<1> SUFFICES ASSUME NEW q \in Begun(f) PROVE job'[q].stage = "done"
  BY DEF Begun
<1>1. q \in All /\ cmd[q].op = "login/start" /\ job[q].stage = "done"
  BY DEF Begun, All
<1>2. q # p
  BY <1>1, AnsweredIsOver
<1> QED BY <1>1, <1>2, OthersStay

LEMMA BegunOutlivesTheServer ==
  ASSUME Core, Down, NEW f
  PROVE  Begun(f) \subseteq Begun(f)'
<1> SUFFICES ASSUME NEW q \in Begun(f) PROVE cmd' = cmd /\ job'[q].stage = "done"
  BY DEF Begun
<1>1. q \in Procs /\ q # Daemon /\ q \in All /\ job[q].stage = "done"
  BY ProcsAssumption DEF Begun, All
<1> QED BY <1>1 DEF Down, Ended

LEMMA BegunIsFinite ==
  ASSUME NEW f
  PROVE  /\ IsFiniteSet(Begun(f)) /\ Cardinality(Begun(f)) \in Nat
         /\ IsFiniteSet(Begun(f)') /\ Cardinality(Begun(f)') \in Nat
         /\ Begun(f) \subseteq Begun(f)' => Cardinality(Begun(f)) <= Cardinality(Begun(f)')
<1>1. Begun(f) \subseteq Procs /\ Begun(f)' \subseteq Procs
  BY DEF Begun
<1>2. IsFiniteSet(Begun(f)) /\ IsFiniteSet(Begun(f)')
  BY <1>1, ProcsAssumption, FS_Subset
<1> QED BY <1>2, FS_Subset, FS_CardinalityType

\* A step that leaves what is pending and what was exchanged alone.
LEMMA NoExchangeKeeps ==
  ASSUME Exchanged, UNCHANGED cmd, flows' = [f \in Flows |-> flows'[f]],
         \A f \in Flows : flows'[f] = "pending" => flows[f] = "pending",
         past'.redeemed = past.redeemed,
         \A f \in Flows : Begun(f) \subseteq Begun(f)'
  PROVE  Exchanged'
<1>1. ASSUME NEW f \in Flows
      PROVE  past'.redeemed[f] + (IF flows'[f] = "pending" THEN 1 ELSE 0) <= Cardinality(Begun(f)')
  <2>1. /\ Cardinality(Begun(f)) \in Nat /\ Cardinality(Begun(f)') \in Nat
        /\ Cardinality(Begun(f)) <= Cardinality(Begun(f)')
    BY BegunIsFinite
  <2>2. /\ past.redeemed[f] \in Nat
        /\ past.redeemed[f] + (IF flows[f] = "pending" THEN 1 ELSE 0) <= Cardinality(Begun(f))
    BY DEF Exchanged
  <2> HIDE DEF Begun
  <2>3. CASE flows'[f] = "pending"
    BY <2>1, <2>2, <2>3
  <2>4. CASE flows'[f] # "pending"
    <3>1. past.redeemed[f] <= Cardinality(Begun(f))
      BY <2>1, <2>2
    <3> QED BY <2>1, <2>2, <2>4, <3>1
  <2> QED BY <2>3, <2>4
<1> QED BY <1>1 DEF Exchanged

\* login_start puts a flow in, and has answered when it has.
LEMMA LoginStartExchanged ==
  ASSUME Core, Exchanged, NEW p \in All, LoginStart(p)
  PROVE  Exchanged'
<1>1. /\ job[p].stage = "handler" /\ job[p].step = "login/start" /\ UNCHANGED <<cmd, past>>
      /\ flows' = [f \in Flows |-> IF f = cmd[p].flow THEN "pending"
                                   ELSE IF flows[f] = "old" THEN "none" ELSE flows[f]]
      /\ job' = [job EXCEPT ![p] = Over("done")]
  BY DEF LoginStart, AtStep
<1>2. cmd[p].op = "login/start"
  BY <1>1, HandlerIs DEF Core, ServerOps
<1>3. p \in Procs
  BY <1>2 DEF Exchanged, All
<1>4. ASSUME NEW f \in Flows
      PROVE  past'.redeemed[f] + (IF flows'[f] = "pending" THEN 1 ELSE 0) <= Cardinality(Begun(f)')
  <2>1. /\ IsFiniteSet(Begun(f)) /\ IsFiniteSet(Begun(f)')
        /\ Cardinality(Begun(f)) \in Nat /\ Cardinality(Begun(f)') \in Nat
        /\ Begun(f) \subseteq Begun(f)'
    BY BegunIsFinite, BegunByOne, <1>1 DEF Step
  <2>2. /\ past.redeemed[f] \in Nat
        /\ past.redeemed[f] + (IF flows[f] = "pending" THEN 1 ELSE 0) <= Cardinality(Begun(f))
    BY DEF Exchanged
  <2>3. past.redeemed[f] <= Cardinality(Begun(f))
    BY <2>1, <2>2
  <2>4. CASE f = cmd[p].flow
    <3>1. p \notin Begun(f)
      BY <1>1 DEF Begun
    <3>2. p \in Begun(f)'
      BY <1>1, <1>2, <1>3, <2>4, OverIs DEF Begun, Core, Jobs
    <3>3. Cardinality(Begun(f) \cup {p}) = Cardinality(Begun(f)) + 1
      BY <2>1, <3>1, FS_AddElement
    <3>4. Cardinality(Begun(f) \cup {p}) <= Cardinality(Begun(f)')
      BY <2>1, <3>2, FS_Subset
    <3> QED BY <1>1, <2>1, <2>2, <2>3, <2>4, <3>3, <3>4
  <2>5. CASE f # cmd[p].flow
    <3>1. flows'[f] = "pending" => flows[f] = "pending"
      BY <1>1, <2>5
    <3>2. Cardinality(Begun(f)) <= Cardinality(Begun(f)')
      BY <2>1, BegunIsFinite
    <3>3. CASE flows'[f] = "pending"
      BY <1>1, <2>1, <2>2, <3>1, <3>2, <3>3
    <3>4. CASE flows'[f] # "pending"
      BY <1>1, <2>1, <2>2, <2>3, <3>2, <3>4
    <3> QED BY <3>3, <3>4
  <2> QED BY <2>4, <2>5
<1> QED BY <1>1, <1>4 DEF Exchanged

\* login_submit takes the flow out as it redeems it.
LEMMA TakeFlowExchanged ==
  ASSUME Core, Exchanged, NEW p \in All, TakeFlow(p)
  PROVE  Exchanged'
<1> DEFINE fl == cmd[p].flow
<1>1. /\ UNCHANGED cmd
      /\ flows' = [f \in Flows |-> IF f = fl \/ flows[f] = "old" THEN "none" ELSE flows[f]]
      /\ past' = IF flows[fl] = "pending" THEN [past EXCEPT !.redeemed[fl] = @ + 1] ELSE past
  BY DEF TakeFlow
<1>2. \A f \in Flows : Begun(f) \subseteq Begun(f)'
  BY <1>1, BegunByOne DEF Step
<1>3. \A f \in Flows : flows'[f] = "pending" => flows[f] = "pending"
  BY <1>1
<1>4. CASE flows[fl] # "pending" \/ fl \notin Flows
  <2>1. past'.redeemed = past.redeemed
    BY <1>1, <1>4 DEF Exchanged, Core, PastIs
  <2> QED BY <1>1, <1>2, <1>3, <2>1, NoExchangeKeeps
<1>5. CASE flows[fl] = "pending" /\ fl \in Flows
  <2>1. past'.redeemed = [past.redeemed EXCEPT ![fl] = @ + 1]
    BY <1>1, <1>5 DEF Core, PastIs
  <2>2. past'.redeemed \in [Flows -> Nat]
    BY <1>5, <2>1 DEF Exchanged
  <2>3. ASSUME NEW f \in Flows
        PROVE  past'.redeemed[f] + (IF flows'[f] = "pending" THEN 1 ELSE 0) <= Cardinality(Begun(f)')
    <3>1. /\ Cardinality(Begun(f)) \in Nat /\ Cardinality(Begun(f)') \in Nat
          /\ Cardinality(Begun(f)) <= Cardinality(Begun(f)')
      BY <1>2, BegunIsFinite
    <3>2. /\ past.redeemed[f] \in Nat
          /\ past.redeemed[f] + (IF flows[f] = "pending" THEN 1 ELSE 0) <= Cardinality(Begun(f))
      BY DEF Exchanged
    <3>3. CASE f = fl
      <4>1. past'.redeemed[f] = past.redeemed[f] + 1 /\ flows'[f] # "pending"
        BY <1>1, <2>1, <3>3 DEF Exchanged
      <4>2. past.redeemed[f] + 1 <= Cardinality(Begun(f))
        BY <1>5, <3>2, <3>3
      <4> QED BY <3>1, <3>2, <4>1, <4>2
    <3>4. CASE f # fl
      <4>1. past'.redeemed[f] = past.redeemed[f]
        BY <2>1, <3>4 DEF Exchanged
      <4>2. CASE flows'[f] = "pending"
        BY <1>3, <3>1, <3>2, <4>1, <4>2
      <4>3. CASE flows'[f] # "pending"
        <5>1. past.redeemed[f] <= Cardinality(Begun(f))
          BY <3>1, <3>2
        <5> QED BY <3>1, <3>2, <4>1, <4>3, <5>1
      <4> QED BY <4>2, <4>3
    <3> QED BY <3>3, <3>4
  <2> QED BY <1>1, <2>2, <2>3 DEF Exchanged
<1> QED BY <1>4, <1>5

\* Every other step of a process.
LEMMA WorkExchanged ==
  ASSUME Core, Exchanged, NEW p \in All, Start(p) \/ Step(p) \/ Kill(p),
         ~LoginStart(p), ~TakeFlow(p)
  PROVE  Exchanged'
<1>1. UNCHANGED cmd /\ (flows' = flows \/ LoginCancel(p))
  BY DEF Start, Kill, Step, Lock, Read, Apply, SaveByCommand, Open, Write, Rename, RenameFails, Obtain,
         Show, Notify, SyncPools, Publish, Check, RekeyPool, Exchange, Rotate, LoginCancel
<1>2. \A f \in Flows : Begun(f) \subseteq Begun(f)'
  BY <1>1, BegunByOne
<1>3. /\ flows' = [f \in Flows |-> flows'[f]]
      /\ \A f \in Flows : flows'[f] = "pending" => flows[f] = "pending"
  <2>1. CASE LoginCancel(p)
    BY <2>1 DEF LoginCancel, Exchanged
  <2>2. CASE flows' = flows
    BY <2>2 DEF Exchanged
  <2> QED BY <1>1, <2>1, <2>2
<1>4. past'.redeemed = past.redeemed
  <2>1. PastIs /\ Jobs
    BY DEF Core
  <2>2. CASE Start(p) \/ Lock(p) \/ RenameFails(p) \/ Obtain(p) \/ Show(p) \/ Publish(p) \/ Check(p)
             \/ LoginCancel(p) \/ Rotate(p)
    BY <2>2 DEF Start, Lock, RenameFails, Obtain, Show, Publish, Check, LoginCancel, Rotate
  <2>3. CASE Read(p) \/ Open(p) \/ Notify(p) \/ SyncPools(p) \/ RekeyPool(p) \/ Kill(p)
    <3>1. PICK tags : past' = Tag(tags)
      BY <2>3 DEF Read, Open, Notify, SyncPools, RekeyPool, Kill
    <3> QED BY <2>1, <3>1, TagIs
  <2>4. CASE SaveByCommand(p) \/ Write(p) \/ Rename(p)
    <3>1. (\E doc : past' = Overwrites(p, doc)) \/ past' = past
      BY <2>4 DEF SaveByCommand, Write, Rename
    <3> QED BY <2>1, <3>1, OverwritesIs
  <2>5. CASE Apply(p)
    <3>1. PICK tags, gone, rehomed :
            past' = [past EXCEPT !.tags = @ \cup tags, !.displaced = @ \cup gone, !.rehomed = @ \cup rehomed]
      BY <2>5, AppliedPast
    <3> QED BY <2>1, <3>1 DEF PastIs
  <2>6. CASE Exchange(p)
    <3>1. past' = past \/ past' = [past EXCEPT !.nameless = @ \cup {p}]
      BY <2>6 DEF Exchange
    <3> QED BY <2>1, <3>1 DEF PastIs
  <2> QED BY <2>2, <2>3, <2>4, <2>5, <2>6 DEF Step
<1> QED BY <1>1, <1>2, <1>3, <1>4, NoExchangeKeeps

\* What no process and no flow has a part in, and the end of the server.
LEMMA ElseExchanged ==
  ASSUME Core, Exchanged,
         Bind \/ Serve \/ SaveState \/ Down \/ Idle \/ UNCHANGED vars \/ \E f \in Flows : FlowAges(f)
  PROVE  Exchanged'
<1>1. UNCHANGED cmd
  BY DEF Bind, Serve, SaveState, Down, Idle, vars, FlowAges
<1>2. past'.redeemed = past.redeemed
  <2>1. CASE Serve
    <3>1. PICK tags, rehomed : past' = [past EXCEPT !.tags = @ \cup tags, !.rehomed = @ \cup rehomed]
      BY <2>1 DEF Serve
    <3> QED BY <3>1 DEF Core, PastIs
  <2> QED BY <2>1 DEF Bind, SaveState, Down, Idle, vars, FlowAges
<1>3. /\ flows' = [f \in Flows |-> flows'[f]]
      /\ \A f \in Flows : flows'[f] = "pending" => flows[f] = "pending"
  <2>1. CASE Down
    BY <2>1 DEF Down
  <2>2. CASE \E f \in Flows : FlowAges(f)
    BY <2>2 DEF FlowAges, Exchanged
  <2>3. CASE UNCHANGED flows
    BY <2>3 DEF Exchanged
  <2> QED BY <2>1, <2>2, <2>3 DEF Bind, Serve, SaveState, Idle, vars
<1>4. \A f \in Flows : Begun(f) \subseteq Begun(f)'
  <2>1. CASE Bind \/ Serve
    <3>1. job = [q \in All |-> job[q]] /\ (AtStep(Daemon, "boot", "loaded") \/ AtStep(Daemon, "boot", "build"))
      BY <2>1 DEF Core, Jobs, Bind, Serve
    <3>2. \A q \in All \ {Daemon} : job'[q].stage = job[q].stage
      BY <2>1, <3>1 DEF Bind, Serve
    <3> QED BY <1>1, <3>2, ProcsAssumption DEF Begun, All
  <2>2. CASE Down
    BY <2>2, BegunOutlivesTheServer
  <2>3. CASE UNCHANGED job
    BY <1>1, <2>3 DEF Begun
  <2> QED BY <2>1, <2>2, <2>3 DEF SaveState, Idle, vars, FlowAges
<1> QED BY <1>1, <1>2, <1>3, <1>4, NoExchangeKeeps

LEMMA InitExchanged ==
  ASSUME Init
  PROVE  Exchanged
<1>1. cmd[Daemon].op = "server"
  BY ScenariosAssumption DEF Init
<1>2. flows = [f \in Flows |-> "none"] /\ past.redeemed = [f \in Flows |-> 0]
  BY DEF Init
<1>3. \A f \in Flows : 0 <= Cardinality(Begun(f))
  BY BegunIsFinite
<1> QED BY <1>1, <1>2, <1>3 DEF Exchanged

LEMMA NextExchanged ==
  ASSUME Core, Exchanged, [Next]_vars
  PROVE  Exchanged'
<1>1. ASSUME NEW p \in All, Start(p) \/ Step(p) \/ Kill(p) PROVE Exchanged'
  BY <1>1, LoginStartExchanged, TakeFlowExchanged, WorkExchanged
<1>2. CASE Boot
  BY <1>1, <1>2, ElseExchanged DEF Boot, All
<1>3. CASE SaveState \/ Stop \/ Crash \/ Idle \/ UNCHANGED vars \/ \E f \in Flows : FlowAges(f)
  BY <1>3, ElseExchanged DEF Stop, Crash
<1> QED BY <1>1, <1>2, <1>3 DEF Next, All

LEMMA ExchangedBounds ==
  ASSUME Exchanged
  PROVE  FlowsAreOneShot
<1> SUFFICES ASSUME NEW f \in Flows
             PROVE  past.redeemed[f] <= Cardinality({p \in Procs : cmd[p].op = "login/start" /\ cmd[p].flow = f})
  BY DEF FlowsAreOneShot
<1> DEFINE starts == {p \in Procs : cmd[p].op = "login/start" /\ cmd[p].flow = f}
<1>1. IsFiniteSet(starts) /\ Begun(f) \subseteq starts
  BY ProcsAssumption, FS_Subset DEF Begun
<1>2. /\ Cardinality(Begun(f)) <= Cardinality(starts)
      /\ Cardinality(starts) \in Nat /\ Cardinality(Begun(f)) \in Nat
  BY <1>1, FS_Subset, FS_CardinalityType
<1>3. /\ past.redeemed[f] \in Nat
      /\ past.redeemed[f] + (IF flows[f] = "pending" THEN 1 ELSE 0) <= Cardinality(Begun(f))
  BY DEF Exchanged
<1> HIDE DEF starts
<1>4. past.redeemed[f] <= Cardinality(Begun(f))
  BY <1>2, <1>3
<1> QED BY <1>2, <1>3, <1>4 DEF starts

\* A pending login is exchanged once for every start of it, however many
\* submits race for it, and through every end of the server.
THEOREM FlowsRunOnce == Spec => []FlowsAreOneShot
<1> HIDE DEF Core, Exchanged
<1>1. Init => Core /\ Exchanged
  BY InitCore, InitExchanged
<1>2. Core /\ Exchanged /\ [Next]_vars => (Core /\ Exchanged)'
  BY NextKeeps, NextExchanged
<1>3. Exchanged => FlowsAreOneShot
  BY ExchangedBounds
<1> QED BY <1>1, <1>2, <1>3, PTL DEF Spec

\* What edits keep; the part on logins only where no entry is given an API key.
Sane(doc, top, keyless) ==
  IsDocument(doc, top) /\ IdsApart(doc) /\ (keyless => LoginsApart(doc) /\ KeysBare(doc))

\* What only concerns a document as a whole.
Whole(doc) ==
    /\ DOMAIN doc = {"default", "pools", "old", "log"}
    /\ doc.pools = [p \in DOMAIN doc.pools |-> doc.pools[p]] /\ IsFiniteSet(DOMAIN doc.pools)
    /\ doc.default \in Nat \ {NoPool} /\ DOMAIN doc.pools \subseteq Nat \ {NoPool}
    /\ \A p \in DOMAIN doc.pools : /\ DOMAIN doc.pools[p] = DOMAIN EmptyPool
                                   /\ doc.pools[p].accts \in Seq(Range(doc.pools[p].accts))
IsEntry(e, top) == DOMAIN e = DOMAIN NewAccount(<<>>) /\ e.id \in 0 .. top

---------------------------------------------------------------------------
(* Sequences.                                                              *)

LEMMA LeastIsOne ==
  ASSUME NEW S, S \subseteq Nat, S # {}
  PROVE  \E x \in S : \A y \in S : x <= y
<1>1. PICK x \in S : \A y \in S : ~(<<y, x>> \in OpToRel(<, Nat))
  BY NatLessThanWellFounded, WFMin
<1>2. \A y \in S : ~(y < x)
  BY <1>1 DEF OpToRel
<1> QED BY <1>2

\* A function on 1 .. n is a sequence of its values.
LEMMA OwnSeq ==
  ASSUME NEW n \in Nat, NEW s, s = [i \in 1 .. n |-> s[i]]
  PROVE  s \in Seq(Range(s)) /\ Len(s) = n
<1>1. \A i \in 1 .. n : s[i] \in Range(s)
  BY DEF Range
<1>2. s \in [1 .. n -> Range(s)]
  BY <1>1
<1>3. s \in Seq(Range(s))
  BY <1>2, SeqDef
<1> QED BY <1>2, <1>3, LenProperties

LEMMA SeqIs ==
  ASSUME NEW s, s \in Seq(Range(s))
  PROVE  Len(s) \in Nat /\ DOMAIN s = 1 .. Len(s) /\ s = [i \in 1 .. Len(s) |-> s[i]]
BY LenProperties

LEMMA RemovedIs ==
  ASSUME NEW s, s \in Seq(Range(s)), NEW i \in 1 .. Len(s)
  PROVE  RemoveAt(s, i) = [j \in 1 .. Len(s) - 1 |-> IF j < i THEN s[j] ELSE s[j + 1]]
<1> DEFINE S == Range(s)
           a == SubSeq(s, 1, i - 1)
           b == SubSeq(s, i + 1, Len(s))
           n == Len(s)
<1>1. n \in Nat /\ DOMAIN s = 1 .. n /\ \A j \in 1 .. n : s[j] \in S
  BY SeqIs, ElementOfSeq
<1>2. RemoveAt(s, i) = a \o b
  BY DEF RemoveAt
<1>3. a \in Seq(S) /\ Len(a) = i - 1 /\ \A j \in 1 .. i - 1 : a[j] = s[j]
  BY <1>1, SubSeqProperties
<1>4. b \in Seq(S) /\ Len(b) = n - i /\ \A j \in 1 .. n - i : b[j] = s[i + j]
  <2>1. i + 1 \in Int /\ n \in Int /\ \A j \in i + 1 .. n : s[j] \in S
    BY <1>1
  <2> HIDE DEF S
  <2>2. /\ b \in Seq(S) /\ Len(b) = (IF i + 1 <= n THEN n - (i + 1) + 1 ELSE 0)
        /\ \A j \in 1 .. n - (i + 1) + 1 : b[j] = s[(i + 1) + j - 1]
    BY <2>1, SubSeqProperties
  <2> HIDE DEF b
  <2>3. /\ n - (i + 1) + 1 = n - i
        /\ (IF i + 1 <= n THEN n - (i + 1) + 1 ELSE 0) = n - i
    <3>1. n \in Nat /\ i \in 1 .. n
      BY <1>1
    <3> HIDE DEF n
    <3>2. i \in Nat /\ i <= n
      BY <3>1
    <3> QED BY <3>1, <3>2
  <2>4. ASSUME NEW j \in 1 .. n - i PROVE b[j] = s[i + j]
    <3>1. j \in 1 .. n - (i + 1) + 1
      BY <2>3
    <3>2. (i + 1) + j - 1 = i + j
      BY <1>1
    <3> QED BY <2>2, <3>1, <3>2
  <2> QED BY <2>2, <2>3, <2>4
<1> HIDE DEF a, b, S
<1>5. /\ a \o b \in Seq(S) /\ Len(a \o b) = Len(a) + Len(b)
      /\ \A j \in 1 .. Len(a) + Len(b) : (a \o b)[j] = IF j <= Len(a) THEN a[j] ELSE b[j - Len(a)]
  BY <1>3, <1>4, ConcatProperties
<1>6. Len(a) + Len(b) = n - 1
  BY <1>1, <1>3, <1>4
<1>7. a \o b = [j \in 1 .. n - 1 |-> (a \o b)[j]]
  BY <1>5, <1>6, LenProperties
<1>8. ASSUME NEW j \in 1 .. n - 1
      PROVE  (a \o b)[j] = IF j < i THEN s[j] ELSE s[j + 1]
  <2>1. (a \o b)[j] = IF j <= i - 1 THEN a[j] ELSE b[j - (i - 1)]
    BY <1>3, <1>5, <1>6
  <2>2. CASE j < i
    BY <1>1, <1>3, <2>1, <2>2
  <2>3. CASE ~(j < i)
    <3>1. j - (i - 1) \in 1 .. n - i /\ i + (j - (i - 1)) = j + 1
      BY <1>1, <2>3
    <3> QED BY <1>1, <1>4, <2>1, <2>3, <3>1
  <2> QED BY <2>2, <2>3
<1> QED BY <1>2, <1>7, <1>8

LEMMA AppendedIs ==
  ASSUME NEW s, s \in Seq(Range(s)), NEW e
  PROVE  Append(s, e) = [j \in 1 .. Len(s) + 1 |-> IF j <= Len(s) THEN s[j] ELSE e]
<1> DEFINE S == Range(s) \cup {e}
           t == Append(s, e)
<1>1. s \in Seq(S) /\ e \in S
  BY SeqMonotonic
<1>2. /\ t \in Seq(S) /\ Len(t) = Len(s) + 1 /\ \A j \in 1 .. Len(s) : t[j] = s[j]
      /\ t[Len(s) + 1] = e /\ Len(s) \in Nat
  <2> HIDE DEF S
  <2> QED BY <1>1, AppendProperties, LenProperties
<1> HIDE DEF t, S
<1>3. t = [j \in 1 .. Len(s) + 1 |-> t[j]]
  BY <1>2, LenProperties
<1>4. \A j \in 1 .. Len(s) + 1 : t[j] = IF j <= Len(s) THEN s[j] ELSE e
  BY <1>2
<1> QED BY <1>3, <1>4 DEF t

---------------------------------------------------------------------------
(* Places of a document, and edits that move, add or drop entries.         *)

LEMMA PlaceIs ==
  ASSUME NEW doc
  PROVE  /\ \A p, i : <<p, i>> \in Places(doc) <=> p \in DOMAIN doc.pools /\ i \in DOMAIN doc.pools[p].accts
         /\ \A x \in Places(doc) : x = <<x[1], x[2]>> /\ x[1] \in DOMAIN doc.pools
                                   /\ x[2] \in DOMAIN doc.pools[x[1]].accts
         /\ \A p, i : At(doc, <<p, i>>) = doc.pools[p].accts[i]
BY DEF Places, At

LEMMA DocumentIs ==
  ASSUME NEW doc, NEW top
  PROVE  IsDocument(doc, top) <=> Whole(doc) /\ \A x \in Places(doc) : IsEntry(At(doc, x), top)
<1>1. doc.pools \in [DOMAIN doc.pools -> Range(doc.pools)] <=> doc.pools = [p \in DOMAIN doc.pools |-> doc.pools[p]]
  BY DEF Range
<1> QED BY <1>1 DEF IsDocument, Whole, IsEntry

LEMMA AcctsAre ==
  ASSUME NEW doc, Whole(doc), NEW p \in DOMAIN doc.pools
  PROVE  LET s == doc.pools[p].accts IN
         s \in Seq(Range(s)) /\ Len(s) \in Nat /\ DOMAIN s = 1 .. Len(s) /\ s = [i \in 1 .. Len(s) |-> s[i]]
BY SeqIs DEF Whole

\* An entry a command makes.
Blank(e) == DOMAIN e = DOMAIN NewAccount(<<>>) /\ e.id = NoId /\ e.user = Unknown

\* Every entry of the new document is one of the old, each in one place, or new.
ComesFrom(new, old, g) ==
  /\ \A x \in Places(new) : \/ g[x] \in Places(old) /\ At(new, x) = At(old, g[x])
                            \/ g[x] = NoPlace /\ Blank(At(new, x))
  /\ \A x, y \in Places(new) : g[x] = g[y] /\ g[x] # NoPlace => x = y

LEMMA Relocated ==
  ASSUME NEW top \in Nat, NEW k \in BOOLEAN, NEW old, Sane(old, top, k), NEW new, Whole(new),
         NEW g, ComesFrom(new, old, g)
  PROVE  Sane(new, top, k)
<1>1. NoPlace \notin Places(old)
  <2>1. NoPool \notin DOMAIN old.pools
    BY DocumentIs DEF Sane, Whole
  <2> QED BY <2>1, PlaceIs DEF NoPlace
<1>2. \A x \in Places(old) : IsEntry(At(old, x), top)
  BY DocumentIs DEF Sane
<1>3. \A x \in Places(new) : IsEntry(At(new, x), top)
  BY <1>2 DEF ComesFrom, Blank, IsEntry, NoId
<1>4. IsDocument(new, top)
  BY <1>3, DocumentIs
<1>5. IdsApart(new)
  <2>1. SUFFICES ASSUME NEW x \in Places(new), NEW y \in Places(new), x # y,
                        At(new, x).id = At(new, y).id, At(new, x).id # NoId
                 PROVE  FALSE
    BY DEF IdsApart
  <2>2. /\ g[x] \in Places(old) /\ At(new, x) = At(old, g[x])
        /\ g[y] \in Places(old) /\ At(new, y) = At(old, g[y])
    BY <2>1 DEF ComesFrom, Blank
  <2>3. g[x] # g[y]
    BY <1>1, <2>1, <2>2 DEF ComesFrom
  <2> QED BY <2>1, <2>2, <2>3 DEF Sane, IdsApart
<1>6. ASSUME k PROVE LoginsApart(new) /\ KeysBare(new)
  <2>1. LoginsApart(old) /\ KeysBare(old)
    BY <1>6 DEF Sane
  <2>2. ASSUME NEW x \in Places(new), NEW y \in Places(new), SameLogin(At(new, x), At(new, y))
        PROVE  x = y
    <3>1. /\ g[x] \in Places(old) /\ At(new, x) = At(old, g[x])
          /\ g[y] \in Places(old) /\ At(new, y) = At(old, g[y])
      BY <2>2 DEF ComesFrom, Blank, SameLogin, Known
    <3>2. g[x] = g[y]
      BY <2>1, <2>2, <3>1 DEF LoginsApart
    <3> QED BY <1>1, <3>1, <3>2 DEF ComesFrom
  <2>3. ASSUME NEW x \in Places(new), At(new, x).apikey /\ ~At(new, x).codex
        PROVE  At(new, x).user = Unknown
    <3>1. CASE g[x] = NoPlace /\ Blank(At(new, x))
      BY <3>1 DEF Blank
    <3>2. CASE g[x] \in Places(old) /\ At(new, x) = At(old, g[x])
      BY <2>1, <2>3, <3>2 DEF KeysBare
    <3> QED BY <3>1, <3>2 DEF ComesFrom
  <2> QED BY <2>2, <2>3 DEF LoginsApart, KeysBare
<1> QED BY <1>4, <1>5, <1>6 DEF Sane

\* Edits of settings: the accounts are where they were, some pools may be gone
\* and empty ones new.
LEMMA Rearranged ==
  ASSUME NEW top \in Nat, NEW k \in BOOLEAN, NEW old, Sane(old, top, k), NEW new, Whole(new),
         \A p \in DOMAIN new.pools : \/ p \in DOMAIN old.pools /\ new.pools[p].accts = old.pools[p].accts
                                     \/ new.pools[p].accts = <<>>
  PROVE  Sane(new, top, k)
<1> DEFINE g == [x \in Places(new) |-> x]
<1>1. ASSUME NEW x \in Places(new)
      PROVE  x \in Places(old) /\ At(new, x) = At(old, x)
  <2> DEFINE p == x[1]
             i == x[2]
  <2>1. p \in DOMAIN new.pools /\ i \in DOMAIN new.pools[p].accts /\ x = <<p, i>>
    BY PlaceIs
  <2> HIDE DEF p, i
  <2>2. DOMAIN <<>> = {}
    OBVIOUS
  <2>3. p \in DOMAIN old.pools /\ new.pools[p].accts = old.pools[p].accts
    BY <2>1, <2>2
  <2> QED BY <2>1, <2>3, PlaceIs
<1>2. ComesFrom(new, old, g)
  BY <1>1 DEF ComesFrom
<1> HIDE DEF g
<1> QED BY <1>2, Relocated

LEMMA EmptyIsASeq == <<>> \in Seq(Range(<<>>))
BY EmptySeq

LEMMA EnsurePoolIs ==
  ASSUME NEW doc, Whole(doc), NEW p \in Nat \ {NoPool}
  PROVE  LET new == EnsurePool(doc, p) IN
         /\ Whole(new) /\ DOMAIN new.pools = DOMAIN doc.pools \cup {p}
         /\ \A q \in DOMAIN doc.pools : new.pools[q] = doc.pools[q]
         /\ \A q \in DOMAIN new.pools : q \notin DOMAIN doc.pools => new.pools[q].accts = <<>>
         /\ new.default = doc.default
         /\ Places(new) = Places(doc) /\ \A x \in Places(doc) : At(new, x) = At(doc, x)
<1> DEFINE new == EnsurePool(doc, p)
           P == Opened(doc.pools, p)
<1>1. P = [q \in DOMAIN doc.pools \cup {p} |-> IF q \in DOMAIN doc.pools THEN doc.pools[q] ELSE EmptyPool]
  BY DEF Opened
<1>2. new = [doc EXCEPT !.pools = P]
  BY DEF EnsurePool
<1> HIDE DEF P
<1>3. DOMAIN new = DOMAIN doc /\ new.default = doc.default /\ new.pools = P
  BY <1>2 DEF Whole
<1> HIDE DEF new
<1>4. IsFiniteSet(DOMAIN P)
  <2>1. IsFiniteSet(DOMAIN doc.pools \cup {p})
    BY FS_AddElement DEF Whole
  <2> QED BY <1>1, <2>1
<1>5. ASSUME NEW q \in DOMAIN P
      PROVE  DOMAIN P[q] = DOMAIN EmptyPool /\ P[q].accts \in Seq(Range(P[q].accts))
  <2>1. EmptyPool.accts = <<>>
    BY DEF EmptyPool
  <2>2. CASE q \in DOMAIN doc.pools
    BY <1>1, <2>2 DEF Whole
  <2>3. CASE q \notin DOMAIN doc.pools
    BY <1>1, <2>1, <2>3, EmptyIsASeq
  <2> QED BY <2>2, <2>3
<1>6. Whole(new)
  BY <1>1, <1>3, <1>4, <1>5 DEF Whole
<1>7. /\ DOMAIN new.pools = DOMAIN doc.pools \cup {p}
      /\ \A q \in DOMAIN doc.pools : new.pools[q] = doc.pools[q]
      /\ \A q \in DOMAIN new.pools : q \notin DOMAIN doc.pools => new.pools[q].accts = <<>>
  BY <1>1, <1>3 DEF EmptyPool
<1>8. \A q, i : <<q, i>> \in Places(new) <=> <<q, i>> \in Places(doc)
  <2>1. DOMAIN <<>> = {}
    OBVIOUS
  <2> QED BY <1>7, <2>1, PlaceIs
<1>9. Places(new) = Places(doc)
  <2>1. ASSUME NEW x \in Places(new) PROVE x \in Places(doc)
    <3>1. x = <<x[1], x[2]>>
      BY PlaceIs
    <3> QED BY <1>8, <2>1, <3>1
  <2>2. ASSUME NEW x \in Places(doc) PROVE x \in Places(new)
    <3>1. x = <<x[1], x[2]>>
      BY PlaceIs
    <3> QED BY <1>8, <2>2, <3>1
  <2> QED BY <2>1, <2>2
<1>10. \A x \in Places(doc) : At(new, x) = At(doc, x)
  BY <1>7, PlaceIs DEF At
<1> QED BY <1>3, <1>6, <1>7, <1>9, <1>10 DEF new

LEMMA EnsurePoolSane ==
  ASSUME NEW top \in Nat, NEW k \in BOOLEAN, NEW doc, Sane(doc, top, k), NEW p \in Nat \ {NoPool}
  PROVE  Sane(EnsurePool(doc, p), top, k) /\ p \in DOMAIN EnsurePool(doc, p).pools
<1>1. Whole(doc)
  BY DocumentIs DEF Sane
<1> DEFINE new == EnsurePool(doc, p)
<1>2. /\ Whole(new) /\ DOMAIN new.pools = DOMAIN doc.pools \cup {p}
      /\ \A q \in DOMAIN doc.pools : new.pools[q] = doc.pools[q]
      /\ \A q \in DOMAIN new.pools : q \notin DOMAIN doc.pools => new.pools[q].accts = <<>>
  BY <1>1, EnsurePoolIs
<1> HIDE DEF new
<1>3. Sane(new, top, k)
  BY <1>2, Rearranged
<1> QED BY <1>2, <1>3 DEF new

---------------------------------------------------------------------------
(* Edits of one entry.                                                     *)

\* A document that differs from another in the accounts of one pool.
Puts(new, doc, p, s) == new = [doc EXCEPT !.pools[p].accts = s]

LEMMA PoolWith ==
  ASSUME NEW doc, Whole(doc), NEW p \in DOMAIN doc.pools, NEW s, s \in Seq(Range(s)),
         NEW new, Puts(new, doc, p, s)
  PROVE  /\ Whole(new) /\ DOMAIN new.pools = DOMAIN doc.pools /\ new.default = doc.default
         /\ new.pools[p].accts = s
         /\ \A q \in DOMAIN doc.pools : q # p => new.pools[q] = doc.pools[q]
<1> DEFINE row == [doc.pools[p] EXCEPT !.accts = s]
           P == [doc.pools EXCEPT ![p] = row]
<1>1. new = [doc EXCEPT !.pools = P]
  BY DEF Puts
<1>2. DOMAIN row = DOMAIN EmptyPool /\ row.accts = s
  <2>1. DOMAIN doc.pools[p] = DOMAIN EmptyPool
    BY DEF Whole
  <2> QED BY <2>1 DEF EmptyPool
<1> HIDE DEF row
<1>3. /\ DOMAIN P = DOMAIN doc.pools /\ P[p] = row /\ P = [q \in DOMAIN P |-> P[q]]
      /\ \A q \in DOMAIN doc.pools : q # p => P[q] = doc.pools[q]
  OBVIOUS
<1> HIDE DEF P
<1>4. DOMAIN new = DOMAIN doc /\ new.pools = P /\ new.default = doc.default
  BY <1>1 DEF Whole
<1>5. \A q \in DOMAIN P : DOMAIN P[q] = DOMAIN EmptyPool /\ P[q].accts \in Seq(Range(P[q].accts))
  BY <1>2, <1>3 DEF Whole
<1>6. Whole(new)
  <2>1. IsFiniteSet(DOMAIN P) /\ DOMAIN P \subseteq Nat \ {NoPool} /\ new.default \in Nat \ {NoPool}
        /\ DOMAIN new = {"default", "pools", "old", "log"}
    BY <1>3, <1>4 DEF Whole
  <2>2. new.pools = [q \in DOMAIN new.pools |-> new.pools[q]] /\ IsFiniteSet(DOMAIN new.pools)
        /\ DOMAIN new.pools \subseteq Nat \ {NoPool}
    BY <1>3, <1>4, <2>1
  <2>3. \A q \in DOMAIN new.pools : /\ DOMAIN new.pools[q] = DOMAIN EmptyPool
                                    /\ new.pools[q].accts \in Seq(Range(new.pools[q].accts))
    BY <1>4, <1>5
  <2> QED BY <2>1, <2>2, <2>3 DEF Whole
<1> QED BY <1>2, <1>3, <1>4, <1>6

LEMMA SetAtIs ==
  ASSUME NEW doc, Whole(doc), NEW x \in Places(doc), NEW e
  PROVE  LET new == SetAt(doc, x, e) IN
         /\ Whole(new) /\ Places(new) = Places(doc) /\ DOMAIN new.pools = DOMAIN doc.pools
         /\ At(new, x) = e /\ \A y \in Places(doc) : y # x => At(new, y) = At(doc, y)
<1> DEFINE p == x[1]
           i == x[2]
           old == doc.pools[p].accts
           s == [old EXCEPT ![i] = e]
           new == [doc EXCEPT !.pools[p].accts = s]
<1>1. SetAt(doc, x, e) = new
  BY DEF SetAt
<1>2. p \in DOMAIN doc.pools /\ i \in DOMAIN old /\ x = <<p, i>>
  BY PlaceIs
<1>3. DOMAIN s = DOMAIN old /\ s[i] = e /\ \A j \in DOMAIN old : j # i => s[j] = old[j]
  BY <1>2
<1>4. s \in Seq(Range(s))
  <2>1. Len(old) \in Nat /\ DOMAIN old = 1 .. Len(old)
    BY <1>2, AcctsAre
  <2>2. s = [j \in 1 .. Len(old) |-> s[j]]
    BY <2>1
  <2> HIDE DEF s, old
  <2> QED BY <2>1, <2>2, OwnSeq
<1>a. Puts(new, doc, p, s)
  BY DEF Puts
<1> HIDE DEF s, new, p, i, old
<1>5. /\ Whole(new) /\ DOMAIN new.pools = DOMAIN doc.pools /\ new.pools[p].accts = s
      /\ \A q \in DOMAIN doc.pools : q # p => new.pools[q] = doc.pools[q]
  BY <1>a, <1>2, <1>4, PoolWith
<1> USE DEF p, i, old
<1>6. ASSUME NEW q, NEW j PROVE <<q, j>> \in Places(new) <=> <<q, j>> \in Places(doc)
  <2>1. <<q, j>> \in Places(new) <=> q \in DOMAIN new.pools /\ j \in DOMAIN new.pools[q].accts
    BY PlaceIs
  <2>2. <<q, j>> \in Places(doc) <=> q \in DOMAIN doc.pools /\ j \in DOMAIN doc.pools[q].accts
    BY PlaceIs
  <2>3. CASE q = p
    BY <1>3, <1>5, <2>1, <2>2, <2>3
  <2>4. CASE q # p
    BY <1>5, <2>1, <2>2, <2>4
  <2> QED BY <2>3, <2>4
<1>7. Places(new) = Places(doc)
  <2>1. \A y \in Places(new) : y = <<y[1], y[2]>>
    BY PlaceIs
  <2>2. \A y \in Places(doc) : y = <<y[1], y[2]>>
    BY PlaceIs
  <2>3. \A y \in Places(new) : y \in Places(doc)
    BY <1>6, <2>1
  <2>4. \A y \in Places(doc) : y \in Places(new)
    BY <1>6, <2>2
  <2> QED BY <2>3, <2>4
<1>8. At(new, x) = e
  BY <1>3, <1>5 DEF At
<1>9. ASSUME NEW y \in Places(doc), y # x PROVE At(new, y) = At(doc, y)
  <2>1. y = <<y[1], y[2]>> /\ y[1] \in DOMAIN doc.pools /\ y[2] \in DOMAIN doc.pools[y[1]].accts
    BY PlaceIs
  <2>2. CASE y[1] = p
    <3>1. y[2] # i
      BY <1>2, <1>9, <2>1, <2>2
    <3> QED BY <1>3, <1>5, <2>1, <2>2, <3>1 DEF At
  <2>3. CASE y[1] # p
    BY <1>5, <2>1, <2>3 DEF At
  <2> QED BY <2>2, <2>3
<1> QED BY <1>1, <1>5, <1>7, <1>8, <1>9

\* An entry may change as long as it keeps its id and takes nobody's login.
LEMMA AmendedSane ==
  ASSUME NEW top \in Nat, NEW k \in BOOLEAN, NEW doc, Sane(doc, top, k), NEW x \in Places(doc), NEW e,
         DOMAIN e = DOMAIN NewAccount(<<>>), e.id = At(doc, x).id,
         k => /\ \A y \in Places(doc) : y # x => ~SameLogin(e, At(doc, y))
              /\ e.apikey /\ ~e.codex => e.user = Unknown
  PROVE  Sane(SetAt(doc, x, e), top, k)
<1> DEFINE new == SetAt(doc, x, e)
<1>1. Whole(doc) /\ \A y \in Places(doc) : IsEntry(At(doc, y), top)
  BY DocumentIs DEF Sane
<1>2. /\ Whole(new) /\ Places(new) = Places(doc) /\ At(new, x) = e
      /\ \A y \in Places(doc) : y # x => At(new, y) = At(doc, y)
  BY <1>1, SetAtIs
<1> HIDE DEF new
<1>3. \A y \in Places(new) : IsEntry(At(new, y), top)
  BY <1>1, <1>2 DEF IsEntry
<1>4. IsDocument(new, top)
  BY <1>2, <1>3, DocumentIs
<1>5. \A y \in Places(doc) : At(new, y).id = At(doc, y).id
  BY <1>2
<1>6. IdsApart(new)
  BY <1>2, <1>5 DEF Sane, IdsApart
<1>7. ASSUME k PROVE LoginsApart(new) /\ KeysBare(new)
  <2>1. ASSUME NEW y \in Places(doc), NEW z \in Places(doc), SameLogin(At(new, y), At(new, z)) PROVE y = z
    <3>1. CASE y = x /\ z # x
      BY <1>2, <1>7, <2>1, <3>1
    <3>2. CASE y # x /\ z = x
      BY <1>2, <1>7, <2>1, <3>2 DEF SameLogin
    <3>3. CASE y # x /\ z # x
      BY <1>2, <1>7, <2>1, <3>3 DEF Sane, LoginsApart
    <3> QED BY <3>1, <3>2, <3>3
  <2>2. KeysBare(new)
    BY <1>2, <1>7 DEF Sane, KeysBare
  <2> QED BY <1>2, <2>1, <2>2 DEF LoginsApart
<1> QED BY <1>4, <1>6, <1>7 DEF Sane, new

\* Without an entry: the ones behind it move up.
Back(x, y) == IF y[1] = x[1] /\ y[2] >= x[2] THEN <<y[1], y[2] + 1>> ELSE y

LEMMA RemovedFrom ==
  ASSUME NEW doc, Whole(doc), NEW x \in Places(doc),
         NEW new, Puts(new, doc, x[1], RemoveAt(doc.pools[x[1]].accts, x[2]))
  PROVE  /\ Whole(new) /\ DOMAIN new.pools = DOMAIN doc.pools
         /\ \A y \in Places(new) : Back(x, y) \in Places(doc) \ {x} /\ At(new, y) = At(doc, Back(x, y))
         /\ \A y, z \in Places(new) : Back(x, y) = Back(x, z) => y = z
         /\ \A q \in DOMAIN doc.pools : q # x[1] => new.pools[q] = doc.pools[q]
<1> DEFINE p == x[1]
           i == x[2]
           old == doc.pools[p].accts
           s == RemoveAt(old, i)
<1>1. Puts(new, doc, p, s)
  OBVIOUS
<1>2. p \in DOMAIN doc.pools /\ i \in DOMAIN old /\ x = <<p, i>>
  BY PlaceIs
<1>3. old \in Seq(Range(old)) /\ Len(old) \in Nat /\ DOMAIN old = 1 .. Len(old)
  BY <1>2, AcctsAre
<1> HIDE DEF old
<1>4. s = [j \in 1 .. Len(old) - 1 |-> IF j < i THEN old[j] ELSE old[j + 1]]
  BY <1>2, <1>3, RemovedIs
<1>5. s \in Seq(Range(s)) /\ DOMAIN s = 1 .. Len(old) - 1
  <2>1. Len(old) - 1 \in Nat /\ s = [j \in 1 .. Len(old) - 1 |-> s[j]]
    BY <1>2, <1>3, <1>4
  <2> HIDE DEF s
  <2> QED BY <2>1, OwnSeq
<1> HIDE DEF p, i
<1>6. /\ Whole(new) /\ DOMAIN new.pools = DOMAIN doc.pools /\ new.pools[p].accts = s
      /\ \A q \in DOMAIN doc.pools : q # p => new.pools[q] = doc.pools[q]
  BY <1>1, <1>2, <1>5, PoolWith
<1> USE DEF p, i
<1>7. ASSUME NEW y \in Places(new)
      PROVE  Back(x, y) \in Places(doc) \ {x} /\ At(new, y) = At(doc, Back(x, y))
  <2>1. y = <<y[1], y[2]>> /\ y[1] \in DOMAIN doc.pools /\ y[2] \in DOMAIN new.pools[y[1]].accts
    BY <1>6, PlaceIs
  <2>2. CASE y[1] # p
    <3>1. <<y[1], y[2]>> \in Places(doc)
      BY <1>6, <2>1, <2>2, PlaceIs
    <3> QED BY <1>2, <1>6, <2>1, <2>2, <3>1 DEF At, Back
  <2>3. CASE y[1] = p /\ y[2] < i
    <3>1. y[2] \in 1 .. Len(old) /\ s[y[2]] = old[y[2]] /\ y[2] # i /\ ~(y[2] >= i)
      BY <1>2, <1>3, <1>4, <1>5, <1>6, <2>1, <2>3
    <3>2. <<y[1], y[2]>> \in Places(doc)
      BY <1>2, <1>3, <2>3, <3>1, PlaceIs DEF old
    <3> QED BY <1>2, <1>6, <2>1, <2>3, <3>1, <3>2 DEF At, old, Back
  <2>4. CASE y[1] = p /\ ~(y[2] < i)
    <3>1. y[2] + 1 \in 1 .. Len(old) /\ s[y[2]] = old[y[2] + 1] /\ y[2] + 1 # i /\ y[2] >= i
      BY <1>2, <1>3, <1>4, <1>5, <1>6, <2>1, <2>4
    <3>2. <<p, y[2] + 1>> \in Places(doc)
      BY <1>2, <1>3, <3>1, PlaceIs DEF old
    <3>3. Back(x, y) = <<p, y[2] + 1>> /\ Back(x, y) # x
      BY <1>2, <2>4, <3>1 DEF Back
    <3> QED BY <1>2, <1>6, <2>1, <2>4, <3>1, <3>2, <3>3 DEF At, old
  <2> QED BY <2>2, <2>3, <2>4
<1>8. ASSUME NEW y \in Places(new), NEW z \in Places(new), Back(x, y) = Back(x, z)
      PROVE  y = z
  <2>1. y = <<y[1], y[2]>> /\ y[1] \in DOMAIN doc.pools /\ y[2] \in DOMAIN new.pools[y[1]].accts
    BY <1>6, PlaceIs
  <2>2. z = <<z[1], z[2]>> /\ z[1] \in DOMAIN doc.pools /\ z[2] \in DOMAIN new.pools[z[1]].accts
    BY <1>6, PlaceIs
  <2>3. y[1] = z[1]
    BY <1>8, <2>1, <2>2 DEF Back
  <2>4. CASE y[1] # p
    BY <1>8, <2>3, <2>4 DEF Back
  <2>5. CASE y[1] = p
    <3>1. y[2] \in 1 .. Len(old) - 1 /\ z[2] \in 1 .. Len(old) - 1 /\ i \in Nat
      BY <1>2, <1>3, <1>5, <1>6, <2>1, <2>2, <2>3, <2>5
    <3>2. (IF y[2] >= i THEN y[2] + 1 ELSE y[2]) = (IF z[2] >= i THEN z[2] + 1 ELSE z[2])
      BY <1>8, <2>1, <2>2, <2>3, <2>5 DEF Back
    <3>3. y[2] = z[2]
      BY <1>3, <3>1, <3>2
    <3> QED BY <2>1, <2>2, <2>3, <3>3
  <2> QED BY <2>4, <2>5
<1> QED BY <1>6, <1>7, <1>8

\* With an entry more, at the end.
Adds(new, doc, p, e) == new = [doc EXCEPT !.pools[p].accts = Append(@, e)]

LEMMA AppendedTo ==
  ASSUME NEW doc, Whole(doc), NEW p \in DOMAIN doc.pools, NEW e,
         NEW new, Adds(new, doc, p, e),
         NEW last, last = <<p, Len(doc.pools[p].accts) + 1>>
  PROVE  /\ Whole(new) /\ DOMAIN new.pools = DOMAIN doc.pools
         /\ last \in Places(new) /\ last \notin Places(doc) /\ At(new, last) = e
         /\ \A y \in Places(new) : y # last => y \in Places(doc) /\ At(new, y) = At(doc, y)
<1> DEFINE old == doc.pools[p].accts
           s == Append(old, e)
<1>1. old \in Seq(Range(old)) /\ Len(old) \in Nat /\ DOMAIN old = 1 .. Len(old)
  BY AcctsAre
<1>2. Puts(new, doc, p, s) /\ last = <<p, Len(old) + 1>>
  BY DEF Puts, Adds
<1> HIDE DEF old
<1>3. s = [j \in 1 .. Len(old) + 1 |-> IF j <= Len(old) THEN old[j] ELSE e]
  BY <1>1, AppendedIs
<1>4. /\ s \in Seq(Range(s)) /\ DOMAIN s = 1 .. Len(old) + 1 /\ s[Len(old) + 1] = e
      /\ \A j \in 1 .. Len(old) : s[j] = old[j]
  <2>1. Len(old) + 1 \in Nat /\ s = [j \in 1 .. Len(old) + 1 |-> s[j]]
    BY <1>1, <1>3
  <2>2. DOMAIN s = 1 .. Len(old) + 1 /\ s[Len(old) + 1] = e /\ \A j \in 1 .. Len(old) : s[j] = old[j]
    BY <1>1, <1>3
  <2> HIDE DEF s
  <2> QED BY <2>1, <2>2, OwnSeq
<1> HIDE DEF s
<1>5. /\ Whole(new) /\ DOMAIN new.pools = DOMAIN doc.pools /\ new.pools[p].accts = s
      /\ \A q \in DOMAIN doc.pools : q # p => new.pools[q] = doc.pools[q]
  BY <1>2, <1>4, PoolWith
<1>6. last \in Places(new)
  <2>1. Len(old) + 1 \in DOMAIN s
    BY <1>1, <1>4
  <2> QED BY <1>2, <1>5, <2>1, PlaceIs
<1>7. last \notin Places(doc)
  <2>1. Len(old) + 1 \notin DOMAIN old
    BY <1>1
  <2> QED BY <1>2, <2>1, PlaceIs DEF old
<1>8. At(new, last) = e
  BY <1>2, <1>4, <1>5 DEF At
<1>9. ASSUME NEW y \in Places(new), y # last
      PROVE  y \in Places(doc) /\ At(new, y) = At(doc, y)
  <2>1. y = <<y[1], y[2]>> /\ y[1] \in DOMAIN doc.pools /\ y[2] \in DOMAIN new.pools[y[1]].accts
    BY <1>5, PlaceIs
  <2>2. CASE y[1] = p
    <3>1. y[2] \in 1 .. Len(old) + 1 /\ y[2] # Len(old) + 1
      BY <1>2, <1>4, <1>5, <1>9, <2>1, <2>2
    <3>2. y[2] \in 1 .. Len(old) /\ s[y[2]] = old[y[2]]
      BY <1>1, <1>4, <3>1
    <3>3. <<p, y[2]>> \in Places(doc)
      BY <1>1, <3>2, PlaceIs DEF old
    <3> QED BY <1>5, <2>1, <2>2, <3>2, <3>3 DEF At, old
  <2>3. CASE y[1] # p
    <3>1. <<y[1], y[2]>> \in Places(doc)
      BY <1>5, <2>1, <2>3, PlaceIs
    <3> QED BY <1>5, <2>1, <2>3, <3>1 DEF At
  <2> QED BY <2>2, <2>3
<1> QED BY <1>5, <1>6, <1>7, <1>8, <1>9 DEF old

\* A document where the entry at x has moved to the end of pool p.
Moves(new, doc, x, p) ==
  \E left : Puts(left, doc, x[1], RemoveAt(doc.pools[x[1]].accts, x[2])) /\ Adds(new, left, p, At(doc, x))
Behind(doc, p) == <<p, Len(doc.pools[p].accts) + 1>>

\* An entry that moves to another pool stays what it is, and so does every other.
LEMMA MovedTo ==
  ASSUME NEW top \in Nat, NEW k \in BOOLEAN, NEW doc, Sane(doc, top, k),
         NEW x \in Places(doc), NEW p \in DOMAIN doc.pools, p # x[1],
         NEW new, Moves(new, doc, x, p),
         NEW last, last = Behind(doc, p)
  PROVE  /\ Sane(new, top, k) /\ DOMAIN new.pools = DOMAIN doc.pools
         /\ last \in Places(new) /\ At(new, last) = At(doc, x)
         /\ \A y \in Places(new) : y # last => \E z \in Places(doc) : z # x /\ At(new, y) = At(doc, z)
<1> DEFINE g == [y \in Places(new) |-> IF y = last THEN x ELSE Back(x, y)]
<1>m. PICK left : /\ Puts(left, doc, x[1], RemoveAt(doc.pools[x[1]].accts, x[2]))
                  /\ Adds(new, left, p, At(doc, x))
  BY DEF Moves
<1>1. Whole(doc)
  BY DocumentIs DEF Sane
<1>2. /\ Whole(left) /\ DOMAIN left.pools = DOMAIN doc.pools
      /\ \A y \in Places(left) : Back(x, y) \in Places(doc) \ {x} /\ At(left, y) = At(doc, Back(x, y))
      /\ \A y, z \in Places(left) : Back(x, y) = Back(x, z) => y = z
      /\ \A q \in DOMAIN doc.pools : q # x[1] => left.pools[q] = doc.pools[q]
  BY <1>1, <1>m, RemovedFrom
<1>3. p \in DOMAIN left.pools /\ last = <<p, Len(left.pools[p].accts) + 1>>
  BY <1>2 DEF Behind
<1>4. /\ Whole(new) /\ DOMAIN new.pools = DOMAIN left.pools
      /\ last \in Places(new) /\ At(new, last) = At(doc, x)
      /\ \A y \in Places(new) : y # last => y \in Places(left) /\ At(new, y) = At(left, y)
  BY <1>2, <1>3, <1>m, AppendedTo
<1>5. ASSUME NEW y \in Places(new) PROVE g[y] \in Places(doc) /\ At(new, y) = At(doc, g[y])
  BY <1>2, <1>4
<1>6. ASSUME NEW y \in Places(new), NEW z \in Places(new), g[y] = g[z] PROVE y = z
  <2>1. CASE y = last /\ z # last
    BY <1>2, <1>4, <1>6, <2>1
  <2>2. CASE y # last /\ z = last
    BY <1>2, <1>4, <1>6, <2>2
  <2>3. CASE y # last /\ z # last
    BY <1>2, <1>4, <1>6, <2>3
  <2> QED BY <2>1, <2>2, <2>3
<1>7. ComesFrom(new, doc, g)
  BY <1>5, <1>6 DEF ComesFrom
<1>8. \A y \in Places(new) : y # last => \E z \in Places(doc) : z # x /\ At(new, y) = At(doc, z)
  BY <1>2, <1>4
<1> HIDE DEF g
<1>9. Sane(new, top, k)
  BY <1>4, <1>7, Relocated
<1> QED BY <1>2, <1>4, <1>8, <1>9

LEMMA NoPlaceIs ==
  ASSUME NEW doc, Whole(doc)
  PROVE  NoPlace \notin Places(doc)
<1>1. NoPool \notin DOMAIN doc.pools
  BY DEF Whole
<1> QED BY <1>1, PlaceIs DEF NoPlace

Enters(at, doc, pool, place, e) == at = EntryAt(doc, pool, place, e)

\* The account a login finds or creates is in the pool it logs into, as it was,
\* and every other account is one of those that were there.
LEMMA EntryAtIs ==
  ASSUME NEW top \in Nat, NEW k \in BOOLEAN, NEW doc, Sane(doc, top, k), NEW pool \in Nat \ {NoPool},
         NEW place \in Places(doc) \cup {NoPlace}, NEW e, Blank(e),
         NEW at, Enters(at, doc, pool, place, e)
  PROVE  /\ Sane(at.doc, top, k) /\ at.place \in Places(at.doc)
         /\ At(at.doc, at.place) = IF place = NoPlace THEN e ELSE At(doc, place)
         /\ \A y \in Places(at.doc) : y # at.place => \E z \in Places(doc) : z # place /\ At(at.doc, y) = At(doc, z)
<1> DEFINE with == EnsurePool(doc, pool)
           left == [with EXCEPT !.pools[place[1]].accts = RemoveAt(@, place[2])]
           last == <<pool, Len(with.pools[pool].accts) + 1>>
           made == [with EXCEPT !.pools[pool].accts = Append(@, e)]
           moved == [left EXCEPT !.pools[pool].accts = Append(@, At(doc, place))]
<1>1. Whole(doc) /\ NoPlace \notin Places(doc)
  BY DocumentIs, NoPlaceIs DEF Sane
<1>2. /\ Sane(with, top, k) /\ pool \in DOMAIN with.pools /\ Places(with) = Places(doc)
      /\ Whole(with) /\ \A y \in Places(doc) : At(with, y) = At(doc, y)
  BY <1>1, EnsurePoolIs, EnsurePoolSane
<1>3. CASE place # NoPlace /\ place[1] = pool
  <2>1. at = [doc |-> doc, place |-> place]
    BY <1>3 DEF EntryAt, Enters
  <2>2. at.doc = doc /\ at.place = place /\ place \in Places(doc)
    BY <1>3, <2>1
  <2>3. \A y \in Places(doc) : y # place => \E z \in Places(doc) : z # place /\ At(doc, y) = At(doc, z)
    OBVIOUS
  <2> QED BY <1>3, <2>2, <2>3
<1>4. CASE place = NoPlace
  <2>1. at = [doc |-> made, place |-> last]
    BY <1>4 DEF EntryAt, Enters
  <2> HIDE DEF with
  <2>2. /\ Adds(made, with, pool, e)
        /\ last = <<pool, Len(with.pools[pool].accts) + 1>>
    BY DEF Adds
  <2> HIDE DEF made, last
  <2>3. /\ Whole(made) /\ last \in Places(made) /\ last \notin Places(with) /\ At(made, last) = e
        /\ \A y \in Places(made) : y # last => y \in Places(with) /\ At(made, y) = At(with, y)
    BY <1>2, <2>2, AppendedTo
  <2> DEFINE g == [y \in Places(made) |-> IF y = last THEN NoPlace ELSE y]
  <2>4. ComesFrom(made, with, g)
    BY <2>3 DEF ComesFrom
  <2> HIDE DEF g
  <2>5. Sane(made, top, k)
    BY <1>2, <2>3, <2>4, Relocated
  <2>6. at.doc = made /\ at.place = last
    BY <2>1
  <2>7. \A y \in Places(made) : y # last => \E z \in Places(doc) : z # place /\ At(made, y) = At(doc, z)
    BY <1>1, <1>2, <1>4, <2>3
  <2> QED BY <1>4, <2>3, <2>5, <2>6, <2>7
<1>5. CASE place # NoPlace /\ place[1] # pool
  <2>1. at = [doc |-> moved, place |-> last]
    BY <1>5 DEF EntryAt, Enters
  <2>2. place \in Places(with) /\ At(with, place) = At(doc, place)
    BY <1>2, <1>5
  <2> HIDE DEF with
  <2>3. Moves(moved, with, place, pool) /\ last = Behind(with, pool)
    BY <2>2 DEF Moves, Puts, Adds, Behind
  <2> HIDE DEF left, moved, last
  <2>4. /\ Sane(moved, top, k) /\ last \in Places(moved) /\ At(moved, last) = At(with, place)
        /\ \A y \in Places(moved) : y # last => \E z \in Places(with) : z # place /\ At(moved, y) = At(with, z)
    <3>1. pool \in DOMAIN with.pools /\ pool # place[1] /\ Sane(with, top, k) /\ place \in Places(with)
      BY <1>2, <1>5, <2>2
    <3> QED BY <2>3, <3>1, MovedTo
  <2>5. at.doc = moved /\ at.place = last
    BY <2>1
  <2>6. \A y \in Places(moved) : y # last => \E z \in Places(doc) : z # place /\ At(moved, y) = At(doc, z)
    BY <1>2, <2>4
  <2> QED BY <1>5, <2>2, <2>4, <2>5, <2>6
<1> QED BY <1>3, <1>4, <1>5

---------------------------------------------------------------------------
(* Finding entries.                                                        *)

LEMMA FirstPlaceIs ==
  ASSUME NEW doc, Whole(doc), NEW S, S \subseteq Places(doc)
  PROVE  /\ S # {} => FirstPlace(doc, S) \in S
         /\ S = {} => FirstPlace(doc, S) = NoPlace
<1>1. SUFFICES ASSUME S # {} PROVE \E x \in S : \A y \in S : NotAfter(doc, x, y)
  BY DEF FirstPlace
<1> DEFINE rank(x) == PoolRank(doc, x[1])
           R == {rank(x) : x \in S}
<1>2. \A x \in S : x = <<x[1], x[2]>> /\ x[1] \in Nat \ {NoPool} /\ x[2] \in Nat
  <2> TAKE x \in S
  <2>1. x = <<x[1], x[2]>> /\ x[1] \in DOMAIN doc.pools /\ x[2] \in DOMAIN doc.pools[x[1]].accts
    BY PlaceIs
  <2>2. DOMAIN doc.pools[x[1]].accts = 1 .. Len(doc.pools[x[1]].accts)
    BY <2>1, AcctsAre
  <2> QED BY <2>1, <2>2 DEF Whole
<1>3. \A x \in S : rank(x) \in Nat
  BY <1>2 DEF PoolRank
<1>4. \A x, y \in S : rank(x) = rank(y) => x[1] = y[1]
  BY <1>2 DEF PoolRank, NoPool
<1> HIDE DEF rank
<1>5. PICK r \in R : \A s \in R : r <= s
  BY <1>1, <1>3, LeastIsOne
<1> DEFINE T == {x[2] : x \in {y \in S : rank(y) = r}}
<1>6. T # {} /\ T \subseteq Nat
  BY <1>2, <1>5
<1>7. PICK i \in T : \A j \in T : i <= j
  BY <1>6, LeastIsOne
<1>8. PICK x \in S : rank(x) = r /\ x[2] = i
  BY <1>7
<1>9. ASSUME NEW y \in S PROVE NotAfter(doc, x, y)
  <2>1. r <= rank(y) /\ rank(y) \in Nat /\ r \in Nat
    BY <1>3, <1>5
  <2>2. CASE r < rank(y)
    BY <1>8, <2>2 DEF NotAfter, rank
  <2>3. CASE rank(y) = r
    <3>1. x[1] = y[1] /\ x[2] <= y[2]
      BY <1>4, <1>7, <1>8, <2>3
    <3> QED BY <3>1 DEF NotAfter
  <2> QED BY <2>1, <2>2, <2>3
<1> QED BY <1>8, <1>9

\* The entry a login uses: one that passes the first test, when there is one.
LEMMA OrElseIs ==
  ASSUME NEW doc, Whole(doc), NEW S, S \subseteq Places(doc), NEW T, T \subseteq Places(doc)
  PROVE  LET place == OrElse(FirstPlace(doc, S), FirstPlace(doc, T)) IN
         /\ place \in Places(doc) \cup {NoPlace}
         /\ S # {} => place \in S
         /\ place = NoPlace \/ place \in S \cup T
<1>1. NoPlace \notin Places(doc)
  BY NoPlaceIs
<1> QED BY <1>1, FirstPlaceIs DEF OrElse

---------------------------------------------------------------------------
(* Logins and imports.                                                     *)

LEMMA BlankIs ==
  ASSUME NEW name
  PROVE  /\ Blank(NewAccount(name)) /\ ~NewAccount(name).apikey /\ ~NewAccount(name).codex
         /\ Blank([NewAccount(name) EXCEPT !.apikey = TRUE])
         /\ Blank([NewAccount(name) EXCEPT !.codex = TRUE]) /\ [NewAccount(name) EXCEPT !.codex = TRUE].codex
BY DEF NewAccount, Blank, NoId, Unknown

\* An entry with the fields of a profile; it is another's login only when it was.
LEMMA ProfileTaken ==
  ASSUME NEW a, NEW b, NEW e, NEW prof,
         prof.user = Unknown => prof.org = Unknown,
         e.user = Or(prof.user, a.user), e.org = Or(prof.org, a.org), e.codex = a.codex,
         SameLogin(e, b), ~OfProfile(b, prof) \/ (OfProfile(b, prof) /\ OfProfile(a, prof))
  PROVE  SameLogin(a, b)
BY DEF Or, SameLogin, Known, OfProfile

LEMMA EntryFields ==
  ASSUME NEW e, DOMAIN e = DOMAIN NewAccount(<<>>)
  PROVE  DOMAIN e = {"name", "user", "org", "apikey", "codex", "link", "id", "tok", "key", "off"}
BY DEF NewAccount

LEMMA UpsertSane ==
  ASSUME NEW top \in Nat, NEW k \in BOOLEAN, NEW doc, Sane(doc, top, k), NEW pool \in Nat \ {NoPool},
         NEW name, NEW tok, NEW prof, prof.user = Unknown => prof.org = Unknown, NEW link
  PROVE  Sane(Upsert(doc, pool, name, tok, prof, link), top, k)
<1> DEFINE S == {x \in Places(doc) : OfProfile(At(doc, x), prof)}
           T == {x \in Places(doc) : At(doc, x).name = name}
           place == OrElse(FirstPlace(doc, S), FirstPlace(doc, T))
           new == NewAccount(name)
           at == EntryAt(doc, pool, place, new)
           a == At(at.doc, at.place)
           e == [a EXCEPT !.name = name, !.apikey = FALSE, !.link = link, !.tok = tok,
                          !.user = Or(prof.user, @), !.org = Or(prof.org, @)]
<1>1. Upsert(doc, pool, name, tok, prof, link) = SetAt(at.doc, at.place, e)
  BY DEF Upsert, Amend, LocateBy
<1>2. Whole(doc)
  BY DocumentIs DEF Sane
<1>3. /\ place \in Places(doc) \cup {NoPlace} /\ (S # {} => place \in S)
      /\ place = NoPlace \/ place \in S \cup T
  <2>1. S \subseteq Places(doc) /\ T \subseteq Places(doc)
    OBVIOUS
  <2> HIDE DEF S, T
  <2> QED BY <1>2, <2>1, OrElseIs
<1>4. Blank(new)
  BY BlankIs
<1>t. Enters(at, doc, pool, place, new)
  BY DEF Enters
<1> HIDE DEF S, T, place, new, at
<1>5. /\ Sane(at.doc, top, k) /\ at.place \in Places(at.doc)
      /\ a = IF place = NoPlace THEN new ELSE At(doc, place)
      /\ \A y \in Places(at.doc) : y # at.place => \E z \in Places(doc) : z # place /\ At(at.doc, y) = At(doc, z)
  <2>1. place \in Places(doc) \cup {NoPlace}
    BY <1>3
  <2> HIDE DEF e, a
  <2>2. /\ Sane(at.doc, top, k) /\ at.place \in Places(at.doc)
        /\ At(at.doc, at.place) = IF place = NoPlace THEN new ELSE At(doc, place)
        /\ \A y \in Places(at.doc) : y # at.place => \E z \in Places(doc) : z # place /\ At(at.doc, y) = At(doc, z)
    BY <1>t, <1>4, <2>1, EntryAtIs
  <2> QED BY <2>2 DEF a
<1>6. IsEntry(a, top)
  BY <1>5, DocumentIs DEF Sane
<1> HIDE DEF a
<1>7. /\ DOMAIN e = DOMAIN NewAccount(<<>>) /\ e.id = a.id /\ e.codex = a.codex /\ e.apikey = FALSE
      /\ e.user = Or(prof.user, a.user) /\ e.org = Or(prof.org, a.org)
  BY <1>6, EntryFields DEF IsEntry
<1> HIDE DEF e
<1>8. ASSUME k, NEW y \in Places(at.doc), y # at.place, SameLogin(e, At(at.doc, y)) PROVE FALSE
  <2>1. PICK z \in Places(doc) : z # place /\ At(at.doc, y) = At(doc, z)
    BY <1>5, <1>8
  <2>2. OfProfile(At(doc, z), prof) => OfProfile(a, prof)
    <3>1. NoPlace \notin Places(doc)
      BY <1>2, NoPlaceIs
    <3> QED BY <1>3, <1>5, <3>1 DEF S
  <2>3. SameLogin(a, At(at.doc, y))
    BY <1>7, <1>8, <2>1, <2>2, ProfileTaken
  <2> QED BY <1>5, <1>8, <2>3 DEF Sane, LoginsApart, a
<1>9. Sane(SetAt(at.doc, at.place, e), top, k)
  BY <1>5, <1>7, <1>8, AmendedSane DEF a
<1> QED BY <1>1, <1>9

LEMMA UpsertAcrobatSane ==
  ASSUME NEW top \in Nat, NEW k \in BOOLEAN, NEW before, Sane(before, top, k),
         NEW src, src.pool \in Nat \ {NoPool}, src.user = Unknown => src.org = Unknown
  PROVE  Sane(UpsertAcrobat(before, src), top, k)
<1> DEFINE doc == EnsurePool(before, src.pool)
           S == {x \in Places(before) : AnthropicOauth(At(before, x)) /\ OfProfile(At(before, x), src)}
           T == {x \in Places(before) : AnthropicOauth(At(before, x)) /\ At(before, x).name = src.name}
           place == OrElse(FirstPlace(before, S), FirstPlace(before, T))
           new == NewAccount(src.name)
           at == EntryAt(doc, src.pool, place, new)
           a == At(at.doc, at.place)
           e == [a EXCEPT !.name = src.name, !.off = src.off, !.link = src.link, !.tok = src.tok,
                          !.user = Or(src.user, @), !.org = Or(src.org, @)]
<1>1. UpsertAcrobat(before, src) = SetAt(at.doc, at.place, e)
  BY DEF UpsertAcrobat, Amend, LocateBy
<1>2. Sane(doc, top, k)
  BY EnsurePoolSane
<1>3. Whole(doc) /\ Whole(before)
  BY <1>2, DocumentIs DEF Sane
<1>p. Places(doc) = Places(before) /\ \A x \in Places(before) : At(doc, x) = At(before, x)
  BY <1>3, EnsurePoolIs
<1> HIDE DEF doc
<1>4. /\ place \in Places(doc) \cup {NoPlace} /\ (S # {} => place \in S)
      /\ place = NoPlace \/ place \in S \cup T
  <2>1. S \subseteq Places(before) /\ T \subseteq Places(before)
    OBVIOUS
  <2> HIDE DEF S, T
  <2> QED BY <1>p, <1>3, <2>1, OrElseIs
<1>5. Blank(new) /\ ~new.apikey /\ ~new.codex
  BY BlankIs
<1>t. Enters(at, doc, src.pool, place, new)
  BY DEF Enters
<1> HIDE DEF place, new, at
<1>6. /\ Sane(at.doc, top, k) /\ at.place \in Places(at.doc)
      /\ a = IF place = NoPlace THEN new ELSE At(doc, place)
      /\ \A y \in Places(at.doc) : y # at.place => \E z \in Places(doc) : z # place /\ At(at.doc, y) = At(doc, z)
  <2> HIDE DEF S, T
  <2> QED BY <1>t, <1>2, <1>4, <1>5, EntryAtIs
<1>7. IsEntry(a, top)
  BY <1>6, DocumentIs DEF Sane
<1>8. ~a.apikey
  BY <1>p, <1>4, <1>5, <1>6 DEF AnthropicOauth
<1> HIDE DEF a, S, T
<1>9. /\ DOMAIN e = DOMAIN NewAccount(<<>>) /\ e.id = a.id /\ e.codex = a.codex /\ e.apikey = a.apikey
      /\ e.user = Or(src.user, a.user) /\ e.org = Or(src.org, a.org)
  BY <1>7, EntryFields DEF IsEntry
<1> HIDE DEF e
<1>10. ASSUME k, NEW y \in Places(at.doc), y # at.place, SameLogin(e, At(at.doc, y)) PROVE FALSE
  <2>1. PICK z \in Places(doc) : z # place /\ At(at.doc, y) = At(doc, z)
    BY <1>6, <1>10
  <2>2. OfProfile(At(doc, z), src) => OfProfile(a, src)
    <3>1. SUFFICES ASSUME OfProfile(At(doc, z), src) PROVE OfProfile(a, src)
      OBVIOUS
    <3>2. AnthropicOauth(At(doc, z))
      BY <1>2, <1>10, <3>1 DEF Sane, KeysBare, OfProfile, AnthropicOauth
    <3>3. place \in S /\ place # NoPlace
      <4>1. NoPlace \notin Places(doc)
        BY <1>3, NoPlaceIs
      <4> QED BY <1>p, <1>4, <3>1, <3>2, <4>1 DEF S
    <3> QED BY <1>p, <1>6, <3>3 DEF S
  <2>3. SameLogin(a, At(at.doc, y))
    BY <1>9, <1>10, <2>1, <2>2, ProfileTaken
  <2> QED BY <1>6, <1>10, <2>3 DEF Sane, LoginsApart, a
<1>11. Sane(SetAt(at.doc, at.place, e), top, k)
  <2>1. e.apikey /\ ~e.codex => e.user = Unknown
    BY <1>8, <1>9
  <2> QED BY <1>6, <1>9, <1>10, <2>1, AmendedSane DEF a
<1> QED BY <1>1, <1>11

LEMMA AddApiKeySane ==
  ASSUME NEW top \in Nat, NEW doc, Sane(doc, top, FALSE), NEW pool \in Nat \ {NoPool}, NEW name, NEW tok
  PROVE  Sane(AddApiKey(doc, pool, name, tok), top, FALSE)
<1> DEFINE T == {x \in Places(doc) : At(doc, x).name = name}
           place == FirstPlace(doc, T)
           new == [NewAccount(name) EXCEPT !.apikey = TRUE]
           at == EntryAt(doc, pool, place, new)
           a == At(at.doc, at.place)
           e == [a EXCEPT !.apikey = TRUE, !.key = tok]
<1>1. AddApiKey(doc, pool, name, tok) = SetAt(at.doc, at.place, e)
  BY DEF AddApiKey, Amend, LocateBy
<1>2. Whole(doc)
  BY DocumentIs DEF Sane
<1>3. place \in Places(doc) \cup {NoPlace}
  <2>1. T \subseteq Places(doc)
    OBVIOUS
  <2> HIDE DEF T
  <2> QED BY <1>2, <2>1, FirstPlaceIs
<1>4. Blank(new) /\ Enters(at, doc, pool, place, new)
  BY BlankIs DEF Enters
<1> HIDE DEF T, place, new, at, e, a
<1>5. Sane(at.doc, top, FALSE) /\ at.place \in Places(at.doc)
  BY <1>3, <1>4, EntryAtIs
<1>6. IsEntry(a, top)
  BY <1>5, DocumentIs DEF Sane, a
<1>7. DOMAIN e = DOMAIN NewAccount(<<>>) /\ e.id = a.id
  BY <1>6, EntryFields DEF IsEntry, e
<1>8. Sane(SetAt(at.doc, at.place, e), top, FALSE)
  BY <1>5, <1>7, AmendedSane DEF a
<1> QED BY <1>1, <1>8

LEMMA AddCodexSane ==
  ASSUME NEW top \in Nat, NEW k \in BOOLEAN, NEW doc, Sane(doc, top, k), NEW pool \in Nat \ {NoPool},
         NEW name, NEW tok, NEW prof, NEW link
  PROVE  Sane(AddCodex(doc, pool, name, tok, prof, link), top, k)
<1> DEFINE T == {x \in Places(doc) : /\ At(doc, x).codex
                                     /\ (prof.user # Unknown /\ At(doc, x).user = prof.user) \/ At(doc, x).name = name}
           place == FirstPlace(doc, T)
           new == [NewAccount(name) EXCEPT !.codex = TRUE]
           at == EntryAt(doc, pool, place, new)
           a == At(at.doc, at.place)
           e == [a EXCEPT !.name = name, !.link = link, !.user = Or(prof.user, @), !.tok = tok]
<1>1. AddCodex(doc, pool, name, tok, prof, link) = SetAt(at.doc, at.place, e)
  BY DEF AddCodex, Amend, LocateBy
<1>2. Whole(doc)
  BY DocumentIs DEF Sane
<1>3. place \in Places(doc) \cup {NoPlace} /\ (place = NoPlace \/ At(doc, place).codex)
  <2>1. T \subseteq Places(doc) /\ \A x \in T : At(doc, x).codex
    OBVIOUS
  <2> HIDE DEF T
  <2> QED BY <1>2, <2>1, FirstPlaceIs
<1>4. Blank(new) /\ new.codex /\ Enters(at, doc, pool, place, new)
  BY BlankIs DEF Enters
<1> HIDE DEF T, place, new, at, e, a
<1>5. /\ Sane(at.doc, top, k) /\ at.place \in Places(at.doc)
      /\ At(at.doc, at.place) = IF place = NoPlace THEN new ELSE At(doc, place)
  BY <1>3, <1>4, EntryAtIs
<1>6. IsEntry(a, top) /\ a.codex
  BY <1>3, <1>4, <1>5, DocumentIs DEF Sane, a
<1>7. DOMAIN e = DOMAIN NewAccount(<<>>) /\ e.id = a.id /\ e.codex = a.codex
  BY <1>6, EntryFields DEF IsEntry, e
<1>8. \A b : ~SameLogin(e, b)
  BY <1>6, <1>7 DEF SameLogin, Known
<1>9. Sane(SetAt(at.doc, at.place, e), top, k)
  BY <1>5, <1>6, <1>7, <1>8, AmendedSane DEF a
<1> QED BY <1>1, <1>9

---------------------------------------------------------------------------
(* Edits of accounts and pools.                                            *)

LEMMA MinIs ==
  ASSUME NEW S, S \subseteq Nat, S # {}
  PROVE  Min(S) \in S
<1>1. \E x \in S : \A y \in S : x <= y
  BY LeastIsOne
<1> QED BY <1>1 DEF Min

\* A handle names an account of the document, or none.
LEMMA LocateIs ==
  ASSUME NEW doc, Whole(doc), NEW p, NEW needle
  PROVE  Locate(doc, p, needle) \in Places(doc) \cup {NoPlace}
<1> DEFINE fits(q) == MatchIn(doc, q, needle)
           pools == {q \in IF p = NoPool THEN DOMAIN doc.pools ELSE {p} \cap DOMAIN doc.pools : fits(q) # {}}
           q == FirstPool(doc, pools)
<1>1. Locate(doc, p, needle) = IF pools = {} THEN NoPlace ELSE TheOne(q, fits(q))
  BY DEF Locate
<1>2. SUFFICES ASSUME pools # {}, Cardinality(fits(q)) = 1 PROVE <<q, Min(fits(q))>> \in Places(doc)
  BY <1>1 DEF TheOne
<1>3. pools \subseteq DOMAIN doc.pools
  OBVIOUS
<1> HIDE DEF pools
<1>4. q \in DOMAIN doc.pools
  <2> DEFINE R == {PoolRank(doc, x) : x \in pools}
  <2>1. R \subseteq Nat /\ R # {}
    BY <1>2, <1>3 DEF PoolRank, Whole
  <2>2. PICK r \in R : \A s \in R : r <= s
    BY <2>1, LeastIsOne
  <2>3. \E x \in pools : \A y \in pools : PoolRank(doc, x) <= PoolRank(doc, y)
    BY <2>2
  <2>4. q \in pools
    BY <2>3 DEF FirstPool
  <2> QED BY <1>3, <2>4
<1> HIDE DEF q
<1>5. fits(q) \subseteq DOMAIN doc.pools[q].accts
  <2> DEFINE accts == doc.pools[q].accts
             exact == {i \in DOMAIN accts : needle \in {accts[i].name, <<"#", accts[i].id>>}}
             pair  == {i \in DOMAIN accts : <<"/", accts[i].user, accts[i].org>> = needle}
             loose == {i \in DOMAIN accts : \/ <<accts[i].user>> = needle
                                            \/ <<accts[i].org>> = needle
                                            \/ <<Head(accts[i].name)>> = needle}
  <2>1. fits(q) = IF exact # {} THEN {Min(exact)} ELSE IF pair # {} THEN {Min(pair)} ELSE loose
    BY DEF MatchIn
  <2>2. exact \subseteq DOMAIN accts /\ pair \subseteq DOMAIN accts /\ loose \subseteq DOMAIN accts
    OBVIOUS
  <2>3. DOMAIN accts \subseteq Nat
    <3>1. Len(doc.pools[q].accts) \in Nat /\ DOMAIN doc.pools[q].accts = 1 .. Len(doc.pools[q].accts)
      BY <1>4, AcctsAre
    <3> QED BY <3>1
  <2> HIDE DEF exact, pair, loose, accts, fits
  <2>4. exact # {} => Min(exact) \in exact
    BY <2>2, <2>3, MinIs
  <2>5. pair # {} => Min(pair) \in pair
    BY <2>2, <2>3, MinIs
  <2> QED BY <2>1, <2>2, <2>4, <2>5 DEF accts
<1>6. fits(q) # {}
  BY <1>2, FS_EmptySet
<1> HIDE DEF fits
<1>7. Min(fits(q)) \in fits(q)
  <2>1. fits(q) \subseteq Nat
    BY <1>4, <1>5, AcctsAre
  <2> QED BY <1>6, <2>1, MinIs
<1> QED BY <1>4, <1>5, <1>7, PlaceIs

\* An edit of what is not the login of an entry.
LEMMA TouchedSane ==
  ASSUME NEW top \in Nat, NEW k \in BOOLEAN, NEW doc, Sane(doc, top, k), NEW x \in Places(doc), NEW e,
         LET a == At(doc, x) IN
         /\ DOMAIN e = DOMAIN a /\ e.id = a.id /\ e.user = a.user /\ e.org = a.org
         /\ e.apikey = a.apikey /\ e.codex = a.codex
  PROVE  Sane(SetAt(doc, x, e), top, k)
<1>1. DOMAIN e = DOMAIN NewAccount(<<>>)
  BY DocumentIs DEF Sane, IsEntry
<1>2. ASSUME k PROVE /\ \A y \in Places(doc) : y # x => ~SameLogin(e, At(doc, y))
                     /\ e.apikey /\ ~e.codex => e.user = Unknown
  BY <1>2 DEF Sane, LoginsApart, KeysBare, SameLogin, Known
<1> QED BY <1>1, <1>2, AmendedSane

LEMMA RemovedSane ==
  ASSUME NEW top \in Nat, NEW k \in BOOLEAN, NEW doc, Sane(doc, top, k), NEW p, NEW needle
  PROVE  \/ RemoveAccount(doc, p, needle) = Refused
         \/ Sane(RemoveAccount(doc, p, needle), top, k)
<1> DEFINE x == Locate(doc, p, needle)
           new == [doc EXCEPT !.pools[x[1]].accts = RemoveAt(@, x[2])]
           g == [y \in Places(new) |-> Back(x, y)]
<1>1. Whole(doc)
  BY DocumentIs DEF Sane
<1>2. x \in Places(doc) \cup {NoPlace}
  BY <1>1, LocateIs
<1>3. RemoveAccount(doc, p, needle) = IF x = NoPlace THEN Refused ELSE new
  BY DEF RemoveAccount, AtHandle
<1>4. SUFFICES ASSUME x # NoPlace PROVE Sane(new, top, k)
  BY <1>3
<1> HIDE DEF x
<1>5. Puts(new, doc, x[1], RemoveAt(doc.pools[x[1]].accts, x[2]))
  BY DEF Puts
<1> HIDE DEF new
<1>6. /\ Whole(new)
      /\ \A y \in Places(new) : Back(x, y) \in Places(doc) \ {x} /\ At(new, y) = At(doc, Back(x, y))
      /\ \A y, z \in Places(new) : Back(x, y) = Back(x, z) => y = z
  BY <1>1, <1>2, <1>4, <1>5, RemovedFrom
<1>7. ComesFrom(new, doc, g)
  BY <1>6 DEF ComesFrom
<1> HIDE DEF g
<1> QED BY <1>6, <1>7, Relocated

LEMMA SetDisabledSane ==
  ASSUME NEW top \in Nat, NEW k \in BOOLEAN, NEW doc, Sane(doc, top, k), NEW p, NEW needle, NEW off
  PROVE  \/ SetDisabled(doc, p, needle, off) = Refused
         \/ Sane(SetDisabled(doc, p, needle, off), top, k)
<1> DEFINE x == Locate(doc, p, needle)
           a == At(doc, x)
           e == [a EXCEPT !.off = off]
<1>1. Whole(doc)
  BY DocumentIs DEF Sane
<1>2. x \in Places(doc) \cup {NoPlace}
  BY <1>1, LocateIs
<1>3. SetDisabled(doc, p, needle, off) = IF x = NoPlace THEN Refused ELSE SetAt(doc, x, e)
  BY DEF SetDisabled, AtHandle, SetAt, At
<1>4. SUFFICES ASSUME x # NoPlace PROVE Sane(SetAt(doc, x, e), top, k)
  BY <1>3
<1> HIDE DEF x
<1>5. DOMAIN a = DOMAIN NewAccount(<<>>)
  BY <1>2, <1>4, DocumentIs DEF Sane, IsEntry
<1>6. /\ DOMAIN e = DOMAIN a /\ e.id = a.id /\ e.user = a.user /\ e.org = a.org
      /\ e.apikey = a.apikey /\ e.codex = a.codex
  BY <1>5, EntryFields
<1> HIDE DEF e
<1> QED BY <1>2, <1>4, <1>6, TouchedSane

LEMMA PutTokenSane ==
  ASSUME NEW top \in Nat, NEW k \in BOOLEAN, NEW doc, Sane(doc, top, k), NEW pool, NEW id, NEW tok
  PROVE  Sane(PutToken(doc, pool, id, tok), top, k)
<1> DEFINE mine == {i \in 1 .. Len(doc.pools[pool].accts) : doc.pools[pool].accts[i].id = id}
           i == Min(mine)
           x == <<pool, i>>
           a == At(doc, x)
           e == [a EXCEPT !.tok = tok]
<1>1. SUFFICES ASSUME pool \in DOMAIN doc.pools, mine # {} PROVE Sane(SetAt(doc, x, e), top, k)
  <2>1. \/ PutToken(doc, pool, id, tok) = doc
        \/ /\ pool \in DOMAIN doc.pools /\ mine # {}
           /\ PutToken(doc, pool, id, tok) = [doc EXCEPT !.pools[pool].accts[i].tok = tok]
    BY DEF PutToken
  <2> HIDE DEF mine, i
  <2>2. SetAt(doc, x, e) = [doc EXCEPT !.pools[pool].accts[i].tok = tok]
    BY DEF SetAt, At
  <2> QED BY <1>1, <2>1, <2>2
<1>2. Whole(doc)
  BY DocumentIs DEF Sane
<1>3. x \in Places(doc)
  <2>1. mine \subseteq DOMAIN doc.pools[pool].accts /\ mine \subseteq Nat
    BY <1>1, <1>2, AcctsAre
  <2> HIDE DEF mine
  <2>2. i \in mine
    BY <1>1, <2>1, MinIs
  <2> QED BY <1>1, <2>1, <2>2, PlaceIs
<1> HIDE DEF mine, i, x
<1>4. DOMAIN a = DOMAIN NewAccount(<<>>)
  BY <1>3, DocumentIs DEF Sane, IsEntry
<1>5. /\ DOMAIN e = DOMAIN a /\ e.id = a.id /\ e.user = a.user /\ e.org = a.org
      /\ e.apikey = a.apikey /\ e.codex = a.codex
  BY <1>4, EntryFields
<1> HIDE DEF e
<1> QED BY <1>3, <1>5, TouchedSane

\* A document with other settings, or with fewer pools.
Resettled(new, doc) ==
  /\ DOMAIN new = DOMAIN doc /\ new.default \in Nat \ {NoPool}
  /\ new.pools = [q \in DOMAIN new.pools |-> new.pools[q]] /\ DOMAIN new.pools \subseteq DOMAIN doc.pools
  /\ \A q \in DOMAIN new.pools : /\ DOMAIN new.pools[q] = DOMAIN doc.pools[q]
                                  /\ new.pools[q].accts = doc.pools[q].accts

LEMMA SettingsSane ==
  ASSUME NEW top \in Nat, NEW k \in BOOLEAN, NEW doc, Sane(doc, top, k), NEW new, Resettled(new, doc)
  PROVE  Sane(new, top, k)
<1>1. Whole(doc)
  BY DocumentIs DEF Sane
<1>2. IsFiniteSet(DOMAIN new.pools)
  BY <1>1, FS_Subset DEF Whole, Resettled
<1>3. \A q \in DOMAIN new.pools : /\ DOMAIN new.pools[q] = DOMAIN EmptyPool
                                  /\ new.pools[q].accts \in Seq(Range(new.pools[q].accts))
  BY <1>1 DEF Whole, Resettled
<1>4. Whole(new)
  BY <1>1, <1>2, <1>3 DEF Whole, Resettled
<1>5. \A q \in DOMAIN new.pools : q \in DOMAIN doc.pools /\ new.pools[q].accts = doc.pools[q].accts
  BY DEF Resettled
<1> QED BY <1>4, <1>5, Rearranged

\* A document with another row for a pool: settings, but not accounts.
LEMMA RowSane ==
  ASSUME NEW top \in Nat, NEW k \in BOOLEAN, NEW doc, Sane(doc, top, k), NEW p, NEW row,
         p \in DOMAIN doc.pools => DOMAIN row = DOMAIN doc.pools[p] /\ row.accts = doc.pools[p].accts,
         NEW new, new = [doc EXCEPT !.pools = [doc.pools EXCEPT ![p] = row]]
  PROVE  Sane(new, top, k) /\ DOMAIN new.pools = DOMAIN doc.pools
<1> DEFINE P == [doc.pools EXCEPT ![p] = row]
<1>1. Whole(doc)
  BY DocumentIs DEF Sane
<1>2. /\ P = [q \in DOMAIN P |-> P[q]] /\ DOMAIN P = DOMAIN doc.pools
      /\ \A q \in DOMAIN P : DOMAIN P[q] = DOMAIN doc.pools[q] /\ P[q].accts = doc.pools[q].accts
  OBVIOUS
<1>3. new = [doc EXCEPT !.pools = P]
  OBVIOUS
<1> HIDE DEF P
<1>4. DOMAIN new = DOMAIN doc /\ new.default = doc.default /\ new.pools = P
  BY <1>1, <1>3 DEF Whole
<1>5. new.default \in Nat \ {NoPool}
  BY <1>1, <1>4 DEF Whole
<1>6. /\ new.pools = [q \in DOMAIN new.pools |-> new.pools[q]] /\ DOMAIN new.pools = DOMAIN doc.pools
      /\ \A q \in DOMAIN new.pools : /\ DOMAIN new.pools[q] = DOMAIN doc.pools[q]
                                      /\ new.pools[q].accts = doc.pools[q].accts
  BY <1>2, <1>4
<1>7. Sane(new, top, k)
  <2>1. Resettled(new, doc)
    BY <1>4, <1>5, <1>6 DEF Resettled
  <2> QED BY <2>1, SettingsSane
<1> QED BY <1>6, <1>7

LEMMA PoolFields ==
  ASSUME NEW doc, Whole(doc), NEW p \in DOMAIN doc.pools
  PROVE  DOMAIN doc.pools[p] = {"accts", "dirs", "knob"}
BY DEF Whole, EmptyPool

LEMMA KnobSane ==
  ASSUME NEW top \in Nat, NEW k \in BOOLEAN, NEW doc, Sane(doc, top, k), NEW p, NEW knob
  PROVE  LET new == [doc EXCEPT !.pools[p].knob = knob] IN
         Sane(new, top, k) /\ DOMAIN new.pools = DOMAIN doc.pools
<1> DEFINE new == [doc EXCEPT !.pools[p].knob = knob]
           row == [doc.pools[p] EXCEPT !.knob = knob]
<1>1. new = [doc EXCEPT !.pools = [doc.pools EXCEPT ![p] = row]]
  OBVIOUS
<1>2. p \in DOMAIN doc.pools => DOMAIN row = DOMAIN doc.pools[p] /\ row.accts = doc.pools[p].accts
  <2>1. Whole(doc)
    BY DocumentIs DEF Sane
  <2> QED BY <2>1, PoolFields
<1> HIDE DEF new, row
<1>3. Sane(new, top, k) /\ DOMAIN new.pools = DOMAIN doc.pools
  BY <1>1, <1>2, RowSane
<1> QED BY <1>3 DEF new

LEMMA DirsSane ==
  ASSUME NEW top \in Nat, NEW k \in BOOLEAN, NEW doc, Sane(doc, top, k), NEW p, NEW dirs
  PROVE  Sane([doc EXCEPT !.pools[p].dirs = dirs], top, k)
<1> DEFINE new == [doc EXCEPT !.pools[p].dirs = dirs]
           row == [doc.pools[p] EXCEPT !.dirs = dirs]
<1>1. new = [doc EXCEPT !.pools = [doc.pools EXCEPT ![p] = row]]
  OBVIOUS
<1>2. p \in DOMAIN doc.pools => DOMAIN row = DOMAIN doc.pools[p] /\ row.accts = doc.pools[p].accts
  <2>1. Whole(doc)
    BY DocumentIs DEF Sane
  <2> QED BY <2>1, PoolFields
<1> HIDE DEF new, row
<1>3. Sane(new, top, k)
  BY <1>1, <1>2, RowSane
<1> QED BY <1>3 DEF new

LEMMA ConfiguredSane ==
  ASSUME NEW top \in Nat, NEW k \in BOOLEAN, NEW doc, Sane(doc, top, k), NEW p \in Nat \ {NoPool}, NEW set
  PROVE  Configured(doc, p, set) = Refused \/ Sane(Configured(doc, p, set), top, k)
<1> DEFINE d1 == [doc EXCEPT !.pools[p].knob = set.knob]
           d2 == [d1 EXCEPT !.pools[p].dirs = set.dirs]
           new == [d2 EXCEPT !.default = IF set.makeDefault THEN p ELSE @]
<1>1. Configured(doc, p, set) = Refused \/ Configured(doc, p, set) = new
  BY DEF Configured
<1>2. Sane(d1, top, k)
  BY KnobSane
<1> HIDE DEF d1
<1>3. Sane(d2, top, k)
  BY <1>2, DirsSane
<1> HIDE DEF d2
<1>4. Whole(d2)
  BY <1>3, DocumentIs DEF Sane
<1>5. DOMAIN new = DOMAIN d2 /\ new.pools = d2.pools /\ new.default = IF set.makeDefault THEN p ELSE d2.default
  BY <1>4 DEF Whole
<1> HIDE DEF new
<1>6. new.default \in Nat \ {NoPool} /\ d2.pools = [q \in DOMAIN d2.pools |-> d2.pools[q]]
  BY <1>4, <1>5 DEF Whole
<1>7. Sane(new, top, k)
  BY <1>3, <1>5, <1>6, SettingsSane DEF Resettled
<1> QED BY <1>1, <1>7

LEMMA PoolRmSane ==
  ASSUME NEW top \in Nat, NEW k \in BOOLEAN, NEW doc, Sane(doc, top, k), NEW p, NEW force
  PROVE  PoolRm(doc, p, force) = Refused \/ Sane(PoolRm(doc, p, force), top, k)
<1> DEFINE P == [q \in DOMAIN doc.pools \ {p} |-> doc.pools[q]]
           new == [doc EXCEPT !.pools = P]
<1>1. Whole(doc)
  BY DocumentIs DEF Sane
<1>2. PoolRm(doc, p, force) = Refused \/ PoolRm(doc, p, force) = new
  BY DEF PoolRm
<1> HIDE DEF P
<1>3. DOMAIN new = DOMAIN doc /\ new.default = doc.default /\ new.pools = P
  BY <1>1 DEF Whole
<1> HIDE DEF new
<1>4. Sane(new, top, k)
  BY <1>1, <1>3, SettingsSane DEF Whole, Resettled, P
<1> QED BY <1>2, <1>4

LEMMA RenamePoolSane ==
  ASSUME NEW top \in Nat, NEW k \in BOOLEAN, NEW doc, Sane(doc, top, k), NEW old, NEW name \in Nat \ {NoPool}
  PROVE  RenamePool(doc, old, name) = Refused \/ Sane(RenamePool(doc, old, name), top, k)
<1> DEFINE P == [q \in (DOMAIN doc.pools \ {old}) \cup {name} |-> IF q = name THEN doc.pools[old] ELSE doc.pools[q]]
           default == IF doc.default = old THEN name ELSE doc.default
           new == [doc EXCEPT !.pools = P, !.default = default]
           back(y) == IF y[1] = name THEN <<old, y[2]>> ELSE y
           g == [y \in Places(new) |-> back(y)]
<1>1. Whole(doc)
  BY DocumentIs DEF Sane
<1>2. \/ RenamePool(doc, old, name) \in {doc, Refused}
      \/ RenamePool(doc, old, name) = new /\ name \notin DOMAIN doc.pools /\ old \in DOMAIN doc.pools
  BY DEF RenamePool
<1>3. SUFFICES ASSUME name \notin DOMAIN doc.pools, old \in DOMAIN doc.pools PROVE Sane(new, top, k)
  BY <1>2
<1>4. /\ P = [q \in DOMAIN P |-> P[q]] /\ DOMAIN P = (DOMAIN doc.pools \ {old}) \cup {name}
      /\ P[name] = doc.pools[old] /\ \A q \in DOMAIN P : q # name => q \in DOMAIN doc.pools /\ q # old /\ P[q] = doc.pools[q]
  OBVIOUS
<1> HIDE DEF P
<1>5. default \in Nat \ {NoPool}
  BY <1>1 DEF Whole
<1> HIDE DEF default
<1>6. DOMAIN new = DOMAIN doc /\ new.default = default /\ new.pools = P
  BY <1>1 DEF Whole
<1> HIDE DEF new
<1>7. Whole(new)
  <2>1. IsFiniteSet(DOMAIN P)
    <3>1. IsFiniteSet(DOMAIN doc.pools \ {old})
      BY <1>1, FS_Subset DEF Whole
    <3> QED BY <1>4, <3>1, FS_AddElement
  <2>2. DOMAIN P \subseteq Nat \ {NoPool}
    BY <1>1, <1>4 DEF Whole
  <2>3. \A q \in DOMAIN P : DOMAIN P[q] = DOMAIN EmptyPool /\ P[q].accts \in Seq(Range(P[q].accts))
    BY <1>1, <1>3, <1>4 DEF Whole
  <2> QED BY <1>1, <1>4, <1>5, <1>6, <2>1, <2>2, <2>3 DEF Whole
<1>8. ASSUME NEW y \in Places(new)
      PROVE  g[y] \in Places(doc) /\ At(new, y) = At(doc, g[y]) /\ g[y] = back(y) /\ (y[1] # name => y[1] # old)
  <2>1. y = <<y[1], y[2]>> /\ y[1] \in DOMAIN P /\ y[2] \in DOMAIN P[y[1]].accts
    BY <1>6, PlaceIs
  <2>2. CASE y[1] = name
    <3>1. <<old, y[2]>> \in Places(doc)
      BY <1>3, <1>4, <2>1, <2>2, PlaceIs
    <3> QED BY <1>4, <1>6, <2>1, <2>2, <3>1 DEF At
  <2>3. CASE y[1] # name
    <3>1. <<y[1], y[2]>> \in Places(doc)
      BY <1>4, <2>1, <2>3, PlaceIs
    <3> QED BY <1>4, <1>6, <2>1, <2>3, <3>1 DEF At
  <2> QED BY <2>2, <2>3
<1>9. ASSUME NEW y \in Places(new), NEW z \in Places(new), g[y] = g[z] PROVE y = z
  <2>1. y = <<y[1], y[2]>> /\ z = <<z[1], z[2]>>
    BY PlaceIs
  <2>2. back(y) = back(z)
    BY <1>8, <1>9
  <2>3. (y[1] # name => y[1] # old) /\ (z[1] # name => z[1] # old)
    BY <1>8
  <2> HIDE DEF g
  <2> QED BY <2>1, <2>2, <2>3
<1>10. ComesFrom(new, doc, g)
  BY <1>8, <1>9 DEF ComesFrom
<1> HIDE DEF g
<1> QED BY <1>7, <1>10, Relocated

LEMMA SetKnobSane ==
  ASSUME NEW top \in Nat, NEW k \in BOOLEAN, NEW doc, Sane(doc, top, k), NEW p, NEW knob
  PROVE  SetKnob(doc, p, knob) = Refused \/ Sane(SetKnob(doc, p, knob), top, k)
BY KnobSane DEF SetKnob

LEMMA PoolEditSane ==
  ASSUME NEW top \in Nat, NEW k \in BOOLEAN, NEW doc, Sane(doc, top, k), NEW p, NEW knob, NEW name \in Nat
  PROVE  PoolEdit(doc, p, knob, name) = Refused \/ Sane(PoolEdit(doc, p, knob, name), top, k)
<1> DEFINE set == IF p \in DOMAIN doc.pools THEN [doc EXCEPT !.pools[p].knob = knob] ELSE doc
<1>1. Sane(set, top, k)
  BY KnobSane
<1>2. PoolEdit(doc, p, knob, name) = IF name = NoPool THEN set ELSE RenamePool(set, p, name)
  BY DEF PoolEdit
<1> HIDE DEF set
<1> QED BY <1>1, <1>2, RenamePoolSane

LEMMA PoolCreateSane ==
  ASSUME NEW top \in Nat, NEW k \in BOOLEAN, NEW doc, Sane(doc, top, k), NEW p \in Nat \ {NoPool}, NEW knob
  PROVE  Sane(PoolCreate(doc, p, knob), top, k)
<1> DEFINE with == EnsurePool(doc, p)
<1>1. Sane(with, top, k)
  BY EnsurePoolSane
<1>2. PoolCreate(doc, p, knob) = [with EXCEPT !.pools[p].knob = knob]
  BY DEF PoolCreate
<1> HIDE DEF with
<1> QED BY <1>1, <1>2, KnobSane

---------------------------------------------------------------------------
(* Edits in several steps.                                                 *)

\* An edit yields a document with the pool p, or is refused.
Within(doc, top, k, p) == doc = Refused \/ (Sane(doc, top, k) /\ p \in DOMAIN doc.pools)

LEMMA MoveInSane ==
  ASSUME NEW top \in Nat, NEW k \in BOOLEAN, NEW p, NEW doc, Within(doc, top, k, p), NEW needle
  PROVE  Within(MoveIn(doc, p, needle), top, k, p)
<1> DEFINE x == Locate(doc, NoPool, needle)
           left == [doc EXCEPT !.pools[x[1]].accts = RemoveAt(@, x[2])]
           new == [left EXCEPT !.pools[p].accts = Append(@, At(doc, x))]
<1>1. \/ MoveIn(doc, p, needle) \in {doc, Refused}
      \/ doc # Refused /\ x # NoPlace /\ x[1] # p /\ MoveIn(doc, p, needle) = new
  BY DEF MoveIn, AtHandle
<1>2. SUFFICES ASSUME doc # Refused, x # NoPlace, x[1] # p PROVE Sane(new, top, k) /\ p \in DOMAIN new.pools
  BY <1>1 DEF Within
<1>3. Sane(doc, top, k) /\ p \in DOMAIN doc.pools /\ Whole(doc)
  BY <1>2, DocumentIs DEF Within, Sane
<1>4. x \in Places(doc)
  BY <1>2, <1>3, LocateIs
<1> HIDE DEF x
<1>5. Moves(new, doc, x, p)
  BY DEF Moves, Puts, Adds
<1> HIDE DEF new
<1> QED BY <1>2, <1>3, <1>4, <1>5, MovedTo

\* Step i of moving accounts in, from the steps before it.
LEMMA MovedInIs ==
  ASSUME NEW doc, NEW p, NEW needles, Len(needles) \in Nat
  PROVE  LET f == MovedIn(doc, p, needles) IN
         f = [i \in 0 .. Len(needles) |-> IF i = 0 THEN doc ELSE MoveIn(f[i - 1], p, needles[i])]
<1> DEFINE Is(f, n) == f = [i \in 0 .. n |-> IF i = 0 THEN doc ELSE MoveIn(f[i - 1], p, needles[i])]
           Short == {n \in Nat : ~\E f : Is(f, n)}
<1>1. Short = {}
  <2>1. SUFFICES ASSUME Short # {} PROVE FALSE
    OBVIOUS
  <2>2. PICK n \in Short : \A m \in Short : n <= m
    BY <2>1, LeastIsOne
  <2>3. CASE n = 0
    <3> DEFINE f == [i \in 0 .. 0 |-> doc]
    <3>1. Is(f, 0)
      <4>1. \A i \in 0 .. 0 : i = 0
        OBVIOUS
      <4> QED BY <4>1
    <3> HIDE DEF f, Is
    <3> QED BY <2>2, <2>3, <3>1
  <2>4. CASE n # 0
    <3>1. n \in Nat /\ n - 1 \in Nat /\ n - 1 \notin Short
      <4>1. Short \subseteq Nat
        OBVIOUS
      <4> HIDE DEF Short
      <4>2. n \in Nat /\ n - 1 \in Nat /\ ~(n <= n - 1)
        BY <2>2, <2>4, <4>1
      <4> QED BY <2>2, <4>2
    <3>2. PICK f : Is(f, n - 1)
      BY <3>1
    <3> DEFINE g == [i \in 0 .. n |-> IF i = n THEN MoveIn(f[n - 1], p, needles[n]) ELSE f[i]]
    <3>3. \A i \in 0 .. n - 1 : f[i] = IF i = 0 THEN doc ELSE MoveIn(f[i - 1], p, needles[i])
      BY <3>2
    <3>4. /\ g = [i \in 0 .. n |-> g[i]] /\ g[n] = MoveIn(f[n - 1], p, needles[n])
          /\ \A i \in 0 .. n - 1 : g[i] = f[i]
      BY <3>1
    <3> HIDE DEF g
    <3>5. \A i \in 0 .. n : g[i] = IF i = 0 THEN doc ELSE MoveIn(g[i - 1], p, needles[i])
      <4> TAKE i \in 0 .. n
      <4>1. CASE i = n
        <5>1. n - 1 \in 0 .. n - 1
          BY <3>1
        <5>2. g[n - 1] = f[n - 1]
          BY <3>4, <5>1
        <5> QED BY <2>4, <3>4, <4>1, <5>2
      <4>2. CASE i # n
        <5>1. i \in 0 .. n - 1 /\ (i # 0 => i - 1 \in 0 .. n - 1)
          BY <3>1, <4>2
        <5> QED BY <3>3, <3>4, <5>1
      <4> QED BY <4>1, <4>2
    <3>6. Is(g, n)
      BY <3>4, <3>5
    <3> HIDE DEF Is
    <3> QED BY <2>2, <3>6
  <2> QED BY <2>3, <2>4
<1>2. \E f : Is(f, Len(needles))
  <2> HIDE DEF Is
  <2> QED BY <1>1
<1>3. MovedIn(doc, p, needles) = CHOOSE f : Is(f, Len(needles))
  BY DEF MovedIn
<1>4. Is(MovedIn(doc, p, needles), Len(needles))
  <2> HIDE DEF Is
  <2> QED BY <1>2, <1>3
<1> QED BY <1>4

LEMMA MovedInSane ==
  ASSUME NEW top \in Nat, NEW k \in BOOLEAN, NEW p, NEW doc, Within(doc, top, k, p),
         NEW needles, Len(needles) \in Nat, NEW n \in 0 .. Len(needles)
  PROVE  Within(MovedIn(doc, p, needles)[n], top, k, p)
<1> DEFINE f == MovedIn(doc, p, needles)
           Bad == {i \in 0 .. Len(needles) : ~Within(f[i], top, k, p)}
<1>1. f = [i \in 0 .. Len(needles) |-> IF i = 0 THEN doc ELSE MoveIn(f[i - 1], p, needles[i])]
  BY MovedInIs
<1> HIDE DEF f
<1>2. \A i \in 0 .. Len(needles) : f[i] = IF i = 0 THEN doc ELSE MoveIn(f[i - 1], p, needles[i])
  BY <1>1
<1>3. SUFFICES ASSUME Bad # {} PROVE FALSE
  BY DEF f
<1>4. PICK m \in Bad : \A i \in Bad : m <= i
  <2>1. Bad \subseteq Nat
    OBVIOUS
  <2> HIDE DEF Bad
  <2> QED BY <1>3, <2>1, LeastIsOne
<1>5. m # 0 /\ m \in 0 .. Len(needles)
  BY <1>2, <1>4
<1>6. m - 1 \in 0 .. Len(needles) /\ m - 1 \notin Bad
  BY <1>4, <1>5
<1>7. Within(MoveIn(f[m - 1], p, needles[m]), top, k, p)
  BY <1>6, MoveInSane
<1> QED BY <1>2, <1>4, <1>5, <1>7

LEMMA ApplyPoolSetSane ==
  ASSUME NEW top \in Nat, NEW k \in BOOLEAN, NEW p \in Nat \ {NoPool}, NEW doc, Within(doc, top, k, p),
         NEW set, Len(set.accts) \in Nat
  PROVE  ApplyPoolSet(doc, p, set) = Refused \/ Sane(ApplyPoolSet(doc, p, set), top, k)
<1> DEFINE d == MovedIn(doc, p, set.accts)[Len(set.accts)]
<1>1. Within(d, top, k, p)
  <2>1. Len(set.accts) \in 0 .. Len(set.accts)
    OBVIOUS
  <2> QED BY <2>1, MovedInSane
<1>2. ApplyPoolSet(doc, p, set) = Configured(d, p, set)
  BY DEF ApplyPoolSet
<1> HIDE DEF d
<1>3. d = Refused => Configured(d, p, set) = Refused
  BY DEF Configured
<1> QED BY <1>1, <1>2, <1>3, ConfiguredSane DEF Within

LEMMA PoolAddSane ==
  ASSUME NEW top \in Nat, NEW k \in BOOLEAN, NEW p \in Nat \ {NoPool}, NEW doc, Sane(doc, top, k),
         NEW set, Len(set.accts) \in Nat
  PROVE  PoolAdd(doc, p, set) = Refused \/ Sane(PoolAdd(doc, p, set), top, k)
<1>1. Within(EnsurePool(doc, p), top, k, p)
  BY EnsurePoolSane DEF Within
<1> QED BY <1>1, ApplyPoolSetSane DEF PoolAdd

LEMMA PoolSetSane ==
  ASSUME NEW top \in Nat, NEW k \in BOOLEAN, NEW p \in Nat \ {NoPool}, NEW doc, Sane(doc, top, k),
         NEW set, Len(set.accts) \in Nat
  PROVE  PoolSet(doc, p, set) = Refused \/ Sane(PoolSet(doc, p, set), top, k)
<1>1. p \in DOMAIN doc.pools => Within(doc, top, k, p)
  BY DEF Within
<1> QED BY <1>1, ApplyPoolSetSane DEF PoolSet

\* The rows an import has planned.
RowFits(row)  == row.pool \in Nat \ {NoPool} /\ (row.user = Unknown => row.org = Unknown)
Planned(rows) == Len(rows) \in Nat /\ \A i \in 1 .. Len(rows) : rows[i] = Skipped \/ RowFits(rows[i])

\* Step i of an import, from the steps before it.
LEMMA ImportedIs ==
  ASSUME NEW doc, NEW rows, Len(rows) \in Nat
  PROVE  LET f == Imported(doc, rows) IN
         f = [i \in 0 .. Len(rows) |-> IF i = 0 THEN doc ELSE UpsertRow(f[i - 1], rows[i])]
<1> DEFINE Is(f, n) == f = [i \in 0 .. n |-> IF i = 0 THEN doc ELSE UpsertRow(f[i - 1], rows[i])]
           Short == {n \in Nat : ~\E f : Is(f, n)}
<1>1. Short = {}
  <2>1. SUFFICES ASSUME Short # {} PROVE FALSE
    OBVIOUS
  <2>2. PICK n \in Short : \A m \in Short : n <= m
    BY <2>1, LeastIsOne
  <2>3. CASE n = 0
    <3> DEFINE f == [i \in 0 .. 0 |-> doc]
    <3>1. Is(f, 0)
      <4>1. \A i \in 0 .. 0 : i = 0
        OBVIOUS
      <4> QED BY <4>1
    <3> HIDE DEF f, Is
    <3> QED BY <2>2, <2>3, <3>1
  <2>4. CASE n # 0
    <3>1. n \in Nat /\ n - 1 \in Nat /\ n - 1 \notin Short
      <4>1. Short \subseteq Nat
        OBVIOUS
      <4> HIDE DEF Short
      <4>2. n \in Nat /\ n - 1 \in Nat /\ ~(n <= n - 1)
        BY <2>2, <2>4, <4>1
      <4> QED BY <2>2, <4>2
    <3>2. PICK f : Is(f, n - 1)
      BY <3>1
    <3> DEFINE g == [i \in 0 .. n |-> IF i = n THEN UpsertRow(f[n - 1], rows[n]) ELSE f[i]]
    <3>3. \A i \in 0 .. n - 1 : f[i] = IF i = 0 THEN doc ELSE UpsertRow(f[i - 1], rows[i])
      BY <3>2
    <3>4. /\ g = [i \in 0 .. n |-> g[i]] /\ g[n] = UpsertRow(f[n - 1], rows[n])
          /\ \A i \in 0 .. n - 1 : g[i] = f[i]
      BY <3>1
    <3> HIDE DEF g
    <3>5. \A i \in 0 .. n : g[i] = IF i = 0 THEN doc ELSE UpsertRow(g[i - 1], rows[i])
      <4> TAKE i \in 0 .. n
      <4>1. CASE i = n
        <5>1. n - 1 \in 0 .. n - 1
          BY <3>1
        <5>2. g[n - 1] = f[n - 1]
          BY <3>4, <5>1
        <5> QED BY <2>4, <3>4, <4>1, <5>2
      <4>2. CASE i # n
        <5>1. i \in 0 .. n - 1 /\ (i # 0 => i - 1 \in 0 .. n - 1)
          BY <3>1, <4>2
        <5> QED BY <3>3, <3>4, <5>1
      <4> QED BY <4>1, <4>2
    <3>6. Is(g, n)
      BY <3>4, <3>5
    <3> HIDE DEF Is
    <3> QED BY <2>2, <3>6
  <2> QED BY <2>3, <2>4
<1>2. \E f : Is(f, Len(rows))
  <2> HIDE DEF Is
  <2> QED BY <1>1
<1>3. Imported(doc, rows) = CHOOSE f : Is(f, Len(rows))
  BY DEF Imported
<1>4. Is(Imported(doc, rows), Len(rows))
  <2> HIDE DEF Is
  <2> QED BY <1>2, <1>3
<1> QED BY <1>4

LEMMA ImportedSane ==
  ASSUME NEW top \in Nat, NEW k \in BOOLEAN, NEW doc, Sane(doc, top, k), NEW rows, Planned(rows)
  PROVE  Sane(Imported(doc, rows)[Len(rows)], top, k)
<1> DEFINE f == Imported(doc, rows)
           Bad == {i \in 0 .. Len(rows) : ~Sane(f[i], top, k)}
<1>0. Len(rows) \in Nat
  BY DEF Planned
<1>1. f = [i \in 0 .. Len(rows) |-> IF i = 0 THEN doc ELSE UpsertRow(f[i - 1], rows[i])]
  BY <1>0, ImportedIs
<1> HIDE DEF f
<1>2. \A i \in 0 .. Len(rows) : f[i] = IF i = 0 THEN doc ELSE UpsertRow(f[i - 1], rows[i])
  BY <1>1
<1>3. SUFFICES ASSUME Bad # {} PROVE FALSE
  BY <1>0 DEF f
<1>4. PICK m \in Bad : \A i \in Bad : m <= i
  <2>1. Bad \subseteq Nat
    OBVIOUS
  <2> HIDE DEF Bad
  <2> QED BY <1>3, <2>1, LeastIsOne
<1>5. m # 0 /\ m \in 1 .. Len(rows)
  BY <1>0, <1>2, <1>4
<1>6. Sane(f[m - 1], top, k)
  <2>1. m - 1 \in 0 .. Len(rows) /\ ~(m <= m - 1)
    BY <1>0, <1>5
  <2> QED BY <1>4, <2>1
<1>7. Sane(UpsertRow(f[m - 1], rows[m]), top, k)
  BY <1>5, <1>6, UpsertAcrobatSane DEF UpsertRow, Planned, RowFits
<1> QED BY <1>0, <1>2, <1>4, <1>5, <1>7

---------------------------------------------------------------------------
(* What a load fills in.                                                   *)

\* A document as the file may hold it: its ids need not be its entries' own.
Kept(doc, top, k) == IsDocument(doc, top) /\ (k => LoginsApart(doc) /\ KeysBare(doc))

LEMMA PlacesFinite ==
  ASSUME NEW doc, Whole(doc)
  PROVE  IsFiniteSet(Places(doc))
<1> DEFINE row(p) == {<<p, i>> : i \in DOMAIN doc.pools[p].accts}
           rows == {row(p) : p \in DOMAIN doc.pools}
<1>1. IsFiniteSet(rows)
  <2>1. IsFiniteSet(DOMAIN doc.pools)
    BY DEF Whole
  <2> DEFINE f == [p \in DOMAIN doc.pools |-> row(p)]
  <2>2. f \in Surjection(DOMAIN doc.pools, rows)
    BY DEF Surjection
  <2> HIDE DEF f, rows
  <2> QED BY <2>1, <2>2, FS_Surjection
<1>2. ASSUME NEW p \in DOMAIN doc.pools PROVE IsFiniteSet(row(p))
  <2> DEFINE n == Len(doc.pools[p].accts)
             f == [i \in 1 .. n |-> <<p, i>>]
  <2>1. n \in Nat /\ DOMAIN doc.pools[p].accts = 1 .. n
    BY AcctsAre
  <2>2. IsFiniteSet(1 .. n)
    BY <2>1, FS_Interval
  <2>3. f \in Surjection(1 .. n, row(p))
    BY <2>1 DEF Surjection
  <2> HIDE DEF f, n, row
  <2> QED BY <2>2, <2>3, FS_Surjection
<1>3. \A T \in rows : IsFiniteSet(T)
  BY <1>2
<1>4. Places(doc) = UNION rows
  BY DEF Places
<1> HIDE DEF rows
<1> QED BY <1>1, <1>3, <1>4, FS_UNION

Before(x, y) == \/ x[1] < y[1]
                \/ x[1] = y[1] /\ x[2] < y[2]

LEMMA BeforeIs ==
  ASSUME NEW doc, Whole(doc)
  PROVE  \A x, y, z \in Places(doc) : /\ x # y => Before(x, y) \/ Before(y, x)
                                      /\ ~Before(x, x)
                                      /\ Before(x, y) /\ Before(y, z) => Before(x, z)
<1>1. \A x \in Places(doc) : x = <<x[1], x[2]>> /\ x[1] \in Nat /\ x[2] \in Nat
  <2> TAKE x \in Places(doc)
  <2>1. x = <<x[1], x[2]>> /\ x[1] \in DOMAIN doc.pools /\ x[2] \in DOMAIN doc.pools[x[1]].accts
    BY PlaceIs
  <2>2. Len(doc.pools[x[1]].accts) \in Nat /\ DOMAIN doc.pools[x[1]].accts = 1 .. Len(doc.pools[x[1]].accts)
    BY <2>1, AcctsAre
  <2> QED BY <2>1, <2>2 DEF Whole
<1>2. ASSUME NEW x \in Places(doc), NEW y \in Places(doc), x # y PROVE Before(x, y) \/ Before(y, x)
  <2>1. x[1] # y[1] \/ x[2] # y[2]
    BY <1>1, <1>2
  <2> QED BY <1>1, <2>1 DEF Before
<1>3. \A x, y, z \in Places(doc) : ~Before(x, x) /\ (Before(x, y) /\ Before(y, z) => Before(x, z))
  BY <1>1 DEF Before
<1> QED BY <1>2, <1>3

LEMMA IdlessIs ==
  ASSUME NEW doc
  PROVE  Idless(doc) = {x \in Places(doc) : \/ At(doc, x).id = NoId
                                            \/ \E y \in Places(doc) : At(doc, y).id = At(doc, x).id /\ Before(y, x)}
BY DEF Idless, Before

\* How many entries get an id before the one at x.
Nth(doc, x) == Cardinality({o \in Idless(doc) : Before(o, x)})

LEMMA EnsureIdsIs ==
  ASSUME NEW doc, Whole(doc), NEW fresh
  PROVE  LET new == EnsureIds(doc, fresh) IN
         /\ Places(new) = Places(doc) /\ Whole(new)
         /\ \A x \in Places(doc) :
              At(new, x) = IF x \in Idless(doc) THEN [At(doc, x) EXCEPT !.id = fresh + Nth(doc, x)] ELSE At(doc, x)
<1> DEFINE fill(p) == [i \in DOMAIN doc.pools[p].accts |->
                       IF <<p, i>> \in Idless(doc)
                       THEN [doc.pools[p].accts[i] EXCEPT !.id = fresh + Nth(doc, <<p, i>>)]
                       ELSE doc.pools[p].accts[i]]
           P == [p \in DOMAIN doc.pools |-> [doc.pools[p] EXCEPT !.accts = fill(p)]]
           new == [doc EXCEPT !.pools = P]
<1>1. EnsureIds(doc, fresh) = new
  BY DEF EnsureIds, Before, Nth
<1>2. ASSUME NEW p \in DOMAIN doc.pools
      PROVE  /\ fill(p) \in Seq(Range(fill(p))) /\ DOMAIN fill(p) = DOMAIN doc.pools[p].accts
             /\ DOMAIN P[p] = DOMAIN EmptyPool /\ P[p].accts = fill(p)
  <2> DEFINE s == fill(p)
  <2>1. Len(doc.pools[p].accts) \in Nat /\ DOMAIN doc.pools[p].accts = 1 .. Len(doc.pools[p].accts)
    BY AcctsAre
  <2>2. s = [i \in 1 .. Len(doc.pools[p].accts) |-> s[i]]
    BY <2>1
  <2>3. P[p] = [doc.pools[p] EXCEPT !.accts = s] /\ DOMAIN s = DOMAIN doc.pools[p].accts
    OBVIOUS
  <2>4. DOMAIN doc.pools[p] = DOMAIN EmptyPool /\ "accts" \in DOMAIN doc.pools[p]
    BY DEF Whole, EmptyPool
  <2> HIDE DEF s, P
  <2>5. s \in Seq(Range(s))
    BY <2>1, <2>2, OwnSeq
  <2> QED BY <2>3, <2>4, <2>5 DEF s
<1>3. DOMAIN P = DOMAIN doc.pools /\ P = [p \in DOMAIN P |-> P[p]]
  OBVIOUS
<1> HIDE DEF P
<1>4. DOMAIN new = DOMAIN doc /\ new.pools = P /\ new.default = doc.default
  BY DEF Whole
<1> HIDE DEF new
<1>5. Whole(new)
  <2>1. \A p \in DOMAIN P : DOMAIN P[p] = DOMAIN EmptyPool /\ P[p].accts \in Seq(Range(P[p].accts))
    <3> HIDE DEF fill
    <3> QED BY <1>2, <1>3
  <2>2. IsFiniteSet(DOMAIN P) /\ DOMAIN P \subseteq Nat \ {NoPool} /\ new.default \in Nat \ {NoPool}
        /\ DOMAIN new = {"default", "pools", "old", "log"}
    BY <1>3, <1>4 DEF Whole
  <2> QED BY <1>3, <1>4, <2>1, <2>2 DEF Whole
<1>6. Places(new) = Places(doc)
  <2>1. ASSUME NEW p, NEW i PROVE <<p, i>> \in Places(new) <=> <<p, i>> \in Places(doc)
    <3> HIDE DEF fill
    <3> QED BY <1>2, <1>3, <1>4, PlaceIs
  <2>2. \A x \in Places(new) : x = <<x[1], x[2]>>
    BY PlaceIs
  <2>3. \A x \in Places(doc) : x = <<x[1], x[2]>>
    BY PlaceIs
  <2>4. \A x \in Places(new) : x \in Places(doc)
    BY <2>1, <2>2
  <2>5. \A x \in Places(doc) : x \in Places(new)
    BY <2>1, <2>3
  <2> QED BY <2>4, <2>5
<1>7. ASSUME NEW x \in Places(doc)
      PROVE  At(new, x) = IF x \in Idless(doc) THEN [At(doc, x) EXCEPT !.id = fresh + Nth(doc, x)] ELSE At(doc, x)
  <2>1. x = <<x[1], x[2]>> /\ x[1] \in DOMAIN doc.pools /\ x[2] \in DOMAIN doc.pools[x[1]].accts
    BY PlaceIs
  <2>2. At(new, x) = fill(x[1])[x[2]]
    <3> HIDE DEF fill
    <3> QED BY <1>2, <1>4, <2>1 DEF At
  <2> QED BY <2>1, <2>2 DEF At
<1> QED BY <1>1, <1>5, <1>6, <1>7

LEMMA NthIs ==
  ASSUME NEW doc, Whole(doc)
  PROVE  /\ IsFiniteSet(Idless(doc)) /\ Cardinality(Idless(doc)) \in Nat
         /\ \A x \in Idless(doc) : Nth(doc, x) \in 0 .. Cardinality(Idless(doc)) - 1
         /\ \A x, y \in Idless(doc) : x # y => Nth(doc, x) # Nth(doc, y)
<1> DEFINE ahead(x) == {o \in Idless(doc) : Before(o, x)}
<1>1. Idless(doc) \subseteq Places(doc)
  BY IdlessIs
<1>2. IsFiniteSet(Idless(doc)) /\ Cardinality(Idless(doc)) \in Nat
  BY <1>1, PlacesFinite, FS_Subset, FS_CardinalityType
<1>3. ASSUME NEW x \in Idless(doc)
      PROVE  IsFiniteSet(ahead(x)) /\ Cardinality(ahead(x)) \in Nat /\ x \notin ahead(x)
  <2>1. x \notin ahead(x)
    BY <1>1, BeforeIs
  <2>2. ahead(x) \in SUBSET Idless(doc)
    OBVIOUS
  <2> HIDE DEF ahead
  <2> QED BY <1>2, <2>1, <2>2, FS_Subset, FS_CardinalityType
<1>4. ASSUME NEW x \in Idless(doc), NEW S, IsFiniteSet(S), ahead(x) \subseteq S, x \in S
      PROVE  Cardinality(ahead(x)) < Cardinality(S)
  <2>1. ahead(x) \in SUBSET S /\ ahead(x) # S
    BY <1>3, <1>4
  <2> HIDE DEF ahead
  <2>2. Cardinality(ahead(x)) <= Cardinality(S) /\ Cardinality(S) # Cardinality(ahead(x))
    BY <1>4, <2>1, FS_Subset
  <2>3. Cardinality(S) \in Nat
    BY <1>4, FS_CardinalityType
  <2> QED BY <1>3, <2>2, <2>3
<1>5. ASSUME NEW x \in Idless(doc) PROVE Nth(doc, x) \in 0 .. Cardinality(Idless(doc)) - 1
  <2>1. Cardinality(ahead(x)) < Cardinality(Idless(doc))
    <3>1. ahead(x) \subseteq Idless(doc)
      OBVIOUS
    <3> HIDE DEF ahead
    <3> QED BY <1>2, <1>4, <3>1
  <2>2. Nth(doc, x) = Cardinality(ahead(x))
    BY DEF Nth
  <2> HIDE DEF ahead
  <2> QED BY <1>2, <1>3, <2>1, <2>2
<1>6. ASSUME NEW x \in Idless(doc), NEW y \in Idless(doc), Before(x, y) PROVE Nth(doc, x) # Nth(doc, y)
  <2>1. ahead(x) \subseteq ahead(y) /\ x \in ahead(y)
    BY <1>1, <1>6, BeforeIs
  <2>2. Nth(doc, x) = Cardinality(ahead(x)) /\ Nth(doc, y) = Cardinality(ahead(y))
    BY DEF Nth
  <2> HIDE DEF ahead
  <2>3. Cardinality(ahead(x)) < Cardinality(ahead(y))
    BY <1>3, <1>4, <2>1
  <2> QED BY <1>3, <2>2, <2>3
<1>7. \A x, y \in Idless(doc) : x # y => Nth(doc, x) # Nth(doc, y)
  BY <1>1, <1>6, BeforeIs
<1> QED BY <1>2, <1>5, <1>7

LEMMA EnsureIdsSane ==
  ASSUME NEW top \in Nat, NEW k \in BOOLEAN, NEW doc, Kept(doc, top, k), NEW more \in Nat,
         Cardinality(Idless(doc)) <= more
  PROVE  LET new == EnsureIds(doc, top + 1) IN Sane(new, top + more, k) /\ Numbered(new)
<1> DEFINE new == EnsureIds(doc, top + 1)
           n == Cardinality(Idless(doc))
<1>1. Whole(doc) /\ \A x \in Places(doc) : IsEntry(At(doc, x), top)
  BY DocumentIs DEF Kept
<1>2. /\ Places(new) = Places(doc) /\ Whole(new)
      /\ \A x \in Places(doc) :
           At(new, x) = IF x \in Idless(doc) THEN [At(doc, x) EXCEPT !.id = (top + 1) + Nth(doc, x)] ELSE At(doc, x)
  BY <1>1, EnsureIdsIs
<1> HIDE DEF new
<1>3. /\ n \in Nat
      /\ \A x \in Idless(doc) : Nth(doc, x) \in 0 .. n - 1
      /\ \A x, y \in Idless(doc) : x # y => Nth(doc, x) # Nth(doc, y)
  BY <1>1, NthIs
<1> HIDE DEF n
<1>4. ASSUME NEW x \in Places(doc)
      PROVE  LET a == At(doc, x)
                 b == At(new, x)
             IN  /\ DOMAIN b = DOMAIN NewAccount(<<>>)
                 /\ b.user = a.user /\ b.org = a.org /\ b.apikey = a.apikey /\ b.codex = a.codex
                 /\ b.id = IF x \in Idless(doc) THEN top + 1 + Nth(doc, x) ELSE a.id
  <2>1. DOMAIN At(doc, x) = DOMAIN NewAccount(<<>>)
    BY <1>1 DEF IsEntry
  <2> QED BY <1>2, <2>1, EntryFields
<1>5. ASSUME NEW x \in Places(doc), x \notin Idless(doc) PROVE At(doc, x).id \in 1 .. top
  BY <1>1, <1>5, IdlessIs DEF IsEntry, NoId
<1>6. ASSUME NEW x \in Places(doc)
      PROVE  /\ At(new, x).id \in 1 .. top + more
             /\ At(new, x).id > top <=> x \in Idless(doc)
  <2>1. CASE x \in Idless(doc)
    <3>1. At(new, x).id = top + 1 + Nth(doc, x) /\ Nth(doc, x) \in 0 .. n - 1
      BY <1>3, <1>4, <2>1
    <3>2. n <= more
      BY DEF n
    <3> QED BY <1>3, <2>1, <3>1, <3>2
  <2>2. CASE x \notin Idless(doc)
    <3>1. At(new, x).id = At(doc, x).id /\ At(doc, x).id \in 1 .. top
      BY <1>4, <1>5, <2>2
    <3> QED BY <2>2, <3>1
  <2> QED BY <2>1, <2>2
<1>7. ASSUME NEW x \in Places(doc), NEW y \in Places(doc), x # y PROVE At(new, x).id # At(new, y).id
  <2>1. CASE x \in Idless(doc) /\ y \in Idless(doc)
    <3>1. Nth(doc, x) \in Nat /\ Nth(doc, y) \in Nat /\ Nth(doc, x) # Nth(doc, y)
      BY <1>3, <1>7, <2>1
    <3>2. At(new, x).id = top + 1 + Nth(doc, x) /\ At(new, y).id = top + 1 + Nth(doc, y)
      BY <1>4, <2>1
    <3> QED BY <3>1, <3>2
  <2>2. CASE x \notin Idless(doc) /\ y \notin Idless(doc)
    <3>1. At(new, x).id = At(doc, x).id /\ At(new, y).id = At(doc, y).id
      BY <1>4, <2>2
    <3>2. At(doc, x).id # At(doc, y).id
      BY <1>1, <1>7, <2>2, BeforeIs, IdlessIs
    <3> QED BY <3>1, <3>2
  <2>3. CASE (x \in Idless(doc)) # (y \in Idless(doc))
    BY <1>6, <2>3
  <2> QED BY <2>1, <2>2, <2>3
<1>8. \A x \in Places(new) : IsEntry(At(new, x), top + more) /\ At(new, x).id # NoId
  <2>1. \A x \in Places(doc) : At(new, x).id \in 0 .. top + more /\ At(new, x).id # NoId
    BY <1>6 DEF NoId
  <2> QED BY <1>2, <1>4, <2>1 DEF IsEntry
<1>9. IsDocument(new, top + more) /\ IdsApart(new) /\ Numbered(new)
  BY <1>2, <1>7, <1>8, DocumentIs DEF IdsApart, Numbered
<1>10. k => LoginsApart(new) /\ KeysBare(new)
  <2>1. \A x, y \in Places(doc) : SameLogin(At(new, x), At(new, y)) => SameLogin(At(doc, x), At(doc, y))
    BY <1>4 DEF SameLogin, Known
  <2> QED BY <1>2, <1>4, <2>1 DEF Kept, LoginsApart, KeysBare
<1> QED BY <1>9, <1>10 DEF Sane, new

LEMMA AcrobatSane ==
  ASSUME NEW top \in Nat, NEW k \in BOOLEAN, NEW doc, Sane(doc, top, k), NEW rows, Planned(rows),
         NEW new, new = Acrobat(doc, rows, top + 1), new # Refused
  PROVE  Cardinality(Places(new)) \in Nat /\ Sane(new, top + Cardinality(Places(new)), k)
<1> DEFINE d == Imported(doc, rows)[Len(rows)]
<1>1. Sane(d, top, k)
  BY ImportedSane
<1>2. new = EnsureIds(d, top + 1)
  BY DEF Acrobat, Checked
<1> HIDE DEF d
<1>3. Whole(d) /\ Kept(d, top, k)
  BY <1>1, DocumentIs DEF Sane, Kept
<1>4. Places(new) = Places(d)
  BY <1>2, <1>3, EnsureIdsIs
<1>5. IsFiniteSet(Places(d)) /\ Cardinality(Places(d)) \in Nat
  BY <1>3, PlacesFinite, FS_CardinalityType
<1>6. Cardinality(Idless(d)) <= Cardinality(Places(d))
  <2>1. Idless(d) \in SUBSET Places(d)
    BY IdlessIs
  <2> QED BY <1>5, <2>1, FS_Subset
<1> QED BY <1>2, <1>3, <1>4, <1>5, <1>6, EnsureIdsSane

LEMMA EnsurePoolsIs ==
  ASSUME NEW doc, Whole(doc)
  PROVE  LET new == EnsurePools(doc) IN
         /\ Whole(new) /\ Places(new) = Places(doc) /\ \A x \in Places(doc) : At(new, x) = At(doc, x)
<1> DEFINE new == EnsurePools(doc)
           low == Min(DOMAIN doc.pools)
           other == [doc EXCEPT !.default = low]
<1>1. \/ new = doc
      \/ new = EnsurePool(doc, doc.default)
      \/ new = other /\ doc.pools # <<>>
  BY DEF EnsurePools, EnsurePool
<1> HIDE DEF new
<1>2. CASE new = EnsurePool(doc, doc.default)
  <2>1. doc.default \in Nat \ {NoPool}
    BY DEF Whole
  <2> QED BY <1>2, <2>1, EnsurePoolIs DEF new
<1>3. CASE new = other /\ doc.pools # <<>>
  <2>1. DOMAIN doc.pools # {}
    <3>1. doc.pools = [p \in DOMAIN doc.pools |-> doc.pools[p]]
      BY DEF Whole
    <3>2. SUFFICES ASSUME DOMAIN doc.pools = {} PROVE doc.pools = <<>>
      BY <1>3
    <3> QED BY <3>1, <3>2
  <2>2. low \in DOMAIN doc.pools
    BY <2>1, MinIs DEF Whole
  <2> HIDE DEF low
  <2>3. DOMAIN new = DOMAIN doc /\ new.default = low /\ new.pools = doc.pools
    BY <1>3 DEF Whole
  <2>4. Whole(new)
    BY <2>2, <2>3 DEF Whole
  <2>5. Places(new) = Places(doc) /\ \A x \in Places(doc) : At(new, x) = At(doc, x)
    BY <2>3 DEF Places, At
  <2> QED BY <2>4, <2>5 DEF new
<1> QED BY <1>1, <1>2, <1>3 DEF new

LEMMA MigrateIs ==
  ASSUME NEW doc, Whole(doc)
  PROVE  LET new == Migrate(doc) IN
         /\ Whole(new) /\ Places(new) = Places(doc) /\ \A x \in Places(doc) : At(new, x) = At(doc, x)
         /\ new.pools = doc.pools /\ new.default = doc.default
<1> DEFINE new == Migrate(doc)
<1>1. DOMAIN new = DOMAIN doc /\ new.default = doc.default /\ new.pools = doc.pools
  BY DEF Migrate, Whole
<1> HIDE DEF new
<1>2. Whole(new)
  BY <1>1 DEF Whole
<1>3. Places(new) = Places(doc) /\ \A x \in Places(doc) : At(new, x) = At(doc, x)
  BY <1>1 DEF Places, At
<1> QED BY <1>1, <1>2, <1>3 DEF new

\* A load gives every entry an id that is its own.
LEMMA FilledSane ==
  ASSUME NEW top \in Nat, NEW k \in BOOLEAN, NEW doc, Kept(doc, top, k)
  PROVE  LET new == Filled(doc, top + 1)
             more == Cardinality(Idless(EnsurePools(doc)))
         IN  more \in Nat /\ Sane(new, top + more, k) /\ Numbered(new)
<1> DEFINE m == Migrate(doc)
           d == EnsurePools(m)
           e == EnsurePools(doc)
<1>1. Whole(doc)
  BY DocumentIs DEF Kept
<1>2. Whole(m) /\ Places(m) = Places(doc) /\ \A x \in Places(doc) : At(m, x) = At(doc, x)
  BY <1>1, MigrateIs
<1> HIDE DEF m
<1>3. Whole(d) /\ Places(d) = Places(m) /\ \A x \in Places(m) : At(d, x) = At(m, x)
  BY <1>2, EnsurePoolsIs
<1>4. Whole(e) /\ Places(e) = Places(doc) /\ \A x \in Places(doc) : At(e, x) = At(doc, x)
  BY <1>1, EnsurePoolsIs
<1> HIDE DEF d, e
<1>5. Idless(d) = Idless(e)
  BY <1>2, <1>3, <1>4, IdlessIs
<1>6. Cardinality(Idless(e)) \in Nat
  BY <1>4, NthIs
<1>7. Kept(d, top, k)
  <2>1. IsDocument(d, top)
    BY <1>2, <1>3, DocumentIs DEF Kept
  <2>2. k => LoginsApart(d) /\ KeysBare(d)
    BY <1>2, <1>3 DEF Kept, LoginsApart, KeysBare
  <2> QED BY <2>1, <2>2 DEF Kept
<1>8. Filled(doc, top + 1) = EnsureIds(d, top + 1)
  BY DEF Filled, d, m
<1>9. Sane(EnsureIds(d, top + 1), top + Cardinality(Idless(e)), k) /\ Numbered(EnsureIds(d, top + 1))
  BY <1>5, <1>6, <1>7, EnsureIdsSane
<1> QED BY <1>6, <1>8, <1>9 DEF e

LEMMA DefaultSane ==
  ASSUME NEW top \in Nat, NEW k \in BOOLEAN
  PROVE  Sane(DefaultDoc, top, k) /\ Numbered(DefaultDoc)
<1> DEFINE d == DefaultDoc
<1>1. /\ DOMAIN d = {"default", "pools", "old", "log"} /\ d.default = 1 /\ d.pools = [p \in {1} |-> EmptyPool]
  BY DEF DefaultDoc
<1> HIDE DEF d
<1>2. DOMAIN EmptyPool = {"accts", "dirs", "knob"} /\ EmptyPool.accts = <<>>
  BY DEF EmptyPool
<1>3. DOMAIN d.pools = {1} /\ d.pools[1] = EmptyPool /\ d.pools = [p \in DOMAIN d.pools |-> d.pools[p]]
  BY <1>1
<1>4. Whole(d)
  <2>1. IsFiniteSet({1})
    BY FS_Singleton
  <2>2. EmptyPool.accts \in Seq(Range(EmptyPool.accts))
    BY <1>2, EmptyIsASeq
  <2> QED BY <1>1, <1>3, <2>1, <2>2 DEF Whole, NoPool
<1>5. Places(d) = {}
  <2>1. SUFFICES ASSUME NEW x \in Places(d) PROVE FALSE
    OBVIOUS
  <2>2. x[1] = 1 /\ x[2] \in DOMAIN <<>>
    BY <1>2, <1>3, PlaceIs
  <2>3. DOMAIN <<>> = {}
    OBVIOUS
  <2> QED BY <2>2, <2>3
<1>6. IsDocument(d, top)
  BY <1>4, <1>5, DocumentIs
<1> QED BY <1>5, <1>6 DEF Sane, IdsApart, LoginsApart, KeysBare, Numbered, d

---------------------------------------------------------------------------
(* The live pools.                                                         *)

\* The accounts of the managers have ids that were issued, each at home in one
\* manager.
IsAccount(a, top) == DOMAIN a = {"id", "apikey", "tok", "seen"} /\ a.id \in 1 .. top
Living(reg, top) ==
  /\ DOMAIN reg = {"default", "map"}
  /\ \A p \in DOMAIN reg.map : DOMAIN reg.map[p] = {"pool", "accts"}
  /\ \A p \in DOMAIN reg.map : \A a \in reg.map[p].accts : IsAccount(a, top)
  /\ \A p, q \in DOMAIN reg.map : \A a \in reg.map[p].accts, b \in reg.map[q].accts : a.id = b.id => p = q

LEMMA LivingServes ==
  ASSUME NEW reg, NEW top, Living(reg, top)
  PROVE  /\ \A s \in Served(reg) : s[2] \in 1 .. top
         /\ \A s, t \in Served(reg) : s[2] = t[2] => s = t
<1>1. \A s \in Served(reg) : \E p \in DOMAIN reg.map : \E a \in reg.map[p].accts : s = <<p, a.id>>
  BY DEF Served
<1>2. ASSUME NEW s \in Served(reg) PROVE s[2] \in 1 .. top
  <2>1. PICK p \in DOMAIN reg.map : \E a \in reg.map[p].accts : s = <<p, a.id>>
    BY <1>1
  <2>2. PICK a \in reg.map[p].accts : s = <<p, a.id>>
    BY <2>1
  <2> QED BY <2>2 DEF Living, IsAccount
<1>3. ASSUME NEW s \in Served(reg), NEW t \in Served(reg), s[2] = t[2] PROVE s = t
  <2>1. PICK p \in DOMAIN reg.map : \E a \in reg.map[p].accts : s = <<p, a.id>>
    BY <1>1
  <2>2. PICK a \in reg.map[p].accts : s = <<p, a.id>>
    BY <2>1
  <2>3. PICK q \in DOMAIN reg.map : \E b \in reg.map[q].accts : t = <<q, b.id>>
    BY <1>1
  <2>4. PICK b \in reg.map[q].accts : t = <<q, b.id>>
    BY <2>3
  <2>5. a.id = b.id
    BY <1>3, <2>2, <2>4
  <2>6. p = q
    BY <2>5 DEF Living
  <2> QED BY <2>2, <2>4, <2>5, <2>6
<1> QED BY <1>2, <1>3

LEMMA LivingAges ==
  ASSUME NEW reg, NEW top \in Nat, NEW more \in Nat, top <= more, Living(reg, top)
  PROVE  Living(reg, more)
<1>1. 1 .. top \subseteq 1 .. more
  OBVIOUS
<1> QED BY <1>1 DEF Living, IsAccount

\* A manager's pool, or the whole registry, with other accounts under the ids.
LEMMA LivingAgain ==
  ASSUME NEW reg, NEW top, Living(reg, top), NEW new, DOMAIN new = {"default", "map"},
         DOMAIN new.map = DOMAIN reg.map,
         \A p \in DOMAIN reg.map :
           /\ DOMAIN new.map[p] = {"pool", "accts"}
           /\ \A a \in new.map[p].accts : \E b \in reg.map[p].accts : DOMAIN a = DOMAIN b /\ a.id = b.id
  PROVE  Living(new, top)
<1>1. \A p \in DOMAIN new.map : \A a \in new.map[p].accts : IsAccount(a, top)
  BY DEF Living, IsAccount
<1>2. ASSUME NEW p \in DOMAIN new.map, NEW q \in DOMAIN new.map,
             NEW a \in new.map[p].accts, NEW b \in new.map[q].accts, a.id = b.id
      PROVE  p = q
  <2>1. PICK c \in reg.map[p].accts : c.id = a.id
    OBVIOUS
  <2>2. PICK d \in reg.map[q].accts : d.id = b.id
    OBVIOUS
  <2> QED BY <1>2, <2>1, <2>2 DEF Living
<1> QED BY <1>1, <1>2 DEF Living

LEMMA SyncAccountIs ==
  ASSUME NEW held, NEW e, NEW top, \A a \in held : IsAccount(a, top) /\ a.id = e.id, e.id \in 1 .. top
  PROVE  IsAccount(SyncAccount(held, e), top) /\ SyncAccount(held, e).id = e.id
<1> DEFINE a == CHOOSE x \in held : TRUE
           disk == Credential(a.apikey, e)
           tok == IF disk # 0 /\ (a.apikey \/ disk >= a.tok) THEN disk ELSE a.tok
<1>1. CASE held = {}
  BY <1>1 DEF SyncAccount, FromConfig, IsAccount
<1>2. CASE held # {}
  <2>1. a \in held
    BY <1>2
  <2>2. SyncAccount(held, e) = [a EXCEPT !.tok = tok]
    BY <1>2 DEF SyncAccount
  <2> HIDE DEF a, tok
  <2>3. IsAccount(a, top) /\ a.id = e.id
    BY <2>1
  <2> QED BY <2>2, <2>3 DEF IsAccount
<1> QED BY <1>1, <1>2

LEMMA SyncLives ==
  ASSUME NEW reg, NEW top \in Nat, Living(reg, top), NEW k \in BOOLEAN, NEW doc, Sane(doc, top, k), Numbered(doc)
  PROVE  Living(Sync(reg, doc), top)
<1> DEFINE new == Sync(reg, doc)
           from(p) == IF p \in DOMAIN reg.map THEN reg.map[p] ELSE [pool |-> p, accts |-> {}]
           of(p, e) == {a \in from(p).accts : a.id = e.id}
           served(p) == {e \in Range(doc.pools[p].accts) : of(p, e) # {} \/ Usable(e)}
<1>1. DOMAIN new = {"default", "map"} /\ DOMAIN new.map = DOMAIN doc.pools
  BY DEF Sync
<1>2. ASSUME NEW p \in DOMAIN doc.pools
      PROVE  /\ DOMAIN new.map[p] = {"pool", "accts"}
             /\ new.map[p].accts = {SyncAccount(of(p, e), e) : e \in served(p)}
  <2>1. new.map[p] = SyncManager(from(p), doc, p)
    BY DEF Sync, NewManager
  <2>2. DOMAIN from(p) = {"pool", "accts"}
    BY DEF Living
  <2>3. SyncManager(from(p), doc, p) =
          [from(p) EXCEPT !.pool = p, !.accts = {SyncAccount(of(p, e), e) : e \in served(p)}]
    BY DEF SyncManager
  <2> HIDE DEF from, served, of, new
  <2> QED BY <2>1, <2>2, <2>3
<1>3. Whole(doc) /\ \A x \in Places(doc) : IsEntry(At(doc, x), top)
  BY DocumentIs DEF Sane
<1>4. ASSUME NEW p \in DOMAIN doc.pools, NEW a \in new.map[p].accts
      PROVE  IsAccount(a, top) /\ \E x \in Places(doc) : x[1] = p /\ At(doc, x).id = a.id
  <2>1. PICK e \in served(p) : a = SyncAccount(of(p, e), e)
    BY <1>2
  <2>2. PICK i \in DOMAIN doc.pools[p].accts : e = doc.pools[p].accts[i]
    BY <2>1 DEF Range
  <2>3. <<p, i>> \in Places(doc) /\ At(doc, <<p, i>>) = e
    BY <2>2, PlaceIs
  <2>4. e.id \in 0 .. top /\ e.id # 0
    BY <1>3, <2>3 DEF IsEntry, Numbered, NoId
  <2>5. e.id \in 1 .. top
    BY <2>4
  <2>6. \A b \in of(p, e) : IsAccount(b, top) /\ b.id = e.id
    BY DEF Living
  <2> HIDE DEF of
  <2>7. IsAccount(a, top) /\ a.id = e.id
    BY <2>1, <2>5, <2>6, SyncAccountIs
  <2> QED BY <2>3, <2>7
<1>5. ASSUME NEW p \in DOMAIN new.map, NEW q \in DOMAIN new.map,
             NEW a \in new.map[p].accts, NEW b \in new.map[q].accts, a.id = b.id
      PROVE  p = q
  <2>1. PICK x \in Places(doc) : x[1] = p /\ At(doc, x).id = a.id
    BY <1>1, <1>4
  <2>2. PICK y \in Places(doc) : y[1] = q /\ At(doc, y).id = b.id
    BY <1>1, <1>4
  <2>3. x = y
    BY <1>5, <2>1, <2>2 DEF Sane, IdsApart, Numbered
  <2> QED BY <2>1, <2>2, <2>3
<1> QED BY <1>1, <1>2, <1>4, <1>5 DEF Living

LEMMA RekeyLives ==
  ASSUME NEW reg, NEW top, Living(reg, top), NEW old, NEW name
  PROVE  Living(Rekey(reg, old, name), top)
<1> DEFINE new == Rekey(reg, old, name)
           back(p) == IF p = name THEN old ELSE p
<1>1. CASE old = name \/ name \in DOMAIN reg.map \/ old \notin DOMAIN reg.map
  BY <1>1 DEF Rekey
<1>2. CASE ~(old = name \/ name \in DOMAIN reg.map \/ old \notin DOMAIN reg.map)
  <2>1. /\ DOMAIN new = {"default", "map"}
        /\ DOMAIN new.map = (DOMAIN reg.map \ {old}) \cup {name}
        /\ \A p \in DOMAIN new.map : new.map[p] = reg.map[back(p)]
    BY <1>2 DEF Rekey
  <2>2. \A p \in DOMAIN new.map : back(p) \in DOMAIN reg.map
    BY <1>2, <2>1
  <2>3. \A p, q \in DOMAIN new.map : back(p) = back(q) => p = q
    BY <1>2, <2>1
  <2> HIDE DEF new, back
  <2>4. \A p \in DOMAIN new.map : /\ DOMAIN new.map[p] = {"pool", "accts"}
                                  /\ \A a \in new.map[p].accts : IsAccount(a, top)
    BY <2>1, <2>2 DEF Living
  <2>5. ASSUME NEW p \in DOMAIN new.map, NEW q \in DOMAIN new.map,
               NEW a \in new.map[p].accts, NEW b \in new.map[q].accts, a.id = b.id
        PROVE  p = q
    <3>1. back(p) = back(q)
      BY <2>1, <2>2, <2>5 DEF Living
    <3> QED BY <2>3, <3>1
  <2> QED BY <2>1, <2>4, <2>5 DEF Living, new
<1> QED BY <1>1, <1>2

LEMMA RestoreLives ==
  ASSUME NEW reg, NEW top, Living(reg, top), NEW kept
  PROVE  Living(Restore(reg, kept), top)
<1> DEFINE new == Restore(reg, kept)
           sec(p) == IF Section(reg, p) \in DOMAIN kept THEN kept[Section(reg, p)] ELSE {}
           back(p) == {[a EXCEPT !.seen = @ \/ a.id \in sec(p)] : a \in reg.map[p].accts}
           M == [p \in DOMAIN reg.map |-> [reg.map[p] EXCEPT !.accts = back(p)]]
<1>1. new = [reg EXCEPT !.map = M]
  BY DEF Restore
<1>2. DOMAIN M = DOMAIN reg.map /\ \A p \in DOMAIN reg.map : DOMAIN M[p] = {"pool", "accts"} /\ M[p].accts = back(p)
  <2> HIDE DEF back
  <2> QED BY DEF Living
<1>3. ASSUME NEW p \in DOMAIN reg.map, NEW a \in back(p)
      PROVE  \E b \in reg.map[p].accts : DOMAIN a = DOMAIN b /\ a.id = b.id
  <2>1. PICK b \in reg.map[p].accts : a = [b EXCEPT !.seen = @ \/ b.id \in sec(p)]
    OBVIOUS
  <2>2. IsAccount(b, top)
    BY DEF Living
  <2>3. DOMAIN a = DOMAIN b /\ a.id = b.id
    BY <2>1, <2>2 DEF IsAccount
  <2> QED BY <2>3
<1> HIDE DEF M, back
<1>4. DOMAIN new = {"default", "map"} /\ new.map = M
  <2> HIDE DEF new
  <2> QED BY <1>1 DEF Living
<1> HIDE DEF new
<1>5. /\ DOMAIN new = {"default", "map"} /\ DOMAIN new.map = DOMAIN reg.map
      /\ \A p \in DOMAIN reg.map :
           /\ DOMAIN new.map[p] = {"pool", "accts"}
           /\ \A a \in new.map[p].accts : \E b \in reg.map[p].accts : DOMAIN a = DOMAIN b /\ a.id = b.id
  BY <1>2, <1>3, <1>4
<1>6. Living(new, top)
  BY <1>5, LivingAgain
<1> QED BY <1>6 DEF new

LEMMA NoManagersLive ==
  ASSUME NEW top
  PROVE  Living(NoManagers, top)
<1>1. DOMAIN NoManagers = {"default", "map"} /\ NoManagers.map = <<>>
  BY DEF NoManagers
<1>2. DOMAIN <<>> = {}
  OBVIOUS
<1> HIDE DEF NoManagers
<1> QED BY <1>1, <1>2 DEF Living

LEMMA BuildLives ==
  ASSUME NEW top \in Nat, NEW k \in BOOLEAN, NEW doc, Sane(doc, top, k), Numbered(doc), NEW kept
  PROVE  Living(Build(doc, kept), top)
<1>1. Living(Sync(NoManagers, doc), top)
  BY NoManagersLive, SyncLives
<1> QED BY <1>1, RestoreLives DEF Build

---------------------------------------------------------------------------
(* The house: what the processes, the file and the live pools have of the  *)
(* accounts.                                                               *)

Stages == {"start", "pre", "edit", "notify", "reload", "handler", "boot", "serving", "done", "failed"}

\* No entry with a login has an API key: none had at the start, and no command
\* of the behaviour gives it one.
Keyless == NoLoginTwice /\ \A p \in Procs : cmd[p].op # "apikey"

\* A document a process has read or made, with the edits of its history.
InHand(doc, top, k) == Sane(doc, top, k) /\ doc.log \subseteq Procs

\* A content of the disk: a document some command has made has its ids apart.
Stored(x, top, k) == IsDoc(x) => Kept(x, top, k) /\ x.log \subseteq Procs /\ (x.log # {} => IdsApart(x))

\* What a job that runs op has in its hands.
Fine(p, op, k, j, top) ==
  /\ j.stage \in Stages /\ j.fd \in Inodes \cup {0}
  /\ HasRead(j) \/ j.step = "build" =>
       InHand(j.doc, top, k) /\ (j.stage \in {"reload", "boot"} => Numbered(j.doc))
  /\ j.stage = "edit" => p \in Procs /\ op \in EditOps /\ (op = "acrobat" => Planned(j.name))
  /\ j.step = "exchange" => op = "login/submit"

Orders == cmd[Daemon].op = "server" /\ \A p \in Procs : Wellformed(cmd[p])
HouseJobs == \A p \in All : Fine(p, cmd[p].op, Keyless, job[p], lastId)
HouseFiles == \A n \in Inodes : Stored(data[n], lastId, Keyless)
Typed == /\ lock \in All \cup {Nobody}
         /\ up \in {"down", "bound", "serving"}
         /\ flows \in [Flows -> {"none", "pending", "old"}]
         /\ past.lost \subseteq Procs

Housed == /\ lastId \in Nat /\ Orders /\ Typed
          /\ HouseJobs /\ HouseFiles /\ Living(registry, lastId)

LEMMA KeylessIs == Keyless \in BOOLEAN
BY DEF Keyless

LEMMA SaneAges ==
  ASSUME NEW top \in Nat, NEW more \in Nat, top <= more, NEW k \in BOOLEAN, NEW doc
  PROVE  (Sane(doc, top, k) => Sane(doc, more, k)) /\ (Kept(doc, top, k) => Kept(doc, more, k))
<1>1. 0 .. top \subseteq 0 .. more
  OBVIOUS
<1>2. IsDocument(doc, top) => IsDocument(doc, more)
  BY <1>1, DocumentIs DEF IsEntry
<1> QED BY <1>2 DEF Sane, Kept

\* What is in order stays so when more ids are issued.
LEMMA FineAges ==
  ASSUME NEW top \in Nat, NEW more \in Nat, top <= more, NEW k \in BOOLEAN,
         NEW p, NEW op, NEW j, Fine(p, op, k, j, top)
  PROVE  Fine(p, op, k, j, more)
BY SaneAges DEF Fine, InHand

LEMMA StoredAges ==
  ASSUME NEW top \in Nat, NEW more \in Nat, top <= more, NEW k \in BOOLEAN, NEW x, Stored(x, top, k)
  PROVE  Stored(x, more, k)
BY SaneAges DEF Stored

\* A document in hand may be saved.
LEMMA HandStored ==
  ASSUME NEW top, NEW k, NEW doc, InHand(doc, top, k)
  PROVE  Stored(doc, top, k)
BY DEF InHand, Stored, Sane, Kept

LEMMA BrokenStored ==
  ASSUME NEW top, NEW k
  PROVE  Stored(Empty, top, k) /\ Stored(Torn, top, k) /\ Stored(Free, top, k)
BY Broken DEF Stored

LEMMA NewJobHas ==
  ASSUME NEW stage, NEW step
  PROVE  Go(NoJob, stage, step).fd = 0 /\ Over(stage).fd = 0 /\ NoJob.fd = 0
BY NoJobIs DEF Go, Over

\* A job with nothing in its hands.
LEMMA BareIsFine ==
  ASSUME NEW p, NEW op, NEW k, NEW top, NEW j, j.stage \in Stages \ {"edit"}, j.fd = 0,
         ~HasRead(j), j.step \notin {"build", "exchange"}
  PROVE  Fine(p, op, k, j, top)
BY DEF Fine

LEMMA OverIsFine ==
  ASSUME NEW p, NEW op, NEW k, NEW top, NEW stage \in Stages \ {"edit"}
  PROVE  Fine(p, op, k, Over(stage), top)
BY OverIs, NewJobHas, BareIsFine DEF HasRead

LEMMA GoIsFine ==
  ASSUME NEW p, NEW op, NEW k, NEW top, NEW stage \in Stages \ {"edit"}, NEW step,
         step \notin {"loaded", "save", "write", "rename", "build", "exchange"}
  PROVE  Fine(p, op, k, Go(NoJob, stage, step), top)
BY NewJobIs, NewJobHas, BareIsFine DEF HasRead

\* A job that waits for the lock.
LEMMA WaitsIsFine ==
  ASSUME NEW p \in Procs, NEW op \in EditOps, NEW k, NEW top, NEW j,
         j.stage = "edit", j.step = "lock", j.fd = 0, op = "acrobat" => Planned(j.name)
  PROVE  Fine(p, op, k, j, top)
BY DEF Fine, HasRead, Stages

\* The jobs after a step of one process.
LEMMA OneMoves ==
  ASSUME Core, Housed, UNCHANGED cmd, NEW p \in All, NEW j, job' = [job EXCEPT ![p] = j],
         lastId' \in Nat, lastId <= lastId', Fine(p, cmd[p].op, Keyless, j, lastId')
  PROVE  HouseJobs'
<1>1. Keyless' = Keyless
  BY DEF Keyless
<1>2. job'[p] = j /\ \A q \in All : q # p => job'[q] = job[q]
  BY DEF Core, Jobs
<1>3. \A q \in All : Fine(q, cmd[q].op, Keyless, job[q], lastId')
  BY FineAges, KeylessIs DEF Housed, HouseJobs
<1>4. \A q \in All : Fine(q, cmd[q].op, Keyless, job'[q], lastId')
  BY <1>2, <1>3
<1> QED BY <1>1, <1>4 DEF HouseJobs

LEMMA OneMovesQuietly ==
  ASSUME Core, Housed, UNCHANGED <<cmd, lastId>>, NEW p \in All, NEW j, job' = [job EXCEPT ![p] = j],
         Fine(p, cmd[p].op, Keyless, j, lastId)
  PROVE  HouseJobs'
<1>1. lastId' \in Nat /\ lastId <= lastId' /\ Fine(p, cmd[p].op, Keyless, j, lastId')
  BY DEF Housed
<1> QED BY <1>1, OneMoves

LEMMA AgedHas ==
  ASSUME NEW j, DOMAIN j = DOMAIN NoJob
  PROVE  [j EXCEPT !.fresh = FALSE].name = j.name
BY NoJobIs

\* The jobs after a step that puts another content at the path.
LEMMA AllAge ==
  ASSUME Core, Housed, UNCHANGED <<cmd, lastId>>, NEW p \in All, NEW j, job' = Aged(p, j),
         Fine(p, cmd[p].op, Keyless, j, lastId)
  PROVE  HouseJobs'
<1>1. Keyless' = Keyless
  BY DEF Keyless
<1>2. /\ job'[p] = j
      /\ \A q \in All \ {p} :
           job'[q] = IF job[q].doc = Refused /\ job[q].name = <<>> THEN job[q]
                     ELSE [job[q] EXCEPT !.fresh = FALSE]
  BY DEF Aged
<1>3. ASSUME NEW q \in All \ {p} PROVE Fine(q, cmd[q].op, Keyless, job'[q], lastId)
  <2> DEFINE m == [job[q] EXCEPT !.fresh = FALSE]
  <2>1. Fine(q, cmd[q].op, Keyless, job[q], lastId) /\ DOMAIN job[q] = DOMAIN NoJob
    BY DEF Core, Jobs, Fits, Housed, HouseJobs
  <2>2. /\ m.stage = job[q].stage /\ m.step = job[q].step /\ m.doc = job[q].doc
        /\ m.fd = job[q].fd /\ m.name = job[q].name
    BY <2>1, StaleIs, AgedHas
  <2>3. job'[q] = job[q] \/ job'[q] = m
    BY <1>2
  <2> HIDE DEF m
  <2>4. Fine(q, cmd[q].op, Keyless, m, lastId)
    BY <2>1, <2>2 DEF Fine, HasRead
  <2> QED BY <2>1, <2>3, <2>4
<1>4. \A q \in All : Fine(q, cmd[q].op, Keyless, job'[q], lastId)
  BY <1>2, <1>3
<1> QED BY <1>1, <1>4 DEF HouseJobs

LEMMA FineIs ==
  ASSUME Core, Housed, NEW p \in All
  PROVE  Fine(p, cmd[p].op, Keyless, job[p], lastId) /\ DOMAIN job[p] = DOMAIN NoJob
BY DEF Core, Jobs, Fits, Housed, HouseJobs

\* The server's own start edits nothing.
LEMMA EditsAreCommands ==
  ASSUME Housed, NEW p \in All, cmd[p].op \in EditOps
  PROVE  p \in Procs
BY DEF Housed, Orders, EditOps, All

---------------------------------------------------------------------------
(* Where each step leaves its process.                                     *)

LEMMA StartHouse ==
  ASSUME Core, Housed, NEW p \in All, Start(p)
  PROVE  HouseJobs'
<1> DEFINE op == cmd[p].op
           j == Go(NoJob, First(op)[1], First(op)[2])
<1>1. /\ job' = [job EXCEPT ![p] = j] /\ UNCHANGED <<cmd, lastId>> /\ op # "none"
  BY DEF Start
<1>2. \/ First(op)[1] = "pre" /\ First(op)[2] = "read" /\ op \in LoadsFirst
      \/ First(op)[1] = "boot" /\ First(op)[2] = "read" /\ op = "server"
      \/ First(op)[1] = "handler" /\ First(op)[2] = op /\ op \in ServerOps
      \/ First(op)[1] = "edit" /\ First(op)[2] = "lock" /\ op \notin ServerOps \cup LoadsFirst \cup {"server"}
  BY DEF First
<1>3. CASE First(op)[1] # "edit"
  <2>1. First(op)[1] \in Stages \ {"edit"}
    BY <1>2, <1>3 DEF Stages
  <2>2. First(op)[2] \notin {"loaded", "save", "write", "rename", "build", "exchange"}
    BY <1>2, <1>3 DEF ServerOps
  <2>3. Fine(p, op, Keyless, j, lastId)
    BY <2>1, <2>2, GoIsFine
  <2> QED BY <1>1, <2>3, OneMovesQuietly
<1>4. CASE First(op)[1] = "edit"
  <2>1. First(op)[2] = "lock" /\ op \notin ServerOps \cup LoadsFirst \cup {"server"}
    BY <1>2, <1>4
  <2>2. p \in Procs
    BY <2>1 DEF Housed, Orders, All
  <2>3. op \in EditOps /\ op # "acrobat"
    BY <1>1, <2>1, <2>2 DEF Housed, Orders, Wellformed, ServerOps, LoadsFirst, Obtains
  <2>4. j.stage = "edit" /\ j.step = "lock" /\ j.fd = 0
    BY <1>4, <2>1, NewJobIs, NewJobHas
  <2> HIDE DEF j
  <2>5. Fine(p, op, Keyless, j, lastId)
    BY <2>2, <2>3, <2>4, WaitsIsFine
  <2> QED BY <1>1, <2>5, OneMovesQuietly
<1> QED BY <1>3, <1>4

LEMMA StepHas ==
  ASSUME NEW j, DOMAIN j = DOMAIN NoJob, NEW step
  PROVE  [j EXCEPT !.step = step].name = j.name
BY NoJobIs

LEMMA LockHouse ==
  ASSUME Core, Housed, NEW p \in All, Lock(p)
  PROVE  HouseJobs'
<1> DEFINE j == [job[p] EXCEPT !.step = "read"]
<1>1. job' = [job EXCEPT ![p] = j] /\ UNCHANGED <<cmd, lastId>>
  BY DEF Lock
<1>2. j.stage = job[p].stage /\ j.step = "read" /\ j.fd = job[p].fd /\ j.name = job[p].name
  BY FineIs, StepIs, StepHas
<1> HIDE DEF j
<1>3. Fine(p, cmd[p].op, Keyless, j, lastId)
  BY <1>2, FineIs DEF Fine, HasRead
<1> QED BY <1>1, <1>3, OneMovesQuietly

---------------------------------------------------------------------------
(* A load.                                                                 *)

LEMMA LoadedHas ==
  ASSUME NEW j, DOMAIN j = DOMAIN NoJob, NEW doc, NEW rewrite
  PROVE  Loaded(j, doc, rewrite).fd = j.fd /\ Loaded(j, doc, rewrite).name = j.name
BY NoJobIs DEF Loaded

LEMMA LoadIsFine ==
  ASSUME NEW p, NEW op, NEW k, NEW top, NEW more, NEW j, DOMAIN j = DOMAIN NoJob, Fine(p, op, k, j, top),
         NEW doc, InHand(doc, more, k), Numbered(doc), NEW rewrite \in BOOLEAN
  PROVE  Fine(p, op, k, Loaded(j, doc, rewrite), more)
<1> DEFINE m == Loaded(j, doc, rewrite)
<1>1. /\ m.stage = j.stage /\ m.doc = doc /\ m.fd = j.fd /\ m.name = j.name
      /\ m.step = IF rewrite THEN "save" ELSE "loaded"
  BY LoadedIs, LoadedHas
<1> HIDE DEF m
<1>2. Fine(p, op, k, m, more)
  BY <1>1 DEF Fine
<1> QED BY <1>2 DEF m

\* How many ids a load issues.
LEMMA LoadIssues ==
  ASSUME Core, Housed, NEW p \in All, Read(p)
  PROVE  /\ lastId' \in Nat /\ lastId <= lastId'
         /\ IsDoc(OnDisk) => InHand(Filled(OnDisk, lastId + 1), lastId', Keyless) /\ Numbered(Filled(OnDisk, lastId + 1))
<1> DEFINE more == Cardinality(Idless(EnsurePools(OnDisk)))
           filled == Filled(OnDisk, lastId + 1)
<1>1. lastId' = lastId + IF IsDoc(OnDisk) THEN more ELSE 0
  BY DEF Read
<1>2. lastId \in Nat
  BY DEF Housed
<1>3. CASE ~IsDoc(OnDisk)
  BY <1>1, <1>2, <1>3
<1>4. CASE IsDoc(OnDisk)
  <2>1. file # 0 /\ OnDisk = data[file]
    BY <1>4 DEF OnDisk, IsDoc
  <2>2. file \in Inodes
    BY <2>1 DEF Core, Files
  <2>3. Kept(OnDisk, lastId, Keyless) /\ OnDisk.log \subseteq Procs
    BY <1>4, <2>1, <2>2 DEF Housed, HouseFiles, Stored
  <2>4. more \in Nat /\ Sane(filled, lastId + more, Keyless) /\ Numbered(filled)
    BY <1>2, <2>3, KeylessIs, FilledSane
  <2>5. filled.log = OnDisk.log
    BY <1>4, FilledIs
  <2>6. lastId' = lastId + more
    BY <1>1, <1>4
  <2> HIDE DEF more, filled
  <2>7. lastId' \in Nat /\ lastId <= lastId'
    BY <1>2, <2>4, <2>6
  <2>8. InHand(filled, lastId', Keyless)
    BY <2>3, <2>4, <2>5, <2>6 DEF InHand
  <2> QED BY <2>4, <2>7, <2>8 DEF filled
<1> QED BY <1>3, <1>4

LEMMA ErrorIsFine ==
  ASSUME NEW p, NEW op, NEW k, NEW top
  PROVE  Fine(p, op, k, AfterError(p), top)
<1>1. AfterError(p) \in {Over("done"), Over("failed")}
  BY DEF AfterError
<1>2. {"done", "failed"} \subseteq Stages \ {"edit"}
  BY DEF Stages
<1> QED BY <1>1, <1>2, OverIsFine

LEMMA ReadHouse ==
  ASSUME Core, Housed, NEW p \in All, Read(p)
  PROVE  HouseJobs'
<1> DEFINE j == AfterRead(p)
           filled == Filled(OnDisk, lastId + 1)
<1>1. job' = [job EXCEPT ![p] = j] /\ UNCHANGED cmd
  BY DEF Read
<1>2. lastId' \in Nat /\ lastId <= lastId'
  BY LoadIssues
<1>3. \/ j = AfterError(p)
      \/ j \in {Loaded(job[p], DefaultDoc, FALSE), Loaded(job[p], DefaultDoc, TRUE)}
      \/ IsDoc(OnDisk) /\ j = Loaded(job[p], filled, MustRewrite(OnDisk))
  BY DEF AfterRead
<1>4. CASE j = AfterError(p)
  <2>1. Fine(p, cmd[p].op, Keyless, j, lastId')
    BY <1>4, ErrorIsFine
  <2> QED BY <1>1, <1>2, <2>1, OneMoves
<1>5. CASE j \in {Loaded(job[p], DefaultDoc, FALSE), Loaded(job[p], DefaultDoc, TRUE)}
  <2>1. InHand(DefaultDoc, lastId', Keyless) /\ Numbered(DefaultDoc)
    BY <1>2, KeylessIs, DefaultSane, DefaultDocIs DEF InHand
  <2>2. PICK rewrite \in BOOLEAN : j = Loaded(job[p], DefaultDoc, rewrite)
    BY <1>5
  <2> HIDE DEF j
  <2>3. Fine(p, cmd[p].op, Keyless, Loaded(job[p], DefaultDoc, rewrite), lastId')
    BY <2>1, FineIs, LoadIsFine
  <2> QED BY <1>1, <1>2, <2>2, <2>3, OneMoves
<1>6. CASE IsDoc(OnDisk) /\ j = Loaded(job[p], filled, MustRewrite(OnDisk))
  <2>1. InHand(filled, lastId', Keyless) /\ Numbered(filled)
    BY <1>6, LoadIssues
  <2> DEFINE rewrite == IF MustRewrite(OnDisk) THEN TRUE ELSE FALSE
  <2>2. rewrite \in BOOLEAN /\ j = Loaded(job[p], filled, rewrite)
    <3>1. Loaded(job[p], filled, MustRewrite(OnDisk)) = Loaded(job[p], filled, rewrite)
      <4>1. MustRewrite(OnDisk) \in BOOLEAN
        BY DEF MustRewrite
      <4> QED BY <4>1
    <3> QED BY <1>6, <3>1
  <2> HIDE DEF rewrite, filled, j
  <2>3. Fine(p, cmd[p].op, Keyless, Loaded(job[p], filled, rewrite), lastId')
    BY <2>1, <2>2, FineIs, LoadIsFine
  <2> QED BY <1>1, <1>2, <2>2, <2>3, OneMoves
<1> QED BY <1>3, <1>4, <1>5, <1>6

---------------------------------------------------------------------------
(* The edits.                                                              *)

\* The pool a login goes to, in the document it is made in.
LEMMA TargetSane ==
  ASSUME NEW top \in Nat, NEW k \in BOOLEAN, NEW doc, Sane(doc, top, k), NEW p \in Nat
  PROVE  Sane(Target(doc, p), top, k) /\ PoolName(doc, p) \in Nat \ {NoPool}
<1>1. doc.default \in Nat \ {NoPool}
  BY DocumentIs DEF Sane, Whole
<1>2. CASE p = NoPool
  BY <1>1, <1>2 DEF Target, PoolName
<1>3. CASE p # NoPool
  <2>1. Sane(EnsurePool(doc, p), top, k)
    BY <1>3, EnsurePoolSane
  <2> QED BY <1>3, <2>1 DEF Target, PoolName
<1> QED BY <1>2, <1>3

\* The edits of logins and imports.
LoginOps == {"login", "login/submit", "import", "apikey", "codex"}

LEMMA LoginsSane ==
  ASSUME NEW top \in Nat, Housed, NEW p \in Procs, cmd[p].op \in LoginOps,
         NEW doc, Sane(doc, top, Keyless)
  PROVE  Sane(Edit(p, doc), top, Keyless)
<1> DEFINE c == cmd[p]
           j == job[p]
           into == Target(doc, c.pool)
           pool == PoolName(doc, c.pool)
           named == Naming(c, doc)
<1>1. Wellformed(c) /\ c.pool \in Nat
  BY DEF Housed, Orders, Wellformed, LoginOps
<1>2. Sane(into, top, Keyless) /\ pool \in Nat \ {NoPool}
  BY <1>1, KeylessIs, TargetSane
<1>3. Profile(c).user = c.user /\ Profile(c).org = c.org /\ (NoProfile.user = Unknown => NoProfile.org = Unknown)
  BY DEF Profile, NoProfile
<1>4. CASE c.op = "login"
  <2>1. Edit(p, doc) = Upsert(into, pool, j.name, j.tok, Profile(c), FALSE)
    BY <1>4 DEF Edit
  <2>2. Profile(c).user = Unknown => Profile(c).org = Unknown
    BY <1>1, <1>3, <1>4 DEF Wellformed, IsProfile
  <2> HIDE DEF into, pool, j
  <2> QED BY <1>2, <2>1, <2>2, KeylessIs, UpsertSane
<1>5. CASE c.op = "login/submit"
  <2>1. \/ Edit(p, doc) = Upsert(into, pool, named, j.tok, Profile(c), FALSE)
        \/ Edit(p, doc) = Upsert(into, pool, j.name, j.tok, NoProfile, FALSE)
    BY <1>5 DEF Edit
  <2>2. Profile(c).user = Unknown => Profile(c).org = Unknown
    BY <1>1, <1>3, <1>5 DEF Wellformed, IsProfile
  <2> HIDE DEF into, pool, j, named
  <2> QED BY <1>2, <1>3, <2>1, <2>2, KeylessIs, UpsertSane
<1>6. CASE c.op = "import"
  <2>1. Edit(p, doc) = Upsert(into, pool, j.name, j.tok, Profile(c), c.link)
    BY <1>6 DEF Edit
  <2>2. Profile(c).user = Unknown => Profile(c).org = Unknown
    BY <1>1, <1>3, <1>6 DEF Wellformed, IsProfile
  <2> HIDE DEF into, pool, j
  <2> QED BY <1>2, <2>1, <2>2, KeylessIs, UpsertSane
<1>7. CASE c.op = "apikey"
  <2>1. Edit(p, doc) = AddApiKey(into, pool, j.name, j.tok)
    BY <1>7 DEF Edit
  <2>2. Keyless = FALSE
    BY <1>7 DEF Keyless
  <2> HIDE DEF into, pool, j
  <2> QED BY <1>2, <2>1, <2>2, AddApiKeySane
<1>8. CASE c.op = "codex"
  <2>1. Edit(p, doc) = AddCodex(into, pool, j.name, j.tok, Profile(c), c.link)
    BY <1>8 DEF Edit
  <2> HIDE DEF into, pool, j
  <2> QED BY <1>2, <2>1, KeylessIs, AddCodexSane
<1> QED BY <1>4, <1>5, <1>6, <1>7, <1>8 DEF LoginOps

\* Every other edit, but for the import of many.
LEMMA ChangesSane ==
  ASSUME NEW top \in Nat, Housed, NEW p \in Procs, cmd[p].op \in EditOps \ (LoginOps \cup {"acrobat"}),
         NEW doc, Sane(doc, top, Keyless)
  PROVE  Edit(p, doc) = Refused \/ Sane(Edit(p, doc), top, Keyless)
<1> DEFINE c == cmd[p]
           j == job[p]
<1>1. Wellformed(c)
  BY DEF Housed, Orders
<1>2. CASE c.op = "remove"
  <2>1. Edit(p, doc) = RemoveAccount(doc, c.pool, c.needle)
    BY <1>2 DEF Edit
  <2> QED BY <2>1, KeylessIs, RemovedSane
<1>3. CASE c.op \in {"disable", "action"}
  <2>1. Edit(p, doc) = SetDisabled(doc, c.pool, c.needle, c.off)
    BY <1>3 DEF Edit
  <2> QED BY <2>1, KeylessIs, SetDisabledSane
<1>4. CASE c.op = "knob"
  <2>1. Edit(p, doc) = SetKnob(doc, c.pool, c.knob)
    BY <1>4 DEF Edit
  <2> QED BY <2>1, KeylessIs, SetKnobSane
<1>5. CASE c.op \in {"pool add", "pool set"}
  <2>1. c.pool \in Nat \ {NoPool} /\ Len(c.set.accts) \in Nat
    BY <1>1, <1>5, SeqIs DEF Wellformed
  <2>2. \/ Edit(p, doc) = PoolAdd(doc, c.pool, c.set)
        \/ Edit(p, doc) = PoolSet(doc, c.pool, c.set)
    BY <1>5 DEF Edit
  <2> QED BY <2>1, <2>2, KeylessIs, PoolAddSane, PoolSetSane
<1>6. CASE c.op = "pool rm"
  <2>1. Edit(p, doc) = PoolRm(doc, c.pool, c.force)
    BY <1>6 DEF Edit
  <2> QED BY <2>1, KeylessIs, PoolRmSane
<1>7. CASE c.op = "create"
  <2>1. Edit(p, doc) = PoolCreate(doc, c.pool, c.knob)
    BY <1>7 DEF Edit
  <2>2. c.pool \in Nat \ {NoPool}
    BY <1>1, <1>7 DEF Wellformed
  <2> QED BY <2>1, <2>2, KeylessIs, PoolCreateSane
<1>8. CASE c.op = "edit"
  <2>1. Edit(p, doc) = PoolEdit(doc, c.pool, c.knob, c.new)
    BY <1>8 DEF Edit
  <2>2. c.new \in Nat
    BY <1>1, <1>8 DEF Wellformed
  <2> QED BY <2>1, <2>2, KeylessIs, PoolEditSane
<1>9. CASE c.op = "token"
  <2>1. Edit(p, doc) = PutToken(doc, j.pool, j.id, j.tok)
    BY <1>9 DEF Edit
  <2> QED BY <2>1, KeylessIs, PutTokenSane
<1> QED BY <1>2, <1>3, <1>4, <1>5, <1>6, <1>7, <1>8, <1>9 DEF EditOps, LoginOps

LEMMA LoggedSane ==
  ASSUME NEW top \in Nat, NEW k \in BOOLEAN, NEW doc, Sane(doc, top, k), NEW p
  PROVE  Sane(Logged(p, doc), top, k)
<1> DEFINE new == Logged(p, doc)
<1>1. DOMAIN new = {"default", "pools", "old", "log"} /\ new.default = doc.default /\ new.pools = doc.pools
  BY DEF Logged
<1>2. Whole(doc)
  BY DocumentIs DEF Sane
<1> HIDE DEF new
<1>3. Whole(new)
  BY <1>1, <1>2 DEF Whole
<1>4. Sane(new, top, k)
  BY <1>1, <1>3, Rearranged
<1> QED BY <1>4 DEF new

LEMMA AppliedHas ==
  ASSUME NEW j, DOMAIN j = DOMAIN NoJob, NEW doc
  PROVE  LET m == [j EXCEPT !.doc = doc, !.fill = FALSE, !.step = "save"] IN m.fd = j.fd /\ m.name = j.name
BY NoJobIs

\* What an edit makes of the document, and how many ids it issues.
LEMMA EditIssues ==
  ASSUME Core, Housed, NEW p \in All, Apply(p)
  PROVE  /\ lastId' \in Nat /\ lastId <= lastId' /\ p \in Procs
         /\ Edit(p, job[p].doc) # Refused => Sane(Edit(p, job[p].doc), lastId', Keyless)
<1> DEFINE doc == job[p].doc
           new == Edit(p, doc)
<1>1. /\ job[p].stage = "edit" /\ job[p].step = "loaded"
      /\ lastId' = IF new # Refused /\ cmd[p].op = "acrobat" THEN lastId + Cardinality(Places(new)) ELSE lastId
  BY DEF Apply, AtStep
<1>2. /\ p \in Procs /\ cmd[p].op \in EditOps /\ (cmd[p].op = "acrobat" => Planned(job[p].name))
      /\ InHand(doc, lastId, Keyless) /\ lastId \in Nat
  BY <1>1, FineIs DEF Fine, HasRead, Housed
<1>3. CASE cmd[p].op = "acrobat"
  <2>1. new = Acrobat(doc, job[p].name, lastId + 1)
    BY <1>3 DEF Edit
  <2> HIDE DEF new
  <2>2. new # Refused => /\ Cardinality(Places(new)) \in Nat
                         /\ Sane(new, lastId + Cardinality(Places(new)), Keyless)
    BY <1>2, <1>3, <2>1, KeylessIs, AcrobatSane DEF InHand
  <2>3. lastId' = IF new # Refused THEN lastId + Cardinality(Places(new)) ELSE lastId
    BY <1>1, <1>3
  <2>4. lastId' \in Nat /\ lastId <= lastId'
    BY <1>2, <2>2, <2>3
  <2> QED BY <1>2, <2>2, <2>3, <2>4 DEF new
<1>4. CASE cmd[p].op \in LoginOps
  <2>1. lastId' = lastId
    BY <1>1, <1>4 DEF LoginOps
  <2> QED BY <1>2, <1>4, <2>1, LoginsSane DEF InHand
<1>5. CASE cmd[p].op \notin LoginOps \cup {"acrobat"}
  <2>1. lastId' = lastId
    BY <1>1, <1>5
  <2> QED BY <1>2, <1>5, <2>1, ChangesSane DEF InHand
<1> QED BY <1>3, <1>4, <1>5

LEMMA ApplyHouse ==
  ASSUME Core, Housed, NEW p \in All, Apply(p)
  PROVE  HouseJobs'
<1> DEFINE new == Edit(p, job[p].doc)
           j == [job[p] EXCEPT !.doc = Logged(p, new), !.fill = FALSE, !.step = "save"]
<1>1. /\ lastId' \in Nat /\ lastId <= lastId' /\ p \in Procs
      /\ new # Refused => Sane(new, lastId', Keyless)
  BY EditIssues
<1>2. /\ UNCHANGED cmd /\ job[p].stage = "edit" /\ job[p].step = "loaded"
      /\ job' = [job EXCEPT ![p] = IF new = Refused THEN AfterError(p) ELSE j]
  BY DEF Apply, AtStep
<1>3. CASE new = Refused
  <2>1. Fine(p, cmd[p].op, Keyless, AfterError(p), lastId')
    BY ErrorIsFine
  <2> QED BY <1>1, <1>2, <1>3, <2>1, OneMoves
<1>4. CASE new # Refused
  <2>1. /\ j.stage = "edit" /\ j.step = "save" /\ j.doc = Logged(p, new)
        /\ j.fd = job[p].fd /\ j.name = job[p].name
    BY <1>2, FineIs, AppliedIs, AppliedHas
  <2>2. Sane(Logged(p, new), lastId', Keyless)
    BY <1>1, <1>4, KeylessIs, LoggedSane
  <2>3. Logged(p, new).log \subseteq Procs
    <3>1. job[p].doc.log \subseteq Procs
      BY <1>2, FineIs DEF Fine, HasRead, InHand
    <3> QED BY <1>1, <3>1, LoggedIs
  <2>4. job' = [job EXCEPT ![p] = j]
    BY <1>2, <1>4
  <2> HIDE DEF j, new
  <2>5. InHand(j.doc, lastId', Keyless)
    BY <2>1, <2>2, <2>3 DEF InHand
  <2>6. Fine(p, cmd[p].op, Keyless, job[p], lastId)
    BY FineIs
  <2>7. Fine(p, cmd[p].op, Keyless, j, lastId')
    BY <1>2, <2>1, <2>5, <2>6 DEF Fine, HasRead
  <2> QED BY <1>1, <1>2, <2>4, <2>7, OneMoves
<1> QED BY <1>3, <1>4

---------------------------------------------------------------------------
(* The saves.                                                              *)

LEMMA SavedHas ==
  ASSUME NEW j, DOMAIN j = DOMAIN NoJob
  PROVE  LET m == [j EXCEPT !.step = "loaded", !.fill = FALSE, !.fd = 0] IN m.fd = 0 /\ m.name = j.name
BY NoJobIs

LEMMA AfterSaveFine ==
  ASSUME Core, Housed, NEW p \in All, job[p].step \in {"save", "rename"}
  PROVE  Fine(p, cmd[p].op, Keyless, AfterSave(p), lastId)
<1>1. CASE job[p].fill
  <2> DEFINE j == [job[p] EXCEPT !.step = "loaded", !.fill = FALSE, !.fd = 0]
  <2>1. AfterSave(p) = j
    BY <1>1 DEF AfterSave
  <2>2. j.stage = job[p].stage /\ j.step = "loaded" /\ j.doc = job[p].doc /\ j.fd = 0 /\ j.name = job[p].name
    BY FineIs, SavedIs, SavedHas
  <2> HIDE DEF j
  <2>3. Fine(p, cmd[p].op, Keyless, j, lastId)
    BY <2>2, FineIs DEF Fine, HasRead
  <2> QED BY <2>1, <2>3
<1>2. CASE ~job[p].fill
  <2>1. AfterSave(p) \in {Over("done"), Go(NoJob, "handler", "rekey"),
                          Go(NoJob, "reload", "read"), Go(NoJob, "notify", "")}
    BY <1>2 DEF AfterSave, AfterEdit
  <2>2. {"done", "handler", "reload", "notify"} \subseteq Stages \ {"edit"}
    BY DEF Stages
  <2>3. {"rekey", "read", ""} \cap {"loaded", "save", "write", "rename", "build", "exchange"} = {}
    OBVIOUS
  <2>4. /\ Fine(p, cmd[p].op, Keyless, Over("done"), lastId)
        /\ Fine(p, cmd[p].op, Keyless, Go(NoJob, "handler", "rekey"), lastId)
        /\ Fine(p, cmd[p].op, Keyless, Go(NoJob, "reload", "read"), lastId)
        /\ Fine(p, cmd[p].op, Keyless, Go(NoJob, "notify", ""), lastId)
    BY <2>2, <2>3, OverIsFine, GoIsFine
  <2> QED BY <2>1, <2>4
<1> QED BY <1>1, <1>2

LEMMA SaveHouse ==
  ASSUME Core, Housed, NEW p \in All, SaveByCommand(p) \/ Rename(p)
  PROVE  HouseJobs'
<1>1. /\ job' = Aged(p, AfterSave(p)) /\ UNCHANGED <<cmd, lastId>>
      /\ job[p].step \in {"save", "rename"}
  BY DEF SaveByCommand, Rename
<1> QED BY <1>1, AfterSaveFine, AllAge

LEMMA OpenHouse ==
  ASSUME Core, Housed, NEW p \in All, Open(p)
  PROVE  HouseJobs'
<1> DEFINE n == TempInode
           j == [job[p] EXCEPT !.fd = n, !.step = "write"]
<1>1. job[p].step = "save" /\ job' = [job EXCEPT ![p] = j] /\ UNCHANGED <<cmd, lastId>>
  BY DEF Open
<1>2. n \in Inodes
  BY UnusedIs DEF TempInode, Core, Files
<1> HIDE DEF n
<1>3. /\ j.stage = job[p].stage /\ j.step = "write" /\ j.doc = job[p].doc /\ j.fd = n
      /\ j.name = job[p].name
  <2>1. j.name = job[p].name
    BY FineIs, NoJobIs
  <2> QED BY <2>1, FineIs, OpenedIs
<1> HIDE DEF j
<1>4. Fine(p, cmd[p].op, Keyless, j, lastId)
  BY <1>1, <1>2, <1>3, FineIs DEF Fine, HasRead
<1> QED BY <1>1, <1>4, OneMovesQuietly

LEMMA WriteHouse ==
  ASSUME Core, Housed, NEW p \in All, Write(p)
  PROVE  HouseJobs'
<1> DEFINE j == [job[p] EXCEPT !.fd = 0, !.step = "rename"]
<1>1. /\ job[p].step = "write" /\ UNCHANGED <<cmd, lastId>>
      /\ job' = Aged(p, j) \/ job' = [job EXCEPT ![p] = j]
  BY DEF Write
<1>2. /\ j.stage = job[p].stage /\ j.step = "rename" /\ j.doc = job[p].doc /\ j.fd = 0
      /\ j.name = job[p].name
  <2>1. j.name = job[p].name /\ j.fd = 0
    BY FineIs, NoJobIs
  <2> QED BY <2>1, FineIs, WrittenIs
<1> HIDE DEF j
<1>3. Fine(p, cmd[p].op, Keyless, j, lastId)
  BY <1>1, <1>2, FineIs DEF Fine, HasRead
<1> QED BY <1>1, <1>3, OneMovesQuietly, AllAge

LEMMA RenameFailsHouse ==
  ASSUME Core, Housed, NEW p \in All, RenameFails(p)
  PROVE  HouseJobs'
<1> DEFINE j == IF job[p].fill THEN AfterSave(p) ELSE AfterError(p)
<1>1. job[p].step = "rename" /\ job' = [job EXCEPT ![p] = j] /\ UNCHANGED <<cmd, lastId>>
  BY DEF RenameFails
<1>2. Fine(p, cmd[p].op, Keyless, j, lastId)
  BY <1>1, AfterSaveFine, ErrorIsFine
<1> HIDE DEF j
<1> QED BY <1>1, <1>2, OneMovesQuietly

\* Whatever is saved was in hand.
LEMMA FilesHouse ==
  ASSUME Core, Housed, NEW p \in All, SaveByCommand(p) \/ Open(p) \/ Write(p)
  PROVE  HouseFiles'
<1>1. PICK n, content :
        /\ data' = Put(n, content) /\ UNCHANGED <<cmd, lastId>>
        /\ Stored(content, lastId, Keyless)
  <2>1. Stored(Empty, lastId, Keyless) /\ Stored(Torn, lastId, Keyless)
    BY BrokenStored
  <2>2. CASE SaveByCommand(p)
    <3>1. data' = Put(Unused, job[p].doc) /\ UNCHANGED <<cmd, lastId>> /\ job[p].step = "save"
      BY <2>2 DEF SaveByCommand
    <3>2. Stored(job[p].doc, lastId, Keyless)
      BY <3>1, FineIs, HandStored DEF Fine, HasRead
    <3> QED BY <3>1, <3>2
  <2>3. CASE Open(p)
    <3>1. data' = Put(TempInode, Empty) /\ UNCHANGED <<cmd, lastId>>
      BY <2>3 DEF Open
    <3> QED BY <2>1, <3>1
  <2>4. CASE Write(p)
    <3>1. PICK new \in {job[p].doc} \cup (IF data[job[p].fd] = Empty THEN {} ELSE {Torn}) :
            data' = Put(job[p].fd, new)
      BY <2>4 DEF Write
    <3>2. UNCHANGED <<cmd, lastId>> /\ job[p].step = "write"
      BY <2>4 DEF Write
    <3>3. Stored(job[p].doc, lastId, Keyless)
      BY <3>2, FineIs, HandStored DEF Fine, HasRead
    <3> QED BY <2>1, <3>1, <3>2, <3>3
  <2> QED BY <2>2, <2>3, <2>4
<1>2. Stored(Free, lastId, Keyless)
  BY BrokenStored
<1>3. \A m \in Inodes : data'[m] \in {content, data[m], Free}
  BY <1>1 DEF Put
<1>4. \A m \in Inodes : Stored(data[m], lastId, Keyless)
  BY DEF Housed, HouseFiles
<1>5. \A m \in Inodes : Stored(data'[m], lastId, Keyless)
  BY <1>1, <1>2, <1>3, <1>4
<1>6. Keyless' = Keyless /\ lastId' = lastId
  BY <1>1 DEF Keyless
<1> QED BY <1>5, <1>6 DEF HouseFiles

---------------------------------------------------------------------------
(* The commands around their edit, and the control plane.                  *)

\* The rows an import has planned.
LEMMA RowsPlanned ==
  ASSUME NEW c, Wellformed(c), c.op = "acrobat", NEW doc
  PROVE  Planned(AcrobatRows(doc, c.rows))
<1> DEFINE rows == c.rows
           n == Len(rows)
           r == AcrobatRows(doc, rows)
<1>1. /\ rows \in Seq(Range(rows))
      /\ \A i \in DOMAIN rows : IsProfile(rows[i]) /\ rows[i].pool \in Nat \ {NoPool}
  BY DEF Wellformed
<1>2. n \in Nat /\ DOMAIN rows = 1 .. n
  BY <1>1, SeqIs
<1>3. DOMAIN r = DOMAIN rows /\ r = [i \in DOMAIN r |-> r[i]] /\ \A i \in DOMAIN rows : r[i] \in {rows[i], Skipped}
  BY DEF AcrobatRows
<1> HIDE DEF r, n
<1>4. Len(r) = n
  BY <1>2, <1>3, OwnSeq
<1>5. \A i \in 1 .. n : r[i] = Skipped \/ RowFits(r[i])
  BY <1>1, <1>2, <1>3 DEF RowFits, IsProfile
<1>6. Planned(r)
  BY <1>2, <1>4, <1>5 DEF Planned
<1> QED BY <1>6 DEF r

LEMMA ObtainHouse ==
  ASSUME Core, Housed, NEW p \in All, Obtain(p)
  PROVE  HouseJobs'
<1> DEFINE name == IF cmd[p].op = "acrobat" THEN AcrobatRows(job[p].doc, cmd[p].rows)
                   ELSE Naming(cmd[p], job[p].doc)
           j == [NoJob EXCEPT !.stage = "edit", !.step = "lock", !.fresh = job[p].fresh,
                              !.tok = clock + 1, !.name = name]
<1>1. cmd[p].op \in Obtains /\ job' = [job EXCEPT ![p] = j] /\ UNCHANGED <<cmd, lastId>>
  BY DEF Obtain
<1>2. cmd[p].op \in EditOps /\ p \in Procs
  BY <1>1, EditsAreCommands DEF Obtains, EditOps
<1>3. cmd[p].op = "acrobat" => Planned(name)
  BY <1>2, RowsPlanned DEF Housed, Orders
<1> HIDE DEF name
<1>4. j.stage = "edit" /\ j.step = "lock" /\ j.fd = 0 /\ j.name = name
  BY NoJobIs
<1> HIDE DEF j
<1>5. Fine(p, cmd[p].op, Keyless, j, lastId)
  BY <1>2, <1>3, <1>4, WaitsIsFine
<1> QED BY <1>1, <1>5, OneMovesQuietly

\* The steps after which a process has nothing in its hands.
LEMMA BareHouse ==
  ASSUME Core, Housed, NEW p \in All,
         Show(p) \/ Notify(p) \/ Publish(p) \/ RekeyPool(p) \/ LoginStart(p) \/ LoginCancel(p) \/ Kill(p)
  PROVE  HouseJobs'
<1>1. UNCHANGED <<cmd, lastId>>
  BY DEF Show, Notify, Publish, RekeyPool, LoginStart, LoginCancel, Kill
<1>2. \/ job' = [job EXCEPT ![p] = Over("done")]
      \/ job' = [job EXCEPT ![p] = Over("failed")]
      \/ job' = [job EXCEPT ![p] = Go(NoJob, "reload", "read")]
  BY DEF Show, Notify, Publish, RekeyPool, LoginStart, LoginCancel, Kill
<1>3. {"done", "failed", "reload"} \subseteq Stages \ {"edit"}
  BY DEF Stages
<1>4. /\ Fine(p, cmd[p].op, Keyless, Over("done"), lastId)
      /\ Fine(p, cmd[p].op, Keyless, Over("failed"), lastId)
      /\ Fine(p, cmd[p].op, Keyless, Go(NoJob, "reload", "read"), lastId)
  BY <1>3, OverIsFine, GoIsFine
<1> QED BY <1>1, <1>2, <1>4, OneMovesQuietly

LEMMA SyncPoolsHouse ==
  ASSUME Core, Housed, NEW p \in All, SyncPools(p)
  PROVE  HouseJobs'
<1> DEFINE j == [job[p] EXCEPT !.step = "publish"]
<1>1. /\ job[p].stage = "reload" /\ job' = [job EXCEPT ![p] = j] /\ UNCHANGED <<cmd, lastId>>
  BY DEF SyncPools, AtStep
<1>2. j.stage = job[p].stage /\ j.step = "publish" /\ j.fd = job[p].fd
  BY FineIs, StepIs
<1> HIDE DEF j
<1>3. Fine(p, cmd[p].op, Keyless, j, lastId)
  BY <1>1, <1>2, FineIs DEF Fine, HasRead
<1> QED BY <1>1, <1>3, OneMovesQuietly

LEMMA CheckHouse ==
  ASSUME Core, Housed, NEW p \in All, Check(p)
  PROVE  HouseJobs'
<1> DEFINE j == Go(NoJob, "edit", "lock")
<1>1. /\ job[p].stage = "handler" /\ job[p].step \in {"create", "edit", "action"}
      /\ job' = [job EXCEPT ![p] = j] \/ job' = [job EXCEPT ![p] = Over("failed")]
      /\ UNCHANGED <<cmd, lastId>>
  BY DEF Check
<1>2. cmd[p].op \in {"create", "edit", "action"}
  BY <1>1, HandlerIs DEF Core, ServerOps
<1>3. cmd[p].op \in EditOps /\ cmd[p].op # "acrobat" /\ p \in Procs
  BY <1>2, EditsAreCommands DEF EditOps
<1>4. Fine(p, cmd[p].op, Keyless, j, lastId)
  <2>1. j.stage = "edit" /\ j.step = "lock" /\ j.fd = 0
    BY NewJobIs, NewJobHas
  <2> HIDE DEF j
  <2> QED BY <1>3, <2>1, WaitsIsFine
<1>5. Fine(p, cmd[p].op, Keyless, Over("failed"), lastId)
  <2>1. "failed" \in Stages \ {"edit"}
    BY DEF Stages
  <2> QED BY <2>1, OverIsFine
<1> HIDE DEF j
<1> QED BY <1>1, <1>4, <1>5, OneMovesQuietly

LEMMA TakeFlowHouse ==
  ASSUME Core, Housed, NEW p \in All, TakeFlow(p)
  PROVE  HouseJobs'
<1> DEFINE j == Go(NoJob, "handler", "exchange")
<1>1. /\ job[p].stage = "handler" /\ job[p].step = "login/submit"
      /\ job' = [job EXCEPT ![p] = j] \/ job' = [job EXCEPT ![p] = Over("failed")]
      /\ UNCHANGED <<cmd, lastId>>
  BY DEF TakeFlow, AtStep
<1>2. cmd[p].op = "login/submit"
  BY <1>1, HandlerIs DEF Core, ServerOps
<1>3. Fine(p, cmd[p].op, Keyless, j, lastId)
  <2>1. j.stage = "handler" /\ j.step = "exchange" /\ j.fd = 0
    BY NewJobIs, NewJobHas
  <2> HIDE DEF j
  <2> QED BY <1>2, <2>1 DEF Fine, HasRead, Stages
<1>4. Fine(p, cmd[p].op, Keyless, Over("failed"), lastId)
  <2>1. "failed" \in Stages \ {"edit"}
    BY DEF Stages
  <2> QED BY <2>1, OverIsFine
<1> HIDE DEF j
<1> QED BY <1>1, <1>3, <1>4, OneMovesQuietly

\* A step of a login or a token write that has a credential to save.
LEMMA CredentialHouse ==
  ASSUME Core, Housed, NEW p \in All, cmd[p].op \in EditOps \ {"acrobat"}, UNCHANGED <<cmd, lastId>>,
         NEW j, j.stage = "edit", j.step = "lock", j.fd = 0,
         job' = [job EXCEPT ![p] = j] \/ job' = [job EXCEPT ![p] = Over("failed")]
  PROVE  HouseJobs'
<1>1. p \in Procs
  BY EditsAreCommands
<1>2. Fine(p, cmd[p].op, Keyless, j, lastId)
  BY <1>1, WaitsIsFine
<1>3. Fine(p, cmd[p].op, Keyless, Over("failed"), lastId)
  <2>1. "failed" \in Stages \ {"edit"}
    BY DEF Stages
  <2> QED BY <2>1, OverIsFine
<1> QED BY <1>2, <1>3, OneMovesQuietly

LEMMA ExchangeHouse ==
  ASSUME Core, Housed, NEW p \in All, Exchange(p)
  PROVE  HouseJobs'
<1>1. job[p].step = "exchange" /\ UNCHANGED <<cmd, lastId>>
  BY DEF Exchange, AtStep
<1>2. cmd[p].op \in EditOps \ {"acrobat"}
  BY <1>1, FineIs DEF Fine, EditOps
<1>3. PICK name : \/ job' = [job EXCEPT ![p] = [NoJob EXCEPT !.stage = "edit", !.step = "lock", !.tok = clock + 1, !.name = name]]
                  \/ job' = [job EXCEPT ![p] = Over("failed")]
  <2>1. CASE \E name : Issued(p, name)
    BY <2>1 DEF Issued
  <2>2. CASE job' = [job EXCEPT ![p] = Over("failed")]
    BY <2>2
  <2> QED BY <2>1, <2>2 DEF Exchange
<1> DEFINE j == [NoJob EXCEPT !.stage = "edit", !.step = "lock", !.tok = clock + 1, !.name = name]
<1>4. j.stage = "edit" /\ j.step = "lock" /\ j.fd = 0
  BY NoJobIs
<1>5. job' = [job EXCEPT ![p] = j] \/ job' = [job EXCEPT ![p] = Over("failed")]
  BY <1>3
<1> HIDE DEF j
<1> QED BY <1>1, <1>2, <1>4, <1>5, CredentialHouse

LEMMA RotateHouse ==
  ASSUME Core, Housed, NEW p \in All, Rotate(p)
  PROVE  HouseJobs'
<1>1. job[p].stage = "handler" /\ job[p].step = "token" /\ UNCHANGED <<cmd, lastId>>
  BY DEF Rotate, AtStep
<1>2. cmd[p].op \in EditOps \ {"acrobat"}
  BY <1>1, HandlerIs DEF Core, ServerOps, EditOps
<1>3. PICK pool : \/ job' = [job EXCEPT ![p] = [NoJob EXCEPT !.stage = "edit", !.step = "lock",
                                !.tok = clock + 1, !.pool = pool, !.id = cmd[p].id]]
                  \/ job' = [job EXCEPT ![p] = Over("failed")]
  BY DEF Rotate
<1> DEFINE j == [NoJob EXCEPT !.stage = "edit", !.step = "lock", !.tok = clock + 1, !.pool = pool, !.id = cmd[p].id]
<1>4. j.stage = "edit" /\ j.step = "lock" /\ j.fd = 0
  BY NoJobIs
<1>5. job' = [job EXCEPT ![p] = j] \/ job' = [job EXCEPT ![p] = Over("failed")]
  BY <1>3
<1> HIDE DEF j
<1> QED BY <1>1, <1>2, <1>4, <1>5, CredentialHouse

---------------------------------------------------------------------------
(* The life of the server.                                                 *)

LEMMA BindHouse ==
  ASSUME Core, Housed, Bind
  PROVE  HouseJobs'
<1> DEFINE p == Daemon
           j == [job[p] EXCEPT !.step = "build"]
<1>1. /\ p \in All /\ job[p].stage = "boot" /\ job[p].step = "loaded"
      /\ job' = [job EXCEPT ![p] = j] /\ UNCHANGED <<cmd, lastId>>
  BY DEF Bind, AtStep, All
<1>2. j.stage = job[p].stage /\ j.step = "build" /\ j.fd = job[p].fd /\ j.doc = job[p].doc
  BY <1>1, FineIs, StepIs
<1> HIDE DEF j
<1>3. Fine(p, cmd[p].op, Keyless, j, lastId)
  BY <1>1, <1>2, FineIs DEF Fine, HasRead
<1> QED BY <1>1, <1>3, OneMovesQuietly

LEMMA ServeHouse ==
  ASSUME Core, Housed, Serve
  PROVE  HouseJobs'
<1>1. Daemon \in All /\ job' = [job EXCEPT ![Daemon] = Over("serving")] /\ UNCHANGED <<cmd, lastId>>
  BY DEF Serve, All
<1>2. "serving" \in Stages \ {"edit"}
  BY DEF Stages
<1>3. Fine(Daemon, cmd[Daemon].op, Keyless, Over("serving"), lastId)
  BY <1>2, OverIsFine
<1> QED BY <1>1, <1>3, OneMovesQuietly

LEMMA NoJobIsFine ==
  ASSUME NEW p, NEW op, NEW k, NEW top
  PROVE  Fine(p, op, k, NoJob, top)
BY NoJobIs DEF Fine, HasRead, Stages

LEMMA DownHouse ==
  ASSUME Core, Housed, Down
  PROVE  HouseJobs'
<1>1. UNCHANGED cmd /\ lastId' = lastId /\ \A p \in All : job'[p] \in {NoJob, Over("failed"), Over("done"), job[p]}
  BY DEF Down
<1>2. Keyless' = Keyless
  BY <1>1 DEF Keyless
<1>3. {"done", "failed"} \subseteq Stages \ {"edit"}
  BY DEF Stages
<1>4. ASSUME NEW p \in All PROVE Fine(p, cmd[p].op, Keyless, job'[p], lastId)
  <2>1. /\ Fine(p, cmd[p].op, Keyless, NoJob, lastId) /\ Fine(p, cmd[p].op, Keyless, job[p], lastId)
        /\ Fine(p, cmd[p].op, Keyless, Over("failed"), lastId) /\ Fine(p, cmd[p].op, Keyless, Over("done"), lastId)
    BY <1>3, NoJobIsFine, FineIs, OverIsFine
  <2> QED BY <1>1, <2>1
<1> QED BY <1>1, <1>2, <1>4 DEF HouseJobs

---------------------------------------------------------------------------
(* The live pools, and the rest of the state.                              *)

LEMMA RotateLives ==
  ASSUME Core, Housed, NEW p \in All, Rotate(p)
  PROVE  Living(registry', lastId)
<1>1. Living(registry, lastId)
  BY DEF Housed
<1>2. CASE registry' = registry
  BY <1>1, <1>2
<1>3. CASE \E q \in DOMAIN registry.map : \E held \in registry.map[q].accts :
             registry' = [registry EXCEPT !.map[q].accts = (@ \ {held}) \cup {[held EXCEPT !.tok = clock + 1]}]
  <2>1. PICK q \in DOMAIN registry.map : \E held \in registry.map[q].accts :
             registry' = [registry EXCEPT !.map[q].accts = (@ \ {held}) \cup {[held EXCEPT !.tok = clock + 1]}]
    BY <1>3
  <2>2. PICK held \in registry.map[q].accts :
             registry' = [registry EXCEPT !.map[q].accts = (@ \ {held}) \cup {[held EXCEPT !.tok = clock + 1]}]
    BY <2>1
  <2> DEFINE new == [held EXCEPT !.tok = clock + 1]
             S == (registry.map[q].accts \ {held}) \cup {new}
             row == [registry.map[q] EXCEPT !.accts = S]
             M == [registry.map EXCEPT ![q] = row]
  <2>3. registry' = [registry EXCEPT !.map = M]
    BY <2>2
  <2>4. DOMAIN new = DOMAIN held /\ new.id = held.id
    BY <1>1 DEF Living, IsAccount
  <2> HIDE DEF new
  <2>5. \A a \in S : \E b \in registry.map[q].accts : DOMAIN a = DOMAIN b /\ a.id = b.id
    BY <2>4
  <2> HIDE DEF S
  <2>6. DOMAIN row = {"pool", "accts"} /\ row.accts = S
    BY <1>1 DEF Living
  <2> HIDE DEF row
  <2>7. DOMAIN M = DOMAIN registry.map /\ M[q] = row /\ \A r \in DOMAIN registry.map : r # q => M[r] = registry.map[r]
    OBVIOUS
  <2> HIDE DEF M
  <2>8. DOMAIN registry' = {"default", "map"} /\ registry'.map = M
    BY <1>1, <2>3 DEF Living
  <2>9. \A r \in DOMAIN registry.map :
          /\ DOMAIN registry'.map[r] = {"pool", "accts"}
          /\ \A a \in registry'.map[r].accts : \E b \in registry.map[r].accts : DOMAIN a = DOMAIN b /\ a.id = b.id
    BY <1>1, <2>5, <2>6, <2>7, <2>8 DEF Living
  <2> QED BY <1>1, <2>7, <2>8, <2>9, LivingAgain
<1> QED BY <1>2, <1>3 DEF Rotate

LEMMA PoolsHouse ==
  ASSUME Core, Housed, NEW p \in All, SyncPools(p) \/ RekeyPool(p) \/ Rotate(p) \/ Serve
  PROVE  Living(registry', lastId')
<1>1. Living(registry, lastId) /\ lastId \in Nat
  BY DEF Housed
<1>2. lastId' = lastId
  BY DEF SyncPools, RekeyPool, Rotate, Serve
<1>3. CASE SyncPools(p)
  <2>1. registry' = Sync(registry, job[p].doc) /\ job[p].stage = "reload" /\ job[p].step = "loaded"
    BY <1>3 DEF SyncPools, AtStep
  <2>2. Sane(job[p].doc, lastId, Keyless) /\ Numbered(job[p].doc)
    BY <2>1, FineIs DEF Fine, HasRead, InHand
  <2>3. Living(registry', lastId)
    BY <1>1, <2>1, <2>2, KeylessIs, SyncLives
  <2> QED BY <1>2, <2>3
<1>4. CASE RekeyPool(p)
  <2>1. registry' \in {registry, Rekey(registry, cmd[p].pool, cmd[p].new)}
    BY <1>4 DEF RekeyPool
  <2>2. Living(registry', lastId)
    BY <1>1, <2>1, RekeyLives
  <2> QED BY <1>2, <2>2
<1>5. CASE Rotate(p)
  BY <1>2, <1>5, RotateLives
<1>6. CASE Serve
  <2>1. /\ registry' = Build(job[Daemon].doc, state) /\ Daemon \in All
        /\ job[Daemon].stage = "boot" /\ job[Daemon].step = "build"
    BY <1>6 DEF Serve, AtStep, All
  <2>2. Sane(job[Daemon].doc, lastId, Keyless) /\ Numbered(job[Daemon].doc)
    BY <2>1, FineIs DEF Fine, InHand
  <2>3. Living(registry', lastId)
    BY <1>1, <2>1, <2>2, KeylessIs, BuildLives
  <2> QED BY <1>2, <2>3
<1> QED BY <1>3, <1>4, <1>5, <1>6

\* What a step leaves alone is in order as it was.
LEMMA FilesStay ==
  ASSUME Housed, UNCHANGED <<cmd, data>>, lastId' \in Nat, lastId <= lastId'
  PROVE  HouseFiles'
<1>1. Keyless' = Keyless
  BY DEF Keyless
<1>2. \A n \in Inodes : Stored(data[n], lastId', Keyless)
  BY StoredAges, KeylessIs DEF Housed, HouseFiles
<1> QED BY <1>1, <1>2 DEF HouseFiles

LEMMA PoolsStay ==
  ASSUME Housed, UNCHANGED registry, lastId' \in Nat, lastId <= lastId'
  PROVE  Living(registry', lastId')
BY LivingAges DEF Housed

\* The edits a save undoes are commands'.
LEMMA LostAreCommands ==
  ASSUME Core, Housed, NEW p \in All, job[p].step \in {"save", "write", "rename"},
         NEW doc, past' = Overwrites(p, doc)
  PROVE  past'.lost \subseteq Procs
<1> DEFINE known == Acknowledged \cup (IF job[p].fill THEN {} ELSE {p})
           undone == IF IsDoc(doc) /\ (job[p].fill \/ "twin" \in past.tags) THEN known \ doc.log ELSE {}
           race == IF job[p].fresh THEN {} ELSE {"race"}
<1>1. past' = [past EXCEPT !.lost = @ \cup undone, !.tags = @ \cup race]
  BY DEF Overwrites
<1>2. ~job[p].fill => p \in Procs
  <2>1. ~job[p].fill => job[p].stage = "edit"
    BY DEF Core, Jobs, Fits
  <2> QED BY <2>1, FineIs DEF Fine
<1>3. undone \subseteq Procs
  BY <1>2 DEF Acknowledged
<1> HIDE DEF undone, race
<1>4. past'.lost = past.lost \cup undone
  BY <1>1 DEF Core, PastIs
<1> QED BY <1>3, <1>4 DEF Housed, Typed

LEMMA LostHouse ==
  ASSUME Core, Housed, NEW p \in All, Start(p) \/ Step(p) \/ Kill(p) \/ Bind \/ Serve
  PROVE  past'.lost \subseteq Procs
<1>1. past.lost \subseteq Procs /\ PastIs
  BY DEF Housed, Typed, Core
<1>2. CASE Start(p) \/ Lock(p) \/ RenameFails(p) \/ Obtain(p) \/ Show(p) \/ Publish(p) \/ Check(p)
           \/ LoginStart(p) \/ LoginCancel(p) \/ Rotate(p) \/ Bind
  BY <1>1, <1>2 DEF Start, Lock, RenameFails, Obtain, Show, Publish, Check, LoginStart, LoginCancel, Rotate, Bind
<1>3. CASE Read(p) \/ Open(p) \/ Notify(p) \/ SyncPools(p) \/ RekeyPool(p) \/ Kill(p)
  <2>1. PICK tags : past' = Tag(tags)
    BY <1>3 DEF Read, Open, Notify, SyncPools, RekeyPool, Kill
  <2> QED BY <1>1, <2>1, TagIs
<1>4. CASE Apply(p)
  <2>1. PICK tags, gone, rehomed :
          past' = [past EXCEPT !.tags = @ \cup tags, !.displaced = @ \cup gone, !.rehomed = @ \cup rehomed]
    BY <1>4, AppliedPast
  <2> QED BY <1>1, <2>1 DEF PastIs
<1>5. CASE Serve
  <2>1. PICK tags, rehomed : past' = [past EXCEPT !.tags = @ \cup tags, !.rehomed = @ \cup rehomed]
    BY <1>5 DEF Serve
  <2> QED BY <1>1, <2>1 DEF PastIs
<1>6. CASE SaveByCommand(p) \/ Write(p) \/ Rename(p)
  <2>1. job[p].step \in {"save", "write", "rename"}
    BY <1>6 DEF SaveByCommand, Write, Rename
  <2>2. past' = past \/ \E doc : past' = Overwrites(p, doc)
    BY <1>6 DEF SaveByCommand, Write, Rename
  <2> QED BY <1>1, <2>1, <2>2, LostAreCommands
<1>7. CASE TakeFlow(p)
  <2>1. past' = past \/ \E n, f : past' = [past EXCEPT !.redeemed[f] = n]
    BY <1>7 DEF TakeFlow
  <2> QED BY <1>1, <2>1 DEF PastIs
<1>8. CASE Exchange(p)
  <2>1. past' = past \/ past' = [past EXCEPT !.nameless = @ \cup {p}]
    BY <1>8 DEF Exchange
  <2> QED BY <1>1, <2>1 DEF PastIs
<1> QED BY <1>2, <1>3, <1>4, <1>5, <1>6, <1>7, <1>8 DEF Step

LEMMA StepTyped ==
  ASSUME Core, Housed, NEW p \in All, Start(p) \/ Step(p) \/ Kill(p)
  PROVE  Typed'
<1>1. lock \in All \cup {Nobody} /\ up \in {"down", "bound", "serving"} /\ flows \in [Flows -> {"none", "pending", "old"}]
  BY DEF Housed, Typed
<1>2. past'.lost \subseteq Procs
  BY LostHouse
<1>3. lock' \in {lock, p, Nobody} /\ up' = up
  BY DEF Start, Kill, Step, Lock, Read, Apply, SaveByCommand, Open, Write, Rename, RenameFails, Obtain,
         Show, Notify, SyncPools, Publish, Check, RekeyPool, LoginStart, TakeFlow, Exchange, LoginCancel, Rotate, Unlocked
<1>4. flows' \in [Flows -> {"none", "pending", "old"}]
  <2>1. CASE LoginStart(p) \/ TakeFlow(p) \/ LoginCancel(p)
    BY <1>1, <2>1 DEF LoginStart, TakeFlow, LoginCancel
  <2>2. CASE flows' = flows
    BY <1>1, <2>2
  <2> QED BY <2>1, <2>2 DEF Start, Kill, Step, Lock, Read, Apply, SaveByCommand, Open, Write, Rename, RenameFails,
         Obtain, Show, Notify, SyncPools, Publish, Check, RekeyPool, Exchange, Rotate
<1> QED BY <1>1, <1>2, <1>3, <1>4 DEF Typed

\* Ids are only ever issued.
LEMMA StepIssues ==
  ASSUME Core, Housed, NEW p \in All, Start(p) \/ Step(p) \/ Kill(p)
  PROVE  UNCHANGED cmd /\ lastId' \in Nat /\ lastId <= lastId'
<1>1. UNCHANGED cmd
  BY DEF Start, Kill, Step, Lock, Read, Apply, SaveByCommand, Open, Write, Rename, RenameFails, Obtain,
         Show, Notify, SyncPools, Publish, Check, RekeyPool, LoginStart, TakeFlow, Exchange, LoginCancel, Rotate
<1>2. CASE Read(p)
  BY <1>1, <1>2, LoadIssues
<1>3. CASE Apply(p)
  BY <1>1, <1>3, EditIssues
<1>4. CASE lastId' = lastId
  BY <1>1, <1>4 DEF Housed
<1> QED BY <1>2, <1>3, <1>4 DEF Start, Kill, Step, Lock, SaveByCommand, Open, Write, Rename, RenameFails, Obtain,
         Show, Notify, SyncPools, Publish, Check, RekeyPool, LoginStart, TakeFlow, Exchange, LoginCancel, Rotate

LEMMA StepHoused ==
  ASSUME Core, Housed, NEW p \in All, Start(p) \/ Step(p) \/ Kill(p)
  PROVE  Housed'
<1>1. UNCHANGED cmd /\ lastId' \in Nat /\ lastId <= lastId'
  BY StepIssues
<1>2. Typed'
  BY StepTyped
<1>3. HouseJobs'
  BY StartHouse, LockHouse, ReadHouse, ApplyHouse, SaveHouse, OpenHouse, WriteHouse, RenameFailsHouse, ObtainHouse,
     BareHouse, SyncPoolsHouse, CheckHouse, TakeFlowHouse, ExchangeHouse, RotateHouse DEF Step
<1>4. HouseFiles'
  <2>1. CASE SaveByCommand(p) \/ Open(p) \/ Write(p)
    BY <2>1, FilesHouse
  <2>2. CASE data' = data
    BY <1>1, <2>2, FilesStay
  <2> QED BY <2>1, <2>2 DEF Start, Kill, Step, Lock, Read, Apply, Rename, RenameFails, Obtain, Show, Notify,
         SyncPools, Publish, Check, RekeyPool, LoginStart, TakeFlow, Exchange, LoginCancel, Rotate
<1>5. Living(registry', lastId')
  <2>1. CASE SyncPools(p) \/ RekeyPool(p) \/ Rotate(p)
    BY <2>1, PoolsHouse
  <2>2. CASE registry' = registry
    BY <1>1, <2>2, PoolsStay
  <2> QED BY <2>1, <2>2 DEF Start, Kill, Step, Lock, Read, Apply, SaveByCommand, Open, Write, Rename, RenameFails,
         Obtain, Show, Notify, Publish, Check, LoginStart, TakeFlow, Exchange, LoginCancel
<1>6. Orders'
  BY <1>1 DEF Housed, Orders
<1> QED BY <1>1, <1>2, <1>3, <1>4, <1>5, <1>6 DEF Housed

LEMMA ElseHoused ==
  ASSUME Core, Housed,
         Bind \/ Serve \/ Down \/ SaveState \/ Idle \/ UNCHANGED vars \/ \E f \in Flows : FlowAges(f)
  PROVE  Housed'
<1>1. UNCHANGED <<cmd, lastId, data>> /\ lastId' \in Nat /\ lastId <= lastId'
  BY DEF Housed, Bind, Serve, Down, SaveState, Idle, vars, FlowAges
<1>2. Typed'
  <2>1. lock \in All \cup {Nobody} /\ up \in {"down", "bound", "serving"} /\ flows \in [Flows -> {"none", "pending", "old"}]
    BY DEF Housed, Typed
  <2>2. lock' \in {lock, Nobody} /\ up' \in {up, "down", "bound", "serving"}
    BY DEF Bind, Serve, Down, SaveState, Idle, vars, FlowAges
  <2>3. flows' \in [Flows -> {"none", "pending", "old"}]
    BY <2>1 DEF Bind, Serve, Down, SaveState, Idle, vars, FlowAges
  <2>4. past'.lost \subseteq Procs
    <3>1. CASE Bind \/ Serve
      BY <3>1, LostHouse DEF All
    <3>2. CASE past' = past
      BY <3>2 DEF Housed, Typed
    <3> QED BY <3>1, <3>2 DEF Down, SaveState, Idle, vars, FlowAges
  <2> QED BY <2>1, <2>2, <2>3, <2>4 DEF Typed
<1>3. HouseJobs'
  <2>1. CASE Bind \/ Serve \/ Down
    BY <2>1, BindHouse, ServeHouse, DownHouse
  <2>2. CASE job' = job
    <3>1. Keyless' = Keyless
      BY <1>1 DEF Keyless
    <3> QED BY <1>1, <2>2, <3>1 DEF Housed, HouseJobs
  <2> QED BY <2>1, <2>2 DEF SaveState, Idle, vars, FlowAges
<1>4. HouseFiles'
  BY <1>1, FilesStay
<1>5. Living(registry', lastId')
  <2>1. CASE Serve
    BY <2>1, PoolsHouse DEF All
  <2>2. CASE registry' = registry
    BY <1>1, <2>2, PoolsStay
  <2> QED BY <2>1, <2>2 DEF Bind, Down, SaveState, Idle, vars, FlowAges
<1>6. Orders'
  BY <1>1 DEF Housed, Orders
<1> QED BY <1>1, <1>2, <1>3, <1>4, <1>5, <1>6 DEF Housed

LEMMA NextHoused ==
  ASSUME Core, Housed, [Next]_vars
  PROVE  Housed'
<1>1. ASSUME NEW p \in All, Start(p) \/ Step(p) \/ Kill(p) PROVE Housed'
  BY <1>1, StepHoused
<1>2. CASE Boot
  BY <1>1, <1>2, ElseHoused DEF Boot, All
<1>3. CASE SaveState \/ Stop \/ Crash \/ Idle \/ UNCHANGED vars \/ \E f \in Flows : FlowAges(f)
  BY <1>3, ElseHoused DEF Stop, Crash
<1> QED BY <1>1, <1>2, <1>3 DEF Next, All

LEMMA InitHoused ==
  ASSUME Init
  PROVE  Housed
<1>1. PICK s \in Scenarios :
        /\ cmd = s.cmd /\ lastId = s.lastId
        /\ data = [n \in Inodes |-> IF n = 1 /\ IsDoc(s.doc) THEN s.doc ELSE Free]
        /\ job = [p \in All |-> IF p = Daemon /\ s.up THEN Over("serving") ELSE NoJob]
        /\ \/ registry = NoManagers /\ up = "down"
           \/ s.up /\ registry = Build(s.doc, s.state) /\ up = "serving"
  BY DEF Init
<1>2. lock = Nobody /\ flows = [f \in Flows |-> "none"] /\ past.lost = {}
  BY DEF Init
<1>3. /\ s.cmd[Daemon].op = "server" /\ \A p \in Procs : Wellformed(s.cmd[p])
      /\ s.lastId \in Nat
      /\ IsDoc(s.doc) => IsDocument(s.doc, s.lastId) /\ s.doc.log = {}
      /\ Keyless /\ IsDoc(s.doc) => LoginsApart(s.doc) /\ KeysBare(s.doc)
      /\ s.up => IsDoc(s.doc) /\ IdsApart(s.doc) /\ Numbered(s.doc)
  <2>1. s \in Scenarios
    BY <1>1
  <2>2. Keyless /\ IsDoc(s.doc) => LoginsApart(s.doc) /\ KeysBare(s.doc)
    BY <2>1 DEF Keyless, NoLoginTwice
  <2> QED BY <2>1, <2>2, ScenariosAssumption
<1>4. lastId \in Nat /\ Orders
  BY <1>1, <1>3 DEF Orders
<1>5. Typed
  BY <1>1, <1>2 DEF Typed
<1>6. HouseJobs
  <2>1. "serving" \in Stages \ {"edit"}
    BY DEF Stages
  <2>2. \A p \in All : job[p] \in {NoJob, Over("serving")}
    BY <1>1
  <2>3. \A p \in All : /\ Fine(p, cmd[p].op, Keyless, NoJob, lastId)
                       /\ Fine(p, cmd[p].op, Keyless, Over("serving"), lastId)
    BY <2>1, NoJobIsFine, OverIsFine
  <2> QED BY <2>2, <2>3 DEF HouseJobs
<1>7. HouseFiles
  <2>1. \A n \in Inodes : data[n] \in {Free} \/ (data[n] = s.doc /\ IsDoc(s.doc))
    BY <1>1
  <2>2. IsDoc(s.doc) => Stored(s.doc, lastId, Keyless)
    BY <1>1, <1>3 DEF Stored, Kept
  <2> QED BY <2>1, <2>2, BrokenStored DEF HouseFiles
<1>8. Living(registry, lastId)
  <2>1. CASE registry = NoManagers
    BY <2>1, NoManagersLive
  <2>2. CASE s.up /\ registry = Build(s.doc, s.state)
    <3>1. Sane(s.doc, lastId, Keyless) /\ Numbered(s.doc)
      BY <1>1, <1>3, <2>2 DEF Sane
    <3> QED BY <1>4, <2>2, <3>1, KeylessIs, BuildLives
  <2> QED BY <1>1, <2>1, <2>2
<1> QED BY <1>4, <1>5, <1>6, <1>7, <1>8 DEF Housed

LEMMA HousedTypes ==
  ASSUME Core, Housed
  PROVE  TypeOK
<1>1. file \in Inodes \cup {0} /\ temp \in Inodes \cup {0}
  BY DEF Core, Files
<1>2. \A n \in Inodes : IsDoc(data[n]) => data[n].log \subseteq Procs
  BY DEF Housed, HouseFiles, Stored
<1>3. \A p \in All : job[p].stage \in Stages /\ job[p].fd \in Inodes \cup {0}
  BY FineIs DEF Fine
<1>4. \A s \in Served(registry) : s[2] \in 1 .. lastId
  BY LivingServes DEF Housed
<1>5. Typed
  BY DEF Housed
<1> QED BY <1>1, <1>2, <1>3, <1>4, <1>5 DEF TypeOK, Typed, Stages

LEMMA HousedHomes ==
  ASSUME Core, Housed
  PROVE  OneHome
<1>1. OneManager
  BY LivingServes DEF Housed, OneManager
<1>2. IsDoc(OnDisk) => Stored(OnDisk, lastId, Keyless)
  <2>1. IsDoc(OnDisk) => file # 0 /\ OnDisk = data[file]
    BY DEF OnDisk, IsDoc
  <2>2. file # 0 => file \in Inodes
    BY DEF Core, Files
  <2> QED BY <2>1, <2>2 DEF Housed, HouseFiles
<1>3. OneId
  BY <1>2 DEF OneId, Stored, IdsApart
<1>4. OneEntry
  <2>1. SUFFICES ASSUME IsDoc(OnDisk), Keyless, NEW login \in Logins(OnDisk)
                 PROVE  Cardinality(Entries(login)) = 1
    BY DEF OneEntry, Keyless
  <2>2. LoginsApart(OnDisk)
    BY <1>2, <2>1 DEF Stored, Kept
  <2>3. PICK a \in AllAccounts(OnDisk) : /\ AnthropicOauth(a) /\ Unknown \notin {a.user, a.org}
                                         /\ login = <<a.user, a.org>>
    BY DEF Logins
  <2>4. PICK x \in Places(OnDisk) : At(OnDisk, x) = a
    BY DEF AllAccounts
  <2>5. x \in Entries(login)
    BY <2>3, <2>4 DEF Entries
  <2>6. ASSUME NEW y \in Entries(login) PROVE y = x
    <3>1. y \in Places(OnDisk) /\ AnthropicOauth(At(OnDisk, y)) /\ <<At(OnDisk, y).user, At(OnDisk, y).org>> = login
      BY <2>6 DEF Entries
    <3>2. At(OnDisk, y).user = a.user /\ At(OnDisk, y).org = a.org
      BY <2>3, <3>1
    <3>3. SameLogin(At(OnDisk, y), At(OnDisk, x))
      BY <2>3, <2>4, <3>1, <3>2 DEF SameLogin, Known, AnthropicOauth
    <3> QED BY <2>2, <3>1, <3>3 DEF LoginsApart
  <2>7. Entries(login) = {x}
    BY <2>5, <2>6
  <2> QED BY <2>7, FS_Singleton
<1> QED BY <1>1, <1>3, <1>4 DEF OneHome

LEMMA HousedHolds == Spec => [](Core /\ Housed)
<1> HIDE DEF Core, Housed
<1>1. Init => Core /\ Housed
  BY InitCore, InitHoused
<1>2. Core /\ Housed /\ [Next]_vars => (Core /\ Housed)'
  BY NextKeeps, NextHoused
<1> QED BY <1>1, <1>2, PTL DEF Spec

\* Whatever the commands, handlers, crashes and restarts do, the server serves
\* only accounts whose ids were issued, and what the file, the lock and every
\* process hold is of its kind.
THEOREM ServesIssuedIds == Spec => []TypeOK
<1> HIDE DEF Core, Housed, TypeOK
<1>1. Core /\ Housed => TypeOK
  BY HousedTypes
<1> QED BY <1>1, HousedHolds, PTL

\* Logins, imports, edits of pools and loads never give an account a second
\* home: one manager serves it, a file a command has written has no id twice,
\* and a login whose profile is known has one entry.
THEOREM AccountsHaveOneHome == Spec => []OneHome
<1> HIDE DEF Core, Housed, OneHome
<1>1. Core /\ Housed => OneHome
  BY HousedHomes
<1> QED BY <1>1, HousedHolds, PTL
=============================================================================
