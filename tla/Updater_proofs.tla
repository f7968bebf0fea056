--------------------------- MODULE Updater_proofs ---------------------------
(* Proofs about Updater for any updates, releases and bounds: unless two     *)
(* updates shared the backup, the path of the binary always holds a whole    *)
(* one, and a rollback puts back what its update has replaced.               *)
EXTENDS Updater, SequenceTheorems, TLAPS

-----------------------------------------------------------------------------
\* The invariant.

Release == 0..Last
Phases  == {"start", "fetch", "backup", "copying", "swap", "restart", "health", "again", "ended"}
Update  == [pc : Phases, tag : Release, after : {"nothing", "restart", "watch"},
            fd : Nat, src : Nat, kept : BOOLEAN, base : Release]

\* The types.  An update knows two inodes while it copies, and has a release
\* that verifies from the backup on.
FilesTyped   == content \in Seq(Release) /\ target \in 1..Len(content) /\ prev \in 0..Len(content)
UpdatesTyped ==
  /\ up \in [Updates -> Update]
  /\ \A u \in Updates :
        /\ up[u].pc = "copying" => up[u].fd \in 1..Len(content) /\ up[u].src \in 1..Len(content)
        /\ up[u].pc \in {"backup", "copying", "swap"} => up[u].tag \in Sane
RestTyped    == published \in 1..Last /\ past \subseteq {"twin", "excused"}
Types        == FilesTyped /\ UpdatesTyped /\ RestTyped

\* While the updates take turns, the backup is another file than the binary,
\* and it holds what the update at work has replaced, or is about to.
TakeTurns == \A u, v \in Updates : Busy(u) /\ Busy(v) => u = v
Apart     == prev # target /\ Whole(target)
Held(u)   ==
  /\ up[u].pc = "copying" => up[u].fd = prev /\ up[u].src = target
  /\ up[u].pc = "swap" /\ up[u].kept => prev # NoFile /\ content[prev] = content[target]
  /\ up[u].pc \in {"restart", "health"} /\ up[u].kept =>
        prev # NoFile /\ content[prev] = up[u].base /\ up[u].base # Torn
  /\ up[u].pc = "again" => content[target] = up[u].base

InTurn == TakeTurns /\ Apart /\ \A u \in Updates : Held(u)
IInv   == Types /\ ("twin" \notin past => InTurn)

-----------------------------------------------------------------------------
\* Lemmas.

LEMMA Releases == 0 \in Release /\ 1 \in Release /\ Sane \subseteq Release \ {Torn}
BY UpdaterAssumption DEF Release, Torn

\* Only the update that moves changes, and it is alone at work afterwards if it
\* was at work before or nobody else was.
LEMMA OneMoves ==
  ASSUME UpdatesTyped, NEW u \in Updates, NEW r \in Update, up' = [up EXCEPT ![u] = r]
  PROVE  /\ up' \in [Updates -> Update]
         /\ up'[u] = r
         /\ \A v \in Updates \ {u} : up'[v] = up[v] /\ (Busy(v)' <=> Busy(v))
BY DEF UpdatesTyped, Busy

LEMMA Alone ==
  ASSUME UpdatesTyped, NEW u \in Updates, NEW r \in Update, up' = [up EXCEPT ![u] = r],
         TakeTurns, Busy(u) \/ \A v \in Updates \ {u} : ~Busy(v)
  PROVE  TakeTurns' /\ \A v \in Updates \ {u} : Held(v)'
<1>1. \A v \in Updates \ {u} : ~Busy(v) /\ ~Busy(v)'
  BY OneMoves DEF TakeTurns
<1>2. \A v \in Updates : Busy(v)' => v = u
  BY <1>1
<1>3. TakeTurns'
  BY <1>2 DEF TakeTurns
<1>4. ASSUME NEW v \in Updates \ {u} PROVE Held(v)'
  BY <1>1 DEF Busy, Held
<1> QED
  BY <1>3, <1>4

\* An update that is not at work, before or after, disturbs nothing.
LEMMA Aside ==
  ASSUME UpdatesTyped, NEW u \in Updates, NEW r \in Update, up' = [up EXCEPT ![u] = r],
         r.pc \notin {"copying", "swap", "restart", "health", "again"},
         UNCHANGED <<content, target, prev>>, InTurn
  PROVE  InTurn'
<1>1. ~Busy(u)'
  BY OneMoves DEF Busy
<1>2. \A v \in Updates : Busy(v)' => Busy(v)
  BY <1>1, OneMoves
<1>3. TakeTurns'
  BY <1>2 DEF InTurn, TakeTurns
<1>4. Apart'
  BY DEF InTurn, Apart, Whole
<1>5. ASSUME NEW v \in Updates PROVE Held(v)'
  <2>1. CASE v = u
    BY <1>1, <2>1 DEF Busy, Held
  <2>2. CASE v # u
    BY <2>2, OneMoves DEF InTurn, Held
  <2> QED
    BY <2>1, <2>2
<1> QED
  BY <1>3, <1>4, <1>5 DEF InTurn

\* The types of an update that moves while no inode comes or goes.
LEMMA MoveTyped ==
  ASSUME UpdatesTyped, NEW u \in Updates, NEW r \in Update, up' = [up EXCEPT ![u] = r],
         r.pc # "copying", r.pc \in {"backup", "swap"} => r.tag \in Sane,
         content \in Seq(Release), content' \in Seq(Release), Len(content') >= Len(content)
  PROVE  UpdatesTyped'
<1>1. Len(content) \in Nat /\ Len(content') \in Nat
  BY LenProperties
<1>2. 1..Len(content) \subseteq 1..Len(content')
  BY <1>1
<1> QED
  BY <1>2, OneMoves DEF UpdatesTyped

Gone(u, pc) == [up[u] EXCEPT !.pc = pc]

LEMMA GoesMoves ==
  ASSUME UpdatesTyped, NEW u \in Updates, NEW pc \in Phases, Goes(u, pc)
  PROVE  /\ up' = [up EXCEPT ![u] = Gone(u, pc)]
         /\ Gone(u, pc) \in Update
         /\ Gone(u, pc).pc = pc /\ Gone(u, pc).tag = up[u].tag
         /\ Gone(u, pc).kept = up[u].kept /\ Gone(u, pc).base = up[u].base
<1>1. up[u] \in Update
  BY DEF UpdatesTyped
<1>2. Gone(u, pc) \in Update
  BY <1>1 DEF Update, Gone
<1>3. up' = [up EXCEPT ![u] = Gone(u, pc)]
  BY DEF Goes, Gone
<1>4. /\ Gone(u, pc).pc = pc /\ Gone(u, pc).tag = up[u].tag
      /\ Gone(u, pc).kept = up[u].kept /\ Gone(u, pc).base = up[u].base
  BY <1>1 DEF Update, Gone
<1> QED
  BY <1>2, <1>3, <1>4

\* What a step writes to the history.
LEMMA PastGrows ==
  ASSUME RestTyped, past' \in {past, Excuse}
  PROVE  past' \subseteq {"twin", "excused"} /\ ("twin" \notin past' => "twin" \notin past)
BY DEF RestTyped, Excuse

-----------------------------------------------------------------------------
\* Before an update is at work, and when it stops.

\* A step that leaves the files alone and takes the update to a place where it
\* is not at work keeps the invariant.
LEMMA AsideKeeps ==
  ASSUME IInv, NEW u \in Updates, NEW r \in Update, up' = [up EXCEPT ![u] = r],
         r.pc \in {"start", "fetch", "backup", "ended"}, r.pc = "backup" => r.tag \in Sane,
         UNCHANGED <<content, target, prev>>, RestTyped', "twin" \notin past' => "twin" \notin past
  PROVE  IInv'
<1>1. FilesTyped'
  BY DEF IInv, Types, FilesTyped
<1>2. UpdatesTyped'
  <2>1. Len(content') >= Len(content)
    BY LenProperties DEF IInv, Types, FilesTyped
  <2>2. content \in Seq(Release) /\ content' \in Seq(Release)
    BY DEF IInv, Types, FilesTyped
  <2> QED
    BY <2>1, <2>2, MoveTyped DEF IInv, Types
<1>3. ASSUME "twin" \notin past' PROVE InTurn'
  <2>1. InTurn
    BY <1>3 DEF IInv
  <2> QED
    BY <2>1, Aside DEF IInv, Types
<1> QED
  BY <1>1, <1>2, <1>3 DEF IInv, Types

LEMMA EndKeeps ==
  ASSUME IInv, NEW u \in Updates, Goes(u, "ended"),
         UNCHANGED <<content, target, prev, published>>, past' \in {past, Excuse}
  PROVE  IInv'
<1>1. "ended" \in Phases
  BY DEF Phases
<1>2. Gone(u, "ended") \in Update /\ up' = [up EXCEPT ![u] = Gone(u, "ended")] /\ Gone(u, "ended").pc = "ended"
  BY <1>1, GoesMoves DEF IInv, Types
<1>3. RestTyped' /\ ("twin" \notin past' => "twin" \notin past)
  BY PastGrows DEF IInv, Types, RestTyped
<1> QED
  BY <1>2, <1>3, AsideKeeps

LEMMA BeginKeeps ==
  ASSUME IInv, NEW u \in Updates, Begin(u)
  PROVE  IInv'
<1>1. PICK plan \in Plans :
        LET from == content[target]
            tag  == IF plan.version = Latest THEN published ELSE plan.version
        IN  up' = [up EXCEPT ![u] = [@ EXCEPT !.pc = IF Passes(plan, from, tag) THEN "fetch" ELSE "ended",
                                              !.tag = tag, !.after = plan.after]]
  BY DEF Begin
<1> DEFINE tag == IF plan.version = Latest THEN published ELSE plan.version
           r   == [up[u] EXCEPT !.pc = IF Passes(plan, content[target], tag) THEN "fetch" ELSE "ended",
                                !.tag = tag, !.after = plan.after]
<1>2. tag \in Release /\ plan.after \in {"nothing", "restart", "watch"}
  BY UpdaterAssumption DEF IInv, Types, RestTyped, Release
<1>3. up[u] \in Update
  BY DEF IInv, Types, UpdatesTyped
<1>4. r \in Update /\ r.pc \in {"fetch", "ended"}
  <2> HIDE DEF tag
  <2> QED BY <1>2, <1>3 DEF Update, Phases
<1>5. up' = [up EXCEPT ![u] = r]
  BY <1>1, <1>3 DEF IInv, Types, UpdatesTyped
<1>6. UNCHANGED <<content, target, prev, past>> /\ RestTyped'
  BY DEF Begin, IInv, Types, RestTyped
<1> HIDE DEF r
<1> QED
  BY <1>4, <1>5, <1>6, AsideKeeps

LEMMA FetchKeeps ==
  ASSUME IInv, NEW u \in Updates, Fetch(u)
  PROVE  IInv'
<1>1. UNCHANGED <<content, target, prev, published>> /\ past' \in {past, Excuse}
  BY DEF Fetch, Fault
<1>2. CASE Goes(u, "ended")
  BY <1>1, <1>2, EndKeeps
<1>3. CASE up[u].tag \in Sane /\ Goes(u, "backup")
  <2>1. "backup" \in Phases
    BY DEF Phases
  <2>2. /\ Gone(u, "backup") \in Update /\ up' = [up EXCEPT ![u] = Gone(u, "backup")]
        /\ Gone(u, "backup").pc = "backup" /\ Gone(u, "backup").tag \in Sane
    BY <1>3, <2>1, GoesMoves DEF IInv, Types
  <2>3. RestTyped' /\ ("twin" \notin past' => "twin" \notin past)
    BY <1>1, PastGrows DEF IInv, Types, RestTyped
  <2> QED
    BY <1>1, <2>2, <2>3, AsideKeeps
<1> QED
  BY <1>2, <1>3 DEF Fetch

LEMMA KillKeeps ==
  ASSUME IInv, NEW u \in Updates, Kill(u)
  PROVE  IInv'
BY EndKeeps DEF Kill

\* The project, systemd and the user leave the files and the updates alone.
LEMMA AroundKeeps ==
  ASSUME IInv, Publish \/ Exit \/ StartAgain \/ Service
  PROVE  IInv'
<1>1. UNCHANGED <<content, target, prev, up>> /\ past' \in {past, Excuse} /\ published' \in {published, published + 1}
  BY DEF Publish, Exit, StartAgain, Service
<1>2. RestTyped' /\ ("twin" \notin past' => "twin" \notin past)
  <2>1. published' \in 1..Last
    BY UpdaterAssumption DEF IInv, Types, RestTyped, Publish, Exit, StartAgain, Service
  <2> QED
    BY <1>1, <2>1, PastGrows DEF IInv, Types, RestTyped
<1>3. FilesTyped' /\ UpdatesTyped'
  BY <1>1 DEF IInv, Types, FilesTyped, UpdatesTyped
<1>4. InTurn => InTurn'
  BY <1>1 DEF InTurn, TakeTurns, Apart, Held, Busy, Whole
<1> QED
  BY <1>2, <1>3, <1>4 DEF IInv, Types


-----------------------------------------------------------------------------
\* While an update is at work.

\* The common part: when an update that was alone at work, or is about to be,
\* moves, what is left to show is about the files and about its own record.
LEMMA AtWork ==
  ASSUME IInv, NEW u \in Updates, NEW r \in Update, up' = [up EXCEPT ![u] = r],
         FilesTyped', UpdatesTyped', RestTyped', "twin" \notin past' => "twin" \notin past,
         "twin" \notin past' => Busy(u) \/ \A v \in Updates \ {u} : ~Busy(v),
         "twin" \notin past' => Apart' /\ Held(u)'
  PROVE  IInv'
<1>1. ASSUME "twin" \notin past' PROVE InTurn'
  <2>1. TakeTurns /\ (Busy(u) \/ \A v \in Updates \ {u} : ~Busy(v))
    BY <1>1 DEF IInv, InTurn
  <2>2. TakeTurns' /\ \A v \in Updates \ {u} : Held(v)'
    BY <2>1, Alone DEF IInv, Types
  <2>3. \A v \in Updates : Held(v)'
    BY <1>1, <2>2
  <2> QED
    BY <1>1, <2>2, <2>3 DEF InTurn
<1> QED
  BY <1>1 DEF IInv, Types

LEMMA OpenBackupKeeps ==
  ASSUME IInv, NEW u \in Updates, OpenBackup(u)
  PROVE  IInv'
<1> DEFINE fd == IF prev = NoFile THEN Len(content) + 1 ELSE prev
           r  == [up[u] EXCEPT !.pc = "copying", !.fd = fd, !.src = target]
<1>1. /\ content \in Seq(Release) /\ Len(content) \in Nat
      /\ target \in 1..Len(content) /\ prev \in 0..Len(content) /\ up[u] \in Update
      /\ up[u].pc = "backup" /\ up[u].tag \in Sane
  BY LenProperties DEF IInv, Types, FilesTyped, UpdatesTyped, OpenBackup
<1>2. /\ content' \in Seq(Release) /\ Len(content') \in Nat
      /\ Len(content') >= Len(content) /\ fd \in 1..Len(content')
      /\ \A i \in 1..Len(content) : i # fd => content'[i] = content[i]
  <2>1. CASE prev = NoFile
    <3>1. content' = Append(content, Torn) /\ Torn \in Release
      BY <2>1, Releases DEF OpenBackup, Torn
    <3> QED
      BY <1>1, <2>1, <3>1, AppendProperties, LenProperties
  <2>2. CASE prev # NoFile
    <3>1. content' = [content EXCEPT ![prev] = Torn] /\ Torn \in Release /\ prev \in 1..Len(content)
      BY <1>1, <2>2, Releases DEF OpenBackup, Torn, NoFile
    <3> QED
      BY <1>1, <2>2, <3>1, ExceptSeq, LenProperties
  <2> QED
    BY <2>1, <2>2
<1>3. prev' = fd /\ target' = target /\ published' = published
  BY DEF OpenBackup
<1>4. up' = [up EXCEPT ![u] = r]
  BY DEF OpenBackup, IInv, Types, UpdatesTyped
<1>5. r \in Update /\ r.pc = "copying" /\ r.fd = fd /\ r.src = target /\ r.tag \in Sane
  <2> HIDE DEF fd
  <2>1. fd \in Nat /\ target \in Nat
    BY <1>1, <1>2
  <2> QED
    BY <1>1, <2>1 DEF Update, Phases
<1> HIDE DEF fd, r
<1>6. FilesTyped'
  BY <1>1, <1>2, <1>3 DEF FilesTyped
<1>7. UpdatesTyped'
  <2>1. 1..Len(content) \subseteq 1..Len(content')
    BY <1>1, <1>2
  <2>2. up' \in [Updates -> Update] /\ up'[u] = r /\ \A v \in Updates \ {u} : up'[v] = up[v]
    BY <1>4, <1>5, OneMoves DEF IInv, Types
  <2> QED
    BY <1>1, <1>2, <1>5, <2>1, <2>2 DEF IInv, Types, UpdatesTyped
<1>8. /\ RestTyped' /\ ("twin" \notin past' => "twin" \notin past)
      /\ "twin" \notin past' => \A v \in Updates \ {u} : ~Busy(v)
  BY <1>3 DEF OpenBackup, IInv, Types, RestTyped
<1>9. ASSUME "twin" \notin past' PROVE Apart' /\ Held(u)'
  <2>1. prev # target /\ Whole(target)
    BY <1>8, <1>9 DEF IInv, InTurn, Apart
  <2>2. fd # target
    BY <1>1, <2>1 DEF fd
  <2>3. Apart'
    BY <1>1, <1>2, <1>3, <2>1, <2>2 DEF Apart, Whole
  <2>4. up'[u] = r
    BY <1>4, <1>5, OneMoves DEF IInv, Types
  <2> QED
    BY <1>3, <1>5, <2>3, <2>4 DEF Held
<1> QED
  BY <1>4, <1>5, <1>6, <1>7, <1>8, <1>9, AtWork

LEMMA EndBackupKeeps ==
  ASSUME IInv, NEW u \in Updates, EndBackup(u)
  PROVE  IInv'
<1> DEFINE r == [up[u] EXCEPT !.pc = "swap", !.kept = TRUE]
<1>1. /\ content \in Seq(Release) /\ Len(content) \in Nat
      /\ target \in 1..Len(content) /\ prev \in 0..Len(content) /\ up[u] \in Update
      /\ up[u].pc = "copying" /\ up[u].tag \in Sane
      /\ up[u].fd \in 1..Len(content) /\ up[u].src \in 1..Len(content)
  BY LenProperties DEF IInv, Types, FilesTyped, UpdatesTyped, EndBackup
<1>2. content[up[u].src] \in Release
  BY <1>1, ElementOfSeq
<1>3. /\ content' \in Seq(Release) /\ Len(content') = Len(content)
      /\ \A i \in 1..Len(content) : content'[i] = IF i = up[u].fd THEN content[up[u].src] ELSE content[i]
  BY <1>1, <1>2, ExceptSeq DEF EndBackup
<1>4. up' = [up EXCEPT ![u] = r] /\ UNCHANGED <<target, prev, published, past>>
  BY DEF EndBackup, IInv, Types, UpdatesTyped
<1>5. r \in Update /\ r.pc = "swap" /\ r.tag \in Sane
  BY <1>1 DEF Update, Phases
<1> HIDE DEF r
<1>6. FilesTyped' /\ RestTyped'
  BY <1>1, <1>3, <1>4 DEF FilesTyped, IInv, Types, RestTyped
<1>7. UpdatesTyped'
  <2>1. Len(content') >= Len(content)
    BY <1>1, <1>3
  <2> QED
    BY <1>1, <1>3, <1>4, <1>5, <2>1, MoveTyped DEF IInv, Types
<1>8. Busy(u)
  BY <1>1 DEF Busy
<1>9. ASSUME "twin" \notin past' PROVE Apart' /\ Held(u)'
  <2>1. prev # target /\ Whole(target) /\ up[u].fd = prev /\ up[u].src = target
    BY <1>1, <1>4, <1>9 DEF IInv, InTurn, Apart, Held
  <2>2. Apart'
    BY <1>1, <1>3, <1>4, <2>1 DEF Apart, Whole
  <2>3. up'[u] = r
    BY <1>4, <1>5, OneMoves DEF IInv, Types
  <2>4. prev' # NoFile /\ content'[prev'] = content'[target']
    BY <1>1, <1>3, <1>4, <2>1 DEF NoFile
  <2> QED
    BY <1>5, <2>2, <2>3, <2>4 DEF Held
<1> QED
  BY <1>4, <1>5, <1>6, <1>7, <1>8, <1>9, AtWork

LEMMA BackupFailsKeeps ==
  ASSUME IInv, NEW u \in Updates, BackupFails(u)
  PROVE  IInv'
<1> DEFINE r == [up[u] EXCEPT !.pc = "swap", !.kept = FALSE]
<1>1. /\ content \in Seq(Release) /\ Len(content) \in Nat /\ up[u] \in Update
      /\ up[u].pc \in {"backup", "copying"} /\ up[u].tag \in Sane
  BY LenProperties DEF IInv, Types, FilesTyped, UpdatesTyped, BackupFails
<1>2. up' = [up EXCEPT ![u] = r] /\ UNCHANGED <<content, target, prev, published>>
  BY DEF BackupFails, IInv, Types, UpdatesTyped
<1>3. r \in Update /\ r.pc = "swap" /\ r.tag \in Sane /\ r.kept = FALSE
  BY <1>1 DEF Update, Phases
<1> HIDE DEF r
<1>4. FilesTyped' /\ UpdatesTyped'
  <2>1. FilesTyped' /\ Len(content') >= Len(content)
    BY <1>1, <1>2 DEF IInv, Types, FilesTyped
  <2> QED
    BY <1>1, <1>2, <1>3, <2>1, MoveTyped DEF IInv, Types
<1>5. /\ RestTyped' /\ ("twin" \notin past' => "twin" \notin past)
      /\ "twin" \notin past' => \A v \in Updates \ {u} : ~Busy(v)
  BY <1>2 DEF BackupFails, Excuse, IInv, Types, RestTyped
<1>6. ASSUME "twin" \notin past' PROVE Apart' /\ Held(u)'
  <2>1. Apart'
    BY <1>2, <1>5, <1>6 DEF IInv, InTurn, Apart, Whole
  <2>2. up'[u] = r
    BY <1>2, <1>3, OneMoves DEF IInv, Types
  <2> QED
    BY <1>3, <2>1, <2>2 DEF Held
<1> QED
  BY <1>2, <1>3, <1>4, <1>5, <1>6, AtWork


LEMMA SwapKeeps ==
  ASSUME IInv, NEW u \in Updates, Swap(u)
  PROVE  IInv'
<1> DEFINE r == [up[u] EXCEPT !.pc = "restart", !.base = content[target]]
<1>1. /\ content \in Seq(Release) /\ Len(content) \in Nat
      /\ target \in 1..Len(content) /\ prev \in 0..Len(content) /\ up[u] \in Update
      /\ up[u].pc = "swap" /\ up[u].tag \in Sane
  BY LenProperties DEF IInv, Types, FilesTyped, UpdatesTyped, Swap
<1>2. CASE Fault /\ Goes(u, "ended") /\ UNCHANGED <<content, target>>
  <2>1. UNCHANGED <<content, target, prev, published>> /\ past' \in {past, Excuse}
    BY <1>2 DEF Swap, Fault
  <2> QED
    BY <1>2, <2>1, EndKeeps
<1>3. CASE /\ content' = Append(content, up[u].tag) /\ target' = Len(content) + 1
           /\ up' = [up EXCEPT ![u].pc = "restart", ![u].base = content[target]]
           /\ UNCHANGED <<prev, published, past>>
  <2>1. up[u].tag \in Release /\ up[u].tag # Torn
    BY <1>1, Releases
  <2>2. /\ content' \in Seq(Release) /\ Len(content') = Len(content) + 1
        /\ \A i \in 1..Len(content) : content'[i] = content[i]
        /\ content'[Len(content) + 1] = up[u].tag
    BY <1>1, <1>3, <2>1, AppendProperties
  <2>3. up' = [up EXCEPT ![u] = r]
    BY <1>3 DEF IInv, Types, UpdatesTyped
  <2>4. content[target] \in Release
    BY <1>1, ElementOfSeq
  <2>5. r \in Update /\ r.pc = "restart" /\ r.base = content[target] /\ r.kept = up[u].kept
    BY <1>1, <2>4 DEF Update, Phases
  <2> HIDE DEF r
  <2>6. FilesTyped' /\ RestTyped'
    BY <1>1, <1>3, <2>2 DEF FilesTyped, IInv, Types, RestTyped
  <2>7. UpdatesTyped'
    <3>1. Len(content') >= Len(content)
      BY <1>1, <2>2
    <3> QED
      BY <1>1, <2>2, <2>3, <2>5, <3>1, MoveTyped DEF IInv, Types
  <2>8. ASSUME "twin" \notin past' PROVE Apart' /\ Held(u)'
    <3>1. Whole(target) /\ (up[u].kept => prev # NoFile /\ content[prev] = content[target])
      BY <1>1, <1>3, <2>8 DEF IInv, InTurn, Apart, Held
    <3>2. Apart'
      BY <1>1, <1>3, <2>1, <2>2 DEF Apart, Whole, NoFile
    <3>3. up'[u] = r
      BY <2>3, <2>5, OneMoves DEF IInv, Types
    <3>4. up[u].kept => prev' # NoFile /\ content'[prev'] = content[target] /\ content[target] # Torn
      BY <1>1, <1>3, <2>2, <3>1 DEF Whole, NoFile
    <3> QED
      BY <2>5, <3>2, <3>3, <3>4 DEF Held
  <2>9. Busy(u)
    BY <1>1 DEF Busy
  <2> QED
    BY <1>3, <2>3, <2>5, <2>6, <2>7, <2>8, <2>9, AtWork
<1> QED
  BY <1>2, <1>3 DEF Swap

\* A step that only takes the update on, the files as they are.
LEMMA GoOnKeeps ==
  ASSUME IInv, NEW u \in Updates, Goes(u, "health"), up[u].pc = "restart",
         UNCHANGED <<content, target, prev, published, past>>
  PROVE  IInv'
<1> DEFINE r == Gone(u, "health")
<1>1. "health" \in Phases
  BY DEF Phases
<1>2. /\ r \in Update /\ up' = [up EXCEPT ![u] = r] /\ r.pc = "health"
      /\ r.kept = up[u].kept /\ r.base = up[u].base
  BY <1>1, GoesMoves DEF IInv, Types
<1> HIDE DEF r
<1>3. FilesTyped' /\ RestTyped' /\ Len(content') >= Len(content)
  BY LenProperties DEF IInv, Types, FilesTyped, RestTyped
<1>4. UpdatesTyped'
  BY <1>2, <1>3, MoveTyped DEF IInv, Types, FilesTyped
<1>5. ASSUME "twin" \notin past' PROVE Apart' /\ Held(u)'
  <2>1. up'[u] = r
    BY <1>2, OneMoves DEF IInv, Types
  <2> QED
    BY <1>2, <1>5, <2>1 DEF IInv, InTurn, Apart, Whole, Held
<1>6. Busy(u)
  BY DEF Busy
<1> QED
  BY <1>2, <1>3, <1>4, <1>5, <1>6, AtWork

LEMMA RestartKeeps ==
  ASSUME IInv, NEW u \in Updates, Restart(u)
  PROVE  IInv'
<1>1. UNCHANGED <<content, target, prev, published>> /\ up[u].pc = "restart"
  BY DEF Restart
<1>2. CASE Goes(u, "ended") /\ past' \in {past, Excuse}
  BY <1>1, <1>2, EndKeeps
<1>3. CASE Goes(u, "health") /\ past' = past
  BY <1>1, <1>3, GoOnKeeps
<1> QED
  BY <1>2, <1>3 DEF Restart, Restarted, Fault

LEMMA RollBackKeeps ==
  ASSUME IInv, NEW u \in Updates, RollBack(u)
  PROVE  IInv'
<1>1. up[u].pc = "health" /\ UNCHANGED <<content, published>> /\ past' \in {past, Excuse}
  BY DEF RollBack, Fault
<1>2. CASE Goes(u, "ended") /\ UNCHANGED <<target, prev>>
  BY <1>1, <1>2, EndKeeps
<1>3. CASE /\ up[u].kept /\ prev # NoFile /\ target' = prev /\ prev' = NoFile /\ Goes(u, "again")
           /\ past' = past
  <2> DEFINE r == Gone(u, "again")
  <2>1. "again" \in Phases
    BY DEF Phases
  <2>2. r \in Update /\ up' = [up EXCEPT ![u] = r] /\ r.pc = "again" /\ r.base = up[u].base
    BY <1>3, <2>1, GoesMoves DEF IInv, Types
  <2> HIDE DEF r
  <2>3. FilesTyped' /\ RestTyped' /\ Len(content') >= Len(content)
    BY <1>1, <1>3, LenProperties DEF IInv, Types, FilesTyped, RestTyped, NoFile
  <2>4. UpdatesTyped'
    BY <1>1, <2>2, <2>3, MoveTyped DEF IInv, Types, FilesTyped
  <2>5. ASSUME "twin" \notin past' PROVE Apart' /\ Held(u)'
    <3>1. content[prev] = up[u].base /\ up[u].base # Torn
      BY <1>1, <1>3, <2>5 DEF IInv, InTurn, Held
    <3>2. up'[u] = r
      BY <2>2, OneMoves DEF IInv, Types
    <3> QED
      BY <1>1, <1>3, <2>2, <3>1, <3>2 DEF Apart, Whole, NoFile, Held
  <2>6. Busy(u)
    BY <1>1 DEF Busy
  <2> QED
    BY <1>1, <1>3, <2>2, <2>3, <2>4, <2>5, <2>6, AtWork
<1> QED
  BY <1>2, <1>3 DEF RollBack, Fault

LEMMA StopKeeps ==
  ASSUME IInv, NEW u \in Updates, FindHealthy(u) \/ RestartAgain(u)
  PROVE  IInv'
<1>1. UNCHANGED <<content, target, prev, published>> /\ Goes(u, "ended") /\ past' \in {past, Excuse}
  BY DEF FindHealthy, RestartAgain, Restarted, Fault
<1> QED
  BY <1>1, EndKeeps

-----------------------------------------------------------------------------
\* The theorems.

LEMMA InitHolds == Init => IInv
<1> SUFFICES ASSUME Init PROVE IInv
  OBVIOUS
<1>1. /\ content \in Seq(Release) /\ Len(content) = 1 /\ content[1] = 1
      /\ target = 1 /\ prev = 0
  BY Releases DEF Init, NoFile
<1>2. \A u \in Updates : up[u] \in Update /\ up[u].pc = "start"
  BY Releases DEF Init, Update, Phases, Torn, NoFile
<1>3. FilesTyped
  BY <1>1 DEF FilesTyped
<1>4. UpdatesTyped
  <2>1. up \in [Updates -> Update]
    BY <1>2 DEF Init
  <2> QED
    BY <1>2, <2>1 DEF UpdatesTyped
<1>5. RestTyped
  BY UpdaterAssumption DEF Init, RestTyped
<1>6. InTurn
  BY <1>1, <1>2 DEF InTurn, TakeTurns, Apart, Held, Busy, Whole, NoFile, Torn
<1> QED
  BY <1>3, <1>4, <1>5, <1>6 DEF IInv, Types

LEMMA NextKeeps == IInv /\ [Next]_vars => IInv'
<1> SUFFICES ASSUME IInv, [Next]_vars PROVE IInv'
  OBVIOUS
<1>1. ASSUME NEW u \in Updates, Step(u) PROVE IInv'
  BY <1>1, BeginKeeps, FetchKeeps, OpenBackupKeeps, EndBackupKeeps, BackupFailsKeeps, SwapKeeps,
     RestartKeeps, RollBackKeeps, StopKeeps DEF Step
<1>2. ASSUME NEW u \in Updates, Kill(u) PROVE IInv'
  BY <1>2, KillKeeps
<1>3. CASE Publish \/ Exit \/ StartAgain \/ Service
  BY <1>3, AroundKeeps
<1>4. CASE UNCHANGED vars
  BY <1>4 DEF vars, IInv, Types, FilesTyped, UpdatesTyped, RestTyped, InTurn, TakeTurns, Apart, Held, Busy, Whole
<1> QED
  BY <1>1, <1>2, <1>3, <1>4 DEF Next

\* The invariant the two theorems below rest on: no step of an update, however
\* two of them interleave, makes a file or an update's record other than it says
\* (update.rs:62-137, 300-401).
THEOREM Invariance == Spec => []IInv
BY InitHolds, NextKeeps, PTL DEF Spec

\* Wherever an update, or every one of them, is killed, the path of the binary
\* holds a whole one: it is only ever renamed over, by a new copy or by a
\* backup that is complete (update.rs:312-372).
THEOREM BinaryStays == Spec => []TargetRuns
<1>1. IInv => TargetRuns
  BY DEF IInv, InTurn, Apart, TargetRuns
<1> QED
  BY <1>1, Invariance, PTL

\* What a rollback renames over the binary is a copy its own update has made of
\* what it replaced (update.rs:119-128, 314-317).
THEOREM RollbackRestores == Spec => []BringsBack
<1>1. IInv => BringsBack
  BY DEF IInv, InTurn, Held, BringsBack
<1> QED
  BY <1>1, Invariance, PTL
=============================================================================
