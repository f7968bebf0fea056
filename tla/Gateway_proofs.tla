--------------------------- MODULE Gateway_proofs ---------------------------
(* Proofs about Gateway for any clients, configurations, edits, calls and    *)
(* faults: that a launch is honoured, that cursors and pins name accounts    *)
(* that are configured, and that the certificates a client trusts are the    *)
(* ones the server answers with.                                             *)
EXTENDS Gateway, FiniteSetTheorems, SequenceTheorems, WellFoundedInduction, TLAPS

-----------------------------------------------------------------------------
\* Lemmas on the operators.

\* A finite set as a sequence names each of its members once.
LEMMA SetAsSeq ==
  ASSUME NEW S, IsFiniteSet(S)
  PROVE  /\ SetToSeq(S) \in Seq(S) /\ IsInjective(SetToSeq(S))
         /\ \A x \in S : \E i \in DOMAIN SetToSeq(S) : SetToSeq(S)[i] = x
<1> DEFINE n == Cardinality(S)
           f == SetToSeq(S)
<1>1. n \in Nat /\ ExistsBijection(1..n, S)
  BY FS_CardinalityType
<1>2. PICK g \in [1..n -> S] : IsInjective(g)
  BY <1>1 DEF ExistsBijection, Bijection, Injection, IsInjective
<1>3. f \in [1..n -> S] /\ IsInjective(f)
  BY <1>2 DEF SetToSeq
<1> HIDE DEF f
<1>4. f \in Injection(1..n, S)
  BY <1>3 DEF Injection, IsInjective
<1>5. Cardinality(1..n) = n
  BY <1>1, FS_Interval
<1>6. f \in Surjection(1..n, S)
  BY <1>4, <1>5, FS_Injection
<1>7. f \in Seq(S)
  BY <1>1, <1>3, SeqDef
<1> QED BY <1>3, <1>6, <1>7 DEF Surjection, f

\* The least of some numbers is one of them.
LEMMA LeastIsOne ==
  ASSUME NEW S, S \subseteq Nat, S # {}
  PROVE  Min(S) \in S
<1>1. PICK x \in S : \A y \in S : ~(<<y, x>> \in OpToRel(<, Nat))
  BY NatLessThanWellFounded, WFMin
<1>2. \A y \in S : ~(y < x)
  BY <1>1 DEF OpToRel
<1>3. \A y \in S : x <= y
  BY <1>2
<1> QED BY <1>3 DEF Min

\* A rule leads to a pool of the configuration.
LEMMA RuledIsPool ==
  ASSUME NEW doc, NEW dir
  PROVE  RuledPool(doc, dir) \in DOMAIN doc.pools \cup {NoPool}
<1> DEFINE ruled == {i \in DOMAIN ByName : /\ ByName[i] \in DOMAIN doc.pools \ {doc.default}
                                          /\ dir \in doc.rules[ByName[i]]}
<1>1. DOMAIN ByName \subseteq Nat
  BY ByNameAssumption, LenProperties
<1>2. CASE ruled = {}
  BY <1>2 DEF RuledPool
<1>3. CASE ruled # {}
  <2>1. Min(ruled) \in ruled
    <3> ruled \subseteq Nat
      BY <1>1
    <3> HIDE DEF ruled
    <3> QED BY <1>3, LeastIsOne
  <2> QED BY <1>3, <2>1 DEF RuledPool
<1> QED BY <1>2, <1>3

-----------------------------------------------------------------------------
\* The pools.

AllEdits == UNION {Edits(s) : s \in Scenarios}
AllDocs  == UNION {Docs(s) : s \in Scenarios}
AllCalls == UNION {Range(s.calls) : s \in Scenarios}
AllWants == UNION {Range(s.wants) : s \in Scenarios}

LEMMA DocsGiven ==
  /\ \A d \in AllDocs : /\ IsFiniteSet(DOMAIN d.pools) /\ NoPool \notin DOMAIN d.pools
                        /\ d.default \in DOMAIN d.pools
  /\ \A e \in AllEdits : /\ e.doc \in AllDocs
                         /\ e.from # NoPool => e.from \notin DOMAIN e.doc.pools /\ e.to \in DOMAIN e.doc.pools
<1>1. \A d \in AllDocs : /\ IsFiniteSet(DOMAIN d.pools) /\ NoPool \notin DOMAIN d.pools
                         /\ d.default \in DOMAIN d.pools
  BY ScenariosAssumption DEF AllDocs
<1>2. \A e \in AllEdits : /\ e.doc \in AllDocs
                          /\ e.from # NoPool => e.from \notin DOMAIN e.doc.pools /\ e.to \in DOMAIN e.doc.pools
  BY ScenariosAssumption DEF AllDocs, AllEdits, Docs
<1> QED BY <1>1, <1>2

\* A manager, whose cursor and pin are its own accounts or none.
IsManager(m)  == m \in [accts : {m.accts}, current : {m.current}, pin : {m.pin}]
Configured(m) == {m.current, m.pin} \subseteq m.accts \cup {NoAccount}

\* The registry leads every name to a manager of its own.
IsRegistry(reg, n) ==
  /\ reg \in [default : {reg.default}, map : {reg.map}]
  /\ reg.map \in [DOMAIN reg.map -> 1..n]
  /\ \A p, q \in DOMAIN reg.map : reg.map[p] = reg.map[q] => p = q

IsManagers(ms) == ms \in Seq(Range(ms)) /\ \A i \in DOMAIN ms : IsManager(ms[i])

\* What a reload makes of a list of managers.
LEMMA ManagersSynced ==
  ASSUME NEW reg, NEW doc \in AllDocs, NEW ms, IsManagers(ms), IsRegistry(reg, Len(ms))
  PROVE  LET new == SyncedManagers(reg, doc, ms)
         IN  /\ IsManagers(new) /\ Len(new) = Len(ms) + Len(Fresh(reg, doc))
             /\ \A i \in DOMAIN new : \/ Configured(new[i])
                                      \/ i \in DOMAIN ms /\ new[i] = ms[i]
<1> DEFINE fresh == Fresh(reg, doc)
           olds  == [i \in DOMAIN ms |->
                       IF \E p \in DOMAIN reg.map \cap DOMAIN doc.pools : reg.map[p] = i
                       THEN SyncManager(ms[i], doc.pools[CHOOSE p \in DOMAIN reg.map : reg.map[p] = i])
                       ELSE ms[i]]
           news  == [i \in DOMAIN fresh |-> NewManager(doc.pools[fresh[i]])]
           new   == olds \o news
<1>1. Len(ms) \in Nat /\ DOMAIN ms = 1..Len(ms)
  BY LenProperties DEF IsManagers
<1>2. Len(fresh) \in Nat /\ DOMAIN fresh = 1..Len(fresh)
  <2>1. IsFiniteSet(DOMAIN doc.pools \ DOMAIN reg.map)
    BY DocsGiven, FS_Difference
  <2>2. fresh \in Seq(DOMAIN doc.pools \ DOMAIN reg.map)
    BY <2>1, SetAsSeq DEF Fresh
  <2> QED BY <2>2, LenProperties
<1>3. \A m, accts : LET s == SyncManager(m, accts) IN IsManager(s) /\ Configured(s)
  BY DEF SyncManager, IsManager, Configured
<1>4. \A accts : LET s == NewManager(accts) IN IsManager(s) /\ Configured(s)
  BY DEF NewManager, IsManager, Configured
<1>5. \A i \in DOMAIN ms : IsManager(olds[i]) /\ (Configured(olds[i]) \/ olds[i] = ms[i])
  BY <1>3 DEF IsManagers
<1>6. \A i \in DOMAIN fresh : IsManager(news[i]) /\ Configured(news[i])
  BY <1>4
<1>7. /\ DOMAIN olds = 1..Len(ms) /\ olds = [i \in 1..Len(ms) |-> olds[i]]
      /\ DOMAIN news = 1..Len(fresh) /\ news = [i \in 1..Len(fresh) |-> news[i]]
  BY <1>1, <1>2
<1>8. new = SyncedManagers(reg, doc, ms)
  BY DEF SyncedManagers
<1> HIDE DEF olds, news, fresh
<1> DEFINE All == Range(olds) \cup Range(news)
<1>9. olds \in Seq(All) /\ news \in Seq(All)
  <2>1. olds \in [1..Len(ms) -> All]
    BY <1>7 DEF Range
  <2>2. news \in [1..Len(fresh) -> All]
    BY <1>7 DEF Range
  <2> QED BY <1>1, <1>2, <2>1, <2>2, SeqDef
<1>10. Len(olds) = Len(ms) /\ Len(news) = Len(fresh)
  BY <1>1, <1>2, <1>7, <1>9, LenProperties
<1> HIDE DEF All
<1>11. /\ new \in Seq(All) /\ Len(new) = Len(ms) + Len(fresh)
       /\ \A i \in 1..Len(new) : new[i] = (IF i <= Len(ms) THEN olds[i] ELSE news[i - Len(ms)])
  <2>1. /\ new \in Seq(All) /\ Len(new) = Len(olds) + Len(news)
        /\ \A i \in 1..Len(olds) + Len(news) : new[i] = IF i <= Len(olds) THEN olds[i] ELSE news[i - Len(olds)]
    BY <1>9, ConcatProperties
  <2> QED BY <1>10, <2>1
<1> HIDE DEF new
<1>12. DOMAIN new = 1..(Len(ms) + Len(fresh))
  BY <1>11, LenProperties
<1>13. \A i \in DOMAIN new : \/ i \in DOMAIN ms /\ new[i] = olds[i]
                             \/ i - Len(ms) \in DOMAIN fresh /\ new[i] = news[i - Len(ms)]
  BY <1>1, <1>2, <1>11, <1>12
<1>14. \A i \in DOMAIN new : IsManager(new[i]) /\ (Configured(new[i]) \/ (i \in DOMAIN ms /\ new[i] = ms[i]))
  BY <1>5, <1>6, <1>13
<1>15. new \in Seq(Range(new))
  <2>1. new \in [1..(Len(ms) + Len(fresh)) -> Range(new)]
    BY <1>11, <1>12 DEF Range
  <2> QED BY <1>1, <1>2, <2>1, SeqDef
<1> QED BY <1>8, <1>11, <1>14, <1>15 DEF IsManagers, fresh

\* What a reload makes of the registry: a pool that stays keeps its manager, and
\* a new one gets one of its own.
LEMMA RegistrySynced ==
  ASSUME NEW reg, NEW doc \in AllDocs, NEW n \in Nat, IsRegistry(reg, n)
  PROVE  LET new == Synced(reg, doc, n)
         IN  /\ IsRegistry(new, n + Len(Fresh(reg, doc))) /\ n + Len(Fresh(reg, doc)) \in Nat
             /\ DOMAIN new.map = DOMAIN doc.pools /\ new.default = doc.default
             /\ \A p \in DOMAIN reg.map \cap DOMAIN doc.pools : new.map[p] = reg.map[p]
<1> DEFINE fresh == Fresh(reg, doc)
           place(p) == CHOOSE i \in DOMAIN fresh : fresh[i] = p
           map == [p \in DOMAIN doc.pools |-> IF p \in DOMAIN reg.map THEN reg.map[p] ELSE n + place(p)]
           new == [default |-> doc.default, map |-> map]
<1>1. /\ fresh \in Seq(DOMAIN doc.pools \ DOMAIN reg.map)
      /\ \A p \in DOMAIN doc.pools \ DOMAIN reg.map : \E i \in DOMAIN fresh : fresh[i] = p
  <2>1. IsFiniteSet(DOMAIN doc.pools \ DOMAIN reg.map)
    BY DocsGiven, FS_Difference
  <2> QED BY <2>1, SetAsSeq DEF Fresh
<1>2. Len(fresh) \in Nat /\ DOMAIN fresh = 1..Len(fresh)
  BY <1>1, LenProperties
<1>3. new = Synced(reg, doc, n)
  BY DEF Synced
<1> HIDE DEF fresh
<1>4. \A p \in DOMAIN doc.pools \ DOMAIN reg.map : place(p) \in 1..Len(fresh) /\ fresh[place(p)] = p
  BY <1>1, <1>2
<1> HIDE DEF place
<1>5. \A p \in DOMAIN reg.map : reg.map[p] \in 1..n
  BY DEF IsRegistry
<1>6. \A p \in DOMAIN doc.pools :
         /\ p \in DOMAIN reg.map => map[p] = reg.map[p] /\ map[p] \in 1..n
         /\ p \notin DOMAIN reg.map => map[p] = n + place(p) /\ map[p] \in (n + 1)..(n + Len(fresh))
  BY <1>2, <1>4, <1>5
<1>7. DOMAIN map = DOMAIN doc.pools /\ map = [p \in DOMAIN map |-> map[p]]
  OBVIOUS
<1> HIDE DEF map
<1>8. map \in [DOMAIN map -> 1..(n + Len(fresh))]
  BY <1>2, <1>6, <1>7
<1>9. ASSUME NEW p \in DOMAIN map, NEW q \in DOMAIN map, map[p] = map[q] PROVE p = q
  <2>1. CASE p \in DOMAIN reg.map
    <3>1. q \in DOMAIN reg.map
      BY <1>2, <1>6, <1>7, <1>9, <2>1
    <3>2. reg.map[p] = reg.map[q]
      BY <1>6, <1>7, <1>9, <2>1, <3>1
    <3> QED BY <2>1, <3>1, <3>2 DEF IsRegistry
  <2>2. CASE p \notin DOMAIN reg.map
    <3>1. q \notin DOMAIN reg.map
      BY <1>2, <1>6, <1>7, <1>9, <2>2
    <3>2. place(p) \in 1..Len(fresh) /\ place(q) \in 1..Len(fresh) /\ n + place(p) = n + place(q)
      BY <1>4, <1>6, <1>7, <1>9, <2>2, <3>1
    <3>3. place(p) = place(q)
      BY <1>2, <3>2
    <3> QED BY <1>4, <1>7, <2>2, <3>1, <3>3
  <2> QED BY <2>1, <2>2
<1>10. IsRegistry(new, n + Len(fresh))
  BY <1>8, <1>9 DEF IsRegistry
<1>11. \A p \in DOMAIN reg.map \cap DOMAIN doc.pools : map[p] = reg.map[p]
  BY <1>6
<1> QED BY <1>2, <1>3, <1>7, <1>10, <1>11 DEF fresh

\* What a rename makes of it.
LEMMA RegistryRenamed ==
  ASSUME NEW reg, NEW n \in Nat, IsRegistry(reg, n), reg.default \in DOMAIN reg.map, NEW from, NEW to
  PROVE  LET new == Renamed(reg, from, to)
         IN  /\ IsRegistry(new, n) /\ new.default \in DOMAIN new.map
             /\ DOMAIN new.map \subseteq DOMAIN reg.map \cup {to}
             /\ from \notin DOMAIN reg.map => new = reg
<1>1. CASE to \in DOMAIN reg.map \/ from \notin DOMAIN reg.map
  BY <1>1 DEF Renamed
<1>2. CASE to \notin DOMAIN reg.map /\ from \in DOMAIN reg.map
  <2> DEFINE map == [p \in (DOMAIN reg.map \ {from}) \cup {to} |-> reg.map[IF p = to THEN from ELSE p]]
             new == [default |-> IF reg.default = from THEN to ELSE reg.default, map |-> map]
  <2>1. Renamed(reg, from, to) = new
    BY <1>2 DEF Renamed
  <2>2. reg.map \in [DOMAIN reg.map -> 1..n] /\ \A p, q \in DOMAIN reg.map : reg.map[p] = reg.map[q] => p = q
    BY DEF IsRegistry
  <2>3. DOMAIN map = (DOMAIN reg.map \ {from}) \cup {to} /\ map \in [DOMAIN map -> 1..n]
    BY <1>2, <2>2
  <2>4. ASSUME NEW p \in DOMAIN map, NEW q \in DOMAIN map, map[p] = map[q] PROVE p = q
    BY <1>2, <2>2, <2>4
  <2>5. new.default \in DOMAIN map
    BY <2>3
  <2> HIDE DEF map
  <2>6. IsRegistry(new, n)
    BY <2>3, <2>4 DEF IsRegistry
  <2> QED BY <1>2, <2>1, <2>3, <2>5, <2>6
<1> QED BY <1>1, <1>2

-----------------------------------------------------------------------------
\* How the parts of the state fit together.

OpStates == {"idle", "rekey", "sync", "publish", "drop"}
Places   == {"start", "ensure", "ready", "mint", "shake", "open", "body", "refused", "tunnelled", "failed"}
InTunnel == {"mint", "shake", "open", "body"}

\* The live pools are those of the file.
Agree == DOMAIN registry.map = DOMAIN file.pools /\ registry.default = file.default

PoolsTyped ==
  /\ file \in AllDocs
  /\ IsManagers(mgr) /\ IsRegistry(registry, Len(mgr))
  /\ registry.default \in DOMAIN registry.map /\ NoPool \notin DOMAIN registry.map

\* The edit under way is the one the file shows, and between two reloads the
\* live pools are those of the file.
OpTyped ==
  /\ op \in [at : OpStates, todo : Seq(AllEdits)]
  /\ op.at # "idle" => op.todo # <<>> /\ file = Head(op.todo).doc
  /\ op.at = "rekey" => Head(op.todo).from # NoPool
  /\ op.at \in {"idle", "publish", "drop"} => Agree

HandTyped ==
  /\ hand \in [at : {hand.at}, todo : {hand.todo}, mgr : {hand.mgr}]
  /\ hand.at # "idle" => hand.mgr \in DOMAIN mgr

IsClient(r) == r \in [pc : Places, want : {r.want}, env : {r.env}, due : {r.due}, moved : BOOLEAN, ca : {r.ca},
                      chain : {r.chain}, tunnel : {r.tunnel}, mgr : {r.mgr}, asks : {r.asks}]

ClientsTyped ==
  /\ cl = [c \in Clients |-> cl[c]] /\ \A c \in Clients : IsClient(cl[c])
  /\ \A c \in Clients : cl[c].pc = "body" => cl[c].mgr \in DOMAIN mgr

PastTyped == past \in [tags : {past.tags}, broken : {past.broken}, astray : {past.astray}]

Wired == PoolsTyped /\ OpTyped /\ HandTyped /\ ClientsTyped /\ PastTyped

\* A client that was launched, and no pool came, went or was renamed since, is
\* on its way to the pool it was launched for.
Homed(c) ==
  ~cl[c].moved /\ cl[c].pc # "start" =>
     /\ Agree /\ cl[c].due \in DOMAIN file.pools
     /\ cl[c].env = EnvPool(file, cl[c].due)
     /\ Want(c).mitm /\ Want(c).host # TestHost /\ cl[c].pc \in InTunnel => cl[c].tunnel = cl[c].due
     /\ cl[c].pc = "body" => cl[c].mgr = registry.map[cl[c].due]

AllHomed == \A c \in Clients : Homed(c)

\* The cursor and the pin of every manager, live or not, are its accounts, as
\* long as no pin was set in a race.
AllConfigured == "raced" \notin past.tags => \A i \in DOMAIN mgr : Configured(mgr[i])

Good == Wired /\ AllHomed /\ past.astray = {} /\ AllConfigured

\* The managers a start makes.
LEMMA BootedDoes ==
  ASSUME NEW ms, IsManagers(ms), NEW new \in Booted(ms), \A i \in DOMAIN ms : Configured(ms[i])
  PROVE  IsManagers(new) /\ Len(new) = Len(ms) /\ \A i \in DOMAIN new : Configured(new[i])
<1>1. Len(ms) \in Nat /\ DOMAIN ms = 1..Len(ms)
  BY LenProperties DEF IsManagers
<1>2. PICK f : /\ new = [i \in DOMAIN ms |-> [ms[i] EXCEPT !.current = f[i]]]
               /\ \A i \in DOMAIN ms : IF ms[i].accts = {} THEN f[i] = NoAccount ELSE f[i] \in ms[i].accts
  BY DEF Booted
<1>3. DOMAIN new = 1..Len(ms) /\ new \in [1..Len(ms) -> Range(new)]
  BY <1>1, <1>2 DEF Range
<1>4. new \in Seq(Range(new)) /\ Len(new) = Len(ms)
  BY <1>1, <1>3, SeqDef, LenProperties
<1>5. \A i \in DOMAIN new : IsManager(new[i]) /\ Configured(new[i])
  <2>1. SUFFICES ASSUME NEW i \in DOMAIN ms PROVE IsManager(new[i]) /\ Configured(new[i])
    BY <1>1, <1>3
  <2>2. IsManager(ms[i]) /\ Configured(ms[i])
    BY DEF IsManagers
  <2>3. new[i] = [ms[i] EXCEPT !.current = f[i]] /\ f[i] \in ms[i].accts \cup {NoAccount}
    BY <1>2
  <2>4. new[i].accts = ms[i].accts /\ new[i].pin = ms[i].pin /\ new[i].current = f[i]
    BY <2>2, <2>3 DEF IsManager
  <2>5. IsManager(new[i])
    BY <2>2, <2>3 DEF IsManager
  <2> QED BY <2>2, <2>3, <2>4, <2>5 DEF Configured
<1> QED BY <1>4, <1>5 DEF IsManagers

\* The pools of a start, which the server and a restart build from the file.
LEMMA StartDoes ==
  ASSUME NEW doc \in AllDocs, NEW reg, reg = Synced(NoManagers, doc, 0),
         NEW ms \in Booted(SyncedManagers(NoManagers, doc, <<>>))
  PROVE  /\ IsManagers(ms) /\ IsRegistry(reg, Len(ms)) /\ \A i \in DOMAIN ms : Configured(ms[i])
         /\ DOMAIN reg.map = DOMAIN doc.pools /\ reg.default = doc.default
         /\ reg.default \in DOMAIN reg.map /\ NoPool \notin DOMAIN reg.map
<1> DEFINE new == SyncedManagers(NoManagers, doc, <<>>)
<1>1. IsManagers(<<>>) /\ Len(<<>>) = 0 /\ DOMAIN <<>> = {}
  BY EmptySeq DEF IsManagers
<1>2. IsRegistry(NoManagers, 0)
  BY DEF IsRegistry, NoManagers
<1>3. /\ IsManagers(new) /\ Len(new) = Len(<<>>) + Len(Fresh(NoManagers, doc))
      /\ \A i \in DOMAIN new : Configured(new[i])
  BY <1>1, <1>2, ManagersSynced
<1>4. /\ IsRegistry(reg, 0 + Len(Fresh(NoManagers, doc))) /\ 0 + Len(Fresh(NoManagers, doc)) \in Nat
      /\ DOMAIN reg.map = DOMAIN doc.pools /\ reg.default = doc.default
  BY <1>2, RegistrySynced
<1> HIDE DEF new
<1>5. IsManagers(ms) /\ Len(ms) = Len(new) /\ \A i \in DOMAIN ms : Configured(ms[i])
  BY <1>3, BootedDoes DEF new
<1>6. IsRegistry(reg, Len(ms))
  BY <1>1, <1>3, <1>4, <1>5
<1> QED BY <1>4, <1>5, <1>6, DocsGiven

LEMMA InitGood ==
  ASSUME Init
  PROVE  Good
<1>1. PICK s \in Scenarios :
        /\ file = s.doc /\ live = s.doc
        /\ registry = Synced(NoManagers, s.doc, 0)
        /\ mgr \in Booted(SyncedManagers(NoManagers, s.doc, <<>>))
        /\ op = [at |-> "idle", todo |-> s.edits]
        /\ hand = [at |-> "idle", todo |-> s.calls, mgr |-> 0]
        /\ cl = [c \in Clients |-> Client(s.wants[c])]
        /\ past = [tags |-> {}, broken |-> {}, astray |-> {}]
  BY DEF Init
<1>2. s.doc \in AllDocs
  BY DEF AllDocs, Docs
<1>3. /\ IsManagers(mgr) /\ IsRegistry(registry, Len(mgr)) /\ \A i \in DOMAIN mgr : Configured(mgr[i])
      /\ DOMAIN registry.map = DOMAIN s.doc.pools /\ registry.default = s.doc.default
      /\ registry.default \in DOMAIN registry.map /\ NoPool \notin DOMAIN registry.map
  BY <1>1, <1>2, StartDoes
<1>4. s.edits \in Seq(AllEdits)
  <2>1. s.edits \in Seq(Edits(s)) /\ Edits(s) \subseteq AllEdits
    BY ScenariosAssumption DEF AllEdits
  <2>2. Len(s.edits) \in Nat /\ s.edits \in [1..Len(s.edits) -> Edits(s)]
    BY <2>1, LenProperties
  <2>3. s.edits \in [1..Len(s.edits) -> AllEdits]
    BY <2>1, <2>2
  <2> QED BY <2>2, <2>3, SeqDef
<1>5. PoolsTyped
  BY <1>1, <1>2, <1>3 DEF PoolsTyped
<1>6. OpTyped
  BY <1>1, <1>3, <1>4 DEF OpTyped, OpStates, Agree
<1>7. HandTyped /\ PastTyped
  BY <1>1 DEF HandTyped, PastTyped
<1>8. \A c \in Clients : IsClient(cl[c]) /\ cl[c].pc = "start"
  BY <1>1 DEF IsClient, Client, Places
<1>9. ClientsTyped
  BY <1>1, <1>8 DEF ClientsTyped
<1>10. AllHomed
  BY <1>8 DEF AllHomed, Homed
<1>11. past.astray = {} /\ AllConfigured
  BY <1>1, <1>3 DEF AllConfigured
<1> QED BY <1>5, <1>6, <1>7, <1>9, <1>10, <1>11 DEF Good, Wired

\* The operator.
LEMMA EditKeeps ==
  ASSUME Good, Edit
  PROVE  Good'
<1> DEFINE e == Head(op.todo)
<1>1. /\ op.at = "idle" /\ op.todo # <<>> /\ file' = e.doc
      /\ op' = [op EXCEPT !.at = IF e.from = NoPool THEN "sync" ELSE "rekey"]
      /\ cl' = [c \in Clients |-> [cl[c] EXCEPT !.moved = cl[c].moved \/ Moves(file, file')]]
      /\ UNCHANGED <<registry, mgr, hand, past>>
  BY DEF Edit, pools
<1>2. e \in AllEdits
  BY <1>1, HeadTailProperties DEF Good, Wired, OpTyped
<1>3. PoolsTyped' /\ HandTyped' /\ PastTyped'
  BY <1>1, <1>2, DocsGiven DEF Good, Wired, PoolsTyped, HandTyped, PastTyped
<1>4. op'.todo = op.todo /\ op'.at = (IF e.from = NoPool THEN "sync" ELSE "rekey") /\ OpTyped'
  BY <1>1 DEF Good, Wired, OpTyped, OpStates
<1>5. \A c \in Clients : IsClient(cl[c])
  BY DEF Good, Wired, ClientsTyped
<1>6. \A c \in Clients : /\ IsClient(cl'[c]) /\ (cl'[c].moved <=> cl[c].moved \/ Moves(file, file'))
                         /\ cl'[c].pc = cl[c].pc /\ cl'[c].want = cl[c].want /\ cl'[c].env = cl[c].env
                         /\ cl'[c].due = cl[c].due /\ cl'[c].tunnel = cl[c].tunnel /\ cl'[c].mgr = cl[c].mgr
  <2>1. SUFFICES ASSUME NEW c \in Clients
                 PROVE  /\ IsClient(cl'[c]) /\ (cl'[c].moved <=> cl[c].moved \/ Moves(file, file'))
                        /\ cl'[c].pc = cl[c].pc /\ cl'[c].want = cl[c].want /\ cl'[c].env = cl[c].env
                        /\ cl'[c].due = cl[c].due /\ cl'[c].tunnel = cl[c].tunnel /\ cl'[c].mgr = cl[c].mgr
    OBVIOUS
  <2> DEFINE b == cl[c].moved \/ Moves(file, file')
  <2>2. cl'[c] = [cl[c] EXCEPT !.moved = b] /\ b \in BOOLEAN
    BY <1>1 DEF Moves
  <2>3. b <=> cl[c].moved \/ Moves(file, file')
    OBVIOUS
  <2> HIDE DEF b
  <2>4. IsClient(cl[c])
    BY <1>5
  <2> QED BY <2>2, <2>3, <2>4 DEF IsClient
<1>7. ClientsTyped'
  BY <1>1, <1>6 DEF Good, Wired, ClientsTyped
<1>8. AllHomed'
  <2>1. SUFFICES ASSUME NEW c \in Clients, ~cl'[c].moved, cl[c].pc # "start" PROVE Homed(c)'
    BY <1>6 DEF AllHomed, Homed
  <2>2. ~Moves(file, file') /\ ~cl[c].moved
    BY <1>6, <2>1
  <2>3. DOMAIN file'.pools = DOMAIN file.pools /\ file'.default = file.default
    BY <2>2 DEF Moves
  <2>4. Homed(c)
    BY DEF Good, AllHomed
  <2> QED BY <1>1, <1>6, <2>1, <2>2, <2>3, <2>4 DEF Homed, Agree, EnvPool, Want
<1>9. past'.astray = {} /\ AllConfigured'
  BY <1>1 DEF Good, AllConfigured
<1> QED BY <1>3, <1>4, <1>7, <1>8, <1>9 DEF Good, Wired

LEMMA RekeyKeeps ==
  ASSUME Good, Rekey
  PROVE  Good'
<1> DEFINE e == Head(op.todo)
<1>1. /\ op.at = "rekey" /\ registry' = Renamed(registry, e.from, e.to) /\ op' = [op EXCEPT !.at = "sync"]
      /\ UNCHANGED <<file, mgr, hand, cl, past>>
  BY DEF Rekey
<1>2. e \in AllEdits /\ file = e.doc /\ e.from # NoPool
  BY <1>1, HeadTailProperties DEF Good, Wired, OpTyped
<1>3. e.from \notin DOMAIN file.pools /\ e.to # NoPool
  BY <1>2, DocsGiven
<1>4. Len(mgr) \in Nat
  BY LenProperties DEF Good, Wired, PoolsTyped, IsManagers
<1>5. /\ IsRegistry(registry', Len(mgr)) /\ registry'.default \in DOMAIN registry'.map
      /\ DOMAIN registry'.map \subseteq DOMAIN registry.map \cup {e.to}
      /\ e.from \notin DOMAIN registry.map => registry' = registry
  BY <1>1, <1>4, RegistryRenamed DEF Good, Wired, PoolsTyped
<1>6. PoolsTyped' /\ HandTyped' /\ PastTyped' /\ ClientsTyped'
  BY <1>1, <1>3, <1>5 DEF Good, Wired, PoolsTyped, HandTyped, PastTyped, ClientsTyped
<1>7. OpTyped'
  BY <1>1 DEF Good, Wired, OpTyped, OpStates
<1>8. AllHomed'
  <2>1. SUFFICES ASSUME NEW c \in Clients, ~cl[c].moved, cl[c].pc # "start" PROVE Homed(c)'
    BY <1>1 DEF AllHomed, Homed
  <2>2. Homed(c) /\ Agree
    BY <2>1 DEF Good, AllHomed, Homed
  <2>3. registry' = registry
    BY <1>3, <1>5, <2>2 DEF Agree
  <2> QED BY <1>1, <2>2, <2>3 DEF Homed, Agree, Want
<1>9. past'.astray = {} /\ AllConfigured'
  BY <1>1 DEF Good, AllConfigured
<1> QED BY <1>6, <1>7, <1>8, <1>9 DEF Good, Wired

\* A reload, or a start, of whatever the file says: new managers come last, and
\* the pools that stay keep theirs.
LEMMA SyncKeeps ==
  ASSUME Good, SyncPools
  PROVE  Good'
<1> DEFINE more == Len(Fresh(registry, file))
<1>1. /\ op.at = "sync" /\ registry' = Synced(registry, file, Len(mgr)) /\ mgr' = SyncedManagers(registry, file, mgr)
      /\ op' = [op EXCEPT !.at = "publish"]
      /\ UNCHANGED <<file, hand, cl, past>>
  BY DEF SyncPools
<1>2. Len(mgr) \in Nat /\ DOMAIN mgr = 1..Len(mgr) /\ file \in AllDocs /\ IsManagers(mgr)
      /\ IsRegistry(registry, Len(mgr))
  BY LenProperties DEF Good, Wired, PoolsTyped, IsManagers
<1>3. /\ IsManagers(mgr') /\ Len(mgr') = Len(mgr) + more
      /\ \A i \in DOMAIN mgr' : Configured(mgr'[i]) \/ (i \in DOMAIN mgr /\ mgr'[i] = mgr[i])
  BY <1>1, <1>2, ManagersSynced
<1>4. /\ IsRegistry(registry', Len(mgr) + more) /\ Len(mgr) + more \in Nat
      /\ DOMAIN registry'.map = DOMAIN file.pools /\ registry'.default = file.default
      /\ \A p \in DOMAIN registry.map \cap DOMAIN file.pools : registry'.map[p] = registry.map[p]
  <2> DEFINE n == Len(mgr)
             new == Synced(registry, file, n)
  <2>1. /\ IsRegistry(new, n + more) /\ n + more \in Nat
        /\ DOMAIN new.map = DOMAIN file.pools /\ new.default = file.default
        /\ \A p \in DOMAIN registry.map \cap DOMAIN file.pools : new.map[p] = registry.map[p]
    <3> HIDE DEF n
    <3> QED BY <1>2, RegistrySynced DEF n
  <2> HIDE DEF new
  <2> QED BY <1>1, <2>1 DEF new
<1> HIDE DEF more
<1>5. DOMAIN mgr \subseteq DOMAIN mgr'
  <2>1. DOMAIN mgr' = 1..Len(mgr')
    BY <1>3, LenProperties DEF IsManagers
  <2>2. Len(mgr') \in Nat /\ Len(mgr') >= Len(mgr)
    <3>1. Len(Fresh(registry, file)) \in Nat
      <4>1. IsFiniteSet(DOMAIN file.pools \ DOMAIN registry.map)
        BY <1>2, DocsGiven, FS_Difference
      <4> QED BY <4>1, SetAsSeq, LenProperties DEF Fresh
    <3> QED BY <1>2, <1>3, <3>1 DEF more
  <2> QED BY <1>2, <2>1, <2>2
<1>6. PoolsTyped'
  BY <1>1, <1>2, <1>3, <1>4, DocsGiven DEF PoolsTyped
<1>7. OpTyped'
  BY <1>1, <1>4 DEF Good, Wired, OpTyped, OpStates, Agree
<1>8. HandTyped' /\ PastTyped' /\ ClientsTyped'
  BY <1>1, <1>5 DEF Good, Wired, HandTyped, PastTyped, ClientsTyped
<1>9. AllHomed'
  BY <1>1, <1>4 DEF Good, AllHomed, Homed, Agree, Want
<1>10. past'.astray = {} /\ AllConfigured'
  BY <1>1, <1>3 DEF Good, AllConfigured
<1> QED BY <1>6, <1>7, <1>8, <1>9, <1>10 DEF Good, Wired

\* A step that leaves the pools and the clients alone.
LEMMA PoolsStay ==
  ASSUME Good, UNCHANGED <<file, registry, mgr, cl>>, OpTyped', HandTyped', PastTyped',
         past'.astray = past.astray, past.tags \subseteq past'.tags
  PROVE  Good'
<1>1. PoolsTyped' /\ ClientsTyped'
  BY DEF Good, Wired, PoolsTyped, ClientsTyped
<1>2. AllHomed' /\ AllConfigured' /\ past'.astray = {}
  BY DEF Good, AllHomed, Homed, Agree, Want, AllConfigured
<1> QED BY <1>1, <1>2 DEF Good, Wired

LEMMA PublishKeeps ==
  ASSUME Good, Publish \/ DropChain
  PROVE  Good'
<1>1. UNCHANGED <<file, registry, mgr, cl, hand>>
  BY DEF Publish, DropChain, pools
<1>2. OpTyped'
  <2>1. CASE Publish
    BY <1>1, <2>1 DEF Publish, Good, Wired, OpTyped, OpStates, Agree
  <2>2. CASE DropChain
    <3>1. op' = [op EXCEPT !.at = "idle", !.todo = Tail(op.todo)] /\ op.at = "drop" /\ op.todo # <<>>
      BY <2>2 DEF DropChain, Good, Wired, OpTyped
    <3>2. Tail(op.todo) \in Seq(AllEdits)
      BY <3>1, HeadTailProperties DEF Good, Wired, OpTyped
    <3>3. op'.at = "idle" /\ op' \in [at : OpStates, todo : Seq(AllEdits)]
      BY <3>1, <3>2 DEF Good, Wired, OpTyped, OpStates
    <3> QED BY <1>1, <3>1, <3>3 DEF Good, Wired, OpTyped, OpStates, Agree
  <2> QED BY <2>1, <2>2
<1>3. PastTyped' /\ past'.astray = past.astray /\ past.tags \subseteq past'.tags
  BY DEF Publish, DropChain, Good, Wired, PastTyped, Tag
<1>4. HandTyped'
  BY <1>1 DEF Good, Wired, HandTyped
<1> QED BY <1>1, <1>2, <1>3, <1>4, PoolsStay

\* The control plane.
LEMMA LookUpKeeps ==
  ASSUME Good, LookUp
  PROVE  Good'
<1>1. UNCHANGED <<file, registry, mgr, cl, op, past>> /\ hand.at = "idle"
  BY DEF LookUp, pools
<1> DEFINE call  == Head(hand.todo)
           found == Holding(CallPool(call), call.acct)
<1>2. hand' = IF found = {} THEN [hand EXCEPT !.todo = Tail(hand.todo)]
              ELSE [hand EXCEPT !.at = call.op, !.mgr = CHOOSE m \in found : TRUE]
  BY DEF LookUp
<1>3. found \subseteq DOMAIN mgr
  <2>1. \A p \in DOMAIN registry.map : registry.map[p] \in DOMAIN mgr
    BY LenProperties DEF Good, Wired, PoolsTyped, IsRegistry, IsManagers
  <2>2. \A pool : Resolved(pool) \in DOMAIN registry.map
    BY DEF Resolved, Good, Wired, PoolsTyped
  <2> QED BY <2>1, <2>2 DEF Holding
<1> HIDE DEF found, call
<1>4. HandTyped'
  <2>1. CASE found = {}
    BY <1>1, <1>2, <2>1 DEF Good, Wired, HandTyped
  <2>2. CASE found # {}
    <3>1. (CHOOSE m \in found : TRUE) \in DOMAIN mgr
      BY <1>3, <2>2
    <3>2. hand' = [hand EXCEPT !.at = call.op, !.mgr = CHOOSE m \in found : TRUE]
      BY <1>2, <2>2
    <3> DEFINE m == CHOOSE m \in found : TRUE
    <3> HIDE DEF m
    <3>3. hand' = [hand EXCEPT !.at = call.op, !.mgr = m] /\ m \in DOMAIN mgr
      BY <3>1, <3>2 DEF m
    <3> QED BY <1>1, <3>3 DEF Good, Wired, HandTyped
  <2> QED BY <2>1, <2>2
<1>5. OpTyped' /\ PastTyped'
  BY <1>1 DEF Good, Wired, OpTyped, PastTyped, Agree
<1> QED BY <1>1, <1>4, <1>5, PoolsStay

\* One manager's cursor or pin is set; the accounts stay.
LEMMA OneManager ==
  ASSUME NEW ms, IsManagers(ms), NEW i \in DOMAIN ms, NEW new, NEW m, IsManager(m), new = [ms EXCEPT ![i] = m]
  PROVE  IsManagers(new) /\ Len(new) = Len(ms) /\ DOMAIN new = DOMAIN ms /\ new[i] = m
         /\ \A j \in DOMAIN ms \ {i} : new[j] = ms[j]
<1>1. Len(ms) \in Nat /\ DOMAIN ms = 1..Len(ms) /\ ms \in [1..Len(ms) -> Range(ms)]
  BY LenProperties DEF IsManagers
<1>2. DOMAIN new = DOMAIN ms /\ new[i] = m /\ \A j \in DOMAIN ms \ {i} : new[j] = ms[j]
  BY <1>1
<1>3. new \in [1..Len(ms) -> Range(new)]
  BY <1>1, <1>2 DEF Range
<1>4. new \in Seq(Range(new)) /\ Len(new) = Len(ms)
  <2> DEFINE n == Len(ms)
             T == Range(new)
  <2>1. n \in Nat /\ new \in [1..n -> T]
    BY <1>1, <1>3
  <2> HIDE DEF n, T
  <2>2. new \in Seq(T)
    <3>1. new \in UNION {[1..k -> T] : k \in Nat}
      BY <2>1
    <3> QED BY <3>1, SeqDef
  <2>3. Len(new) = n
    BY <2>1, <2>2, LenProperties
  <2> QED BY <2>2, <2>3 DEF n, T
<1>5. \A j \in DOMAIN new : IsManager(new[j])
  BY <1>2 DEF IsManagers
<1> QED BY <1>2, <1>4, <1>5 DEF IsManagers

\* A step of the control plane, or of a request, that sets it.
LEMMA ManagerMoves ==
  ASSUME Good, NEW i \in DOMAIN mgr, NEW m, IsManager(m), mgr' = [mgr EXCEPT ![i] = m],
         UNCHANGED <<file, registry>>
  PROVE  /\ PoolsTyped' /\ DOMAIN mgr' = DOMAIN mgr
         /\ ("raced" \notin past.tags => Configured(m)) => ("raced" \notin past.tags => \A j \in DOMAIN mgr' : Configured(mgr'[j]))
<1>1. /\ IsManagers(mgr') /\ Len(mgr') = Len(mgr) /\ DOMAIN mgr' = DOMAIN mgr /\ mgr'[i] = m
      /\ \A j \in DOMAIN mgr \ {i} : mgr'[j] = mgr[j]
  BY OneManager DEF Good, Wired, PoolsTyped
<1>2. PoolsTyped'
  BY <1>1 DEF Good, Wired, PoolsTyped
<1> QED BY <1>1, <1>2 DEF Good, AllConfigured

LEMMA SettingKeeps ==
  ASSUME Good, SwitchTo \/ SetRoutePin
  PROVE  Good'
<1> DEFINE a == Head(hand.todo).acct
           i == hand.mgr
<1>1. /\ UNCHANGED <<file, registry, op, cl>> /\ hand' = Handled
      /\ hand.at # "idle" /\ i \in DOMAIN mgr
  BY DEF SwitchTo, SetRoutePin, Good, Wired, HandTyped
<1>2. IsManager(mgr[i]) /\ PastTyped
  BY <1>1 DEF Good, Wired, PoolsTyped, IsManagers
<1>3. HandTyped' /\ hand'.at = "idle"
  BY <1>1 DEF Good, Wired, HandTyped, Handled
<1>4. OpTyped'
  BY <1>1 DEF Good, Wired, OpTyped, Agree
<1>5. \E m : /\ IsManager(m) /\ mgr' = [mgr EXCEPT ![i] = m]
             /\ "raced" \notin past'.tags => Configured(m)
             /\ PastTyped' /\ past'.astray = past.astray /\ past.tags \subseteq past'.tags
  <2>1. CASE SwitchTo /\ ResolvePin(i, a)
    <3> DEFINE m == [mgr[i] EXCEPT !.current = a]
    <3>1. mgr' = [mgr EXCEPT ![i] = m] /\ past' = past /\ a \in mgr[i].accts
      BY <2>1 DEF SwitchTo, ResolvePin
    <3>2. IsManager(m) /\ m.accts = mgr[i].accts /\ m.pin = mgr[i].pin /\ m.current = a
      BY <1>2 DEF IsManager
    <3>3. "raced" \notin past.tags => Configured(m)
      BY <1>1, <3>1, <3>2 DEF Configured, Good, AllConfigured
    <3> QED BY <1>2, <3>1, <3>2, <3>3 DEF PastTyped
  <2>2. CASE SwitchTo /\ ~ResolvePin(i, a)
    <3>1. mgr' = [mgr EXCEPT ![i] = mgr[i]] /\ past' = past
      BY <1>1, <2>2 DEF SwitchTo, Good, Wired, PoolsTyped, IsManagers
    <3>2. "raced" \notin past.tags => Configured(mgr[i])
      BY <1>1 DEF Good, AllConfigured
    <3> QED BY <1>2, <3>1, <3>2 DEF PastTyped
  <2>3. CASE SetRoutePin
    <3> DEFINE m == [mgr[i] EXCEPT !.pin = a]
    <3>1. mgr' = [mgr EXCEPT ![i] = m] /\ past' = IF ResolvePin(i, a) THEN past ELSE Tag({"raced"})
      BY <2>3 DEF SetRoutePin
    <3>2. IsManager(m) /\ m.accts = mgr[i].accts /\ m.current = mgr[i].current /\ m.pin = a
      BY <1>2 DEF IsManager
    <3>3. PastTyped' /\ past'.astray = past.astray /\ past.tags \subseteq past'.tags
          /\ (ResolvePin(i, a) \/ "raced" \in past'.tags)
      BY <1>2, <3>1 DEF PastTyped, Tag
    <3>4. "raced" \notin past'.tags => Configured(m)
      BY <1>1, <3>2, <3>3 DEF ResolvePin, Configured, Good, AllConfigured
    <3> QED BY <3>1, <3>2, <3>3, <3>4
  <2> QED BY <2>1, <2>2, <2>3
<1>6. PICK m : /\ IsManager(m) /\ mgr' = [mgr EXCEPT ![i] = m]
               /\ "raced" \notin past'.tags => Configured(m)
               /\ PastTyped' /\ past'.astray = past.astray /\ past.tags \subseteq past'.tags
  BY <1>5
<1>7. /\ PoolsTyped' /\ DOMAIN mgr' = DOMAIN mgr
      /\ \A j \in DOMAIN mgr \ {i} : mgr'[j] = mgr[j]
      /\ mgr'[i] = m
  BY <1>1, <1>6, ManagerMoves, OneManager DEF Good, Wired, PoolsTyped
<1>8. ClientsTyped'
  BY <1>1, <1>7 DEF Good, Wired, ClientsTyped
<1>9. AllHomed' /\ AllConfigured'
  BY <1>1, <1>6, <1>7 DEF Good, AllHomed, Homed, Agree, Want, AllConfigured
<1> QED BY <1>3, <1>4, <1>6, <1>7, <1>8, <1>9 DEF Good, Wired

\* The server starts again.
LEMMA RestartKeeps ==
  ASSUME Good, Restart
  PROVE  Good'
<1>1. /\ registry' = Synced(NoManagers, file, 0)
      /\ mgr' \in Booted(SyncedManagers(NoManagers, file, <<>>))
      /\ op' = IF op.at = "idle" THEN op ELSE [op EXCEPT !.at = "idle", !.todo = Tail(op.todo)]
      /\ hand' = IF hand.at = "idle" THEN hand ELSE Handled
      /\ UNCHANGED <<file, past>>
  BY DEF Restart
<1>2. /\ IsManagers(mgr') /\ IsRegistry(registry', Len(mgr')) /\ \A i \in DOMAIN mgr' : Configured(mgr'[i])
      /\ DOMAIN registry'.map = DOMAIN file.pools /\ registry'.default = file.default
      /\ registry'.default \in DOMAIN registry'.map /\ NoPool \notin DOMAIN registry'.map
  BY <1>1, StartDoes DEF Good, Wired, PoolsTyped
<1>3. PoolsTyped' /\ PastTyped' /\ past'.astray = {} /\ AllConfigured'
  BY <1>1, <1>2 DEF Good, Wired, PoolsTyped, PastTyped, AllConfigured
<1>4. OpTyped'
  <2>1. op'.at = "idle" /\ op' \in [at : OpStates, todo : Seq(AllEdits)]
    BY <1>1, HeadTailProperties DEF Good, Wired, OpTyped, OpStates
  <2> QED BY <1>1, <1>2, <2>1 DEF OpTyped, Agree
<1>5. HandTyped'
  BY <1>1 DEF Good, Wired, HandTyped, Handled
<1>6. \A c \in Clients :
         /\ IsClient(cl'[c]) /\ cl'[c].want = cl[c].want /\ cl'[c].env = cl[c].env /\ cl'[c].due = cl[c].due
         /\ cl'[c].moved = cl[c].moved /\ (cl'[c].pc = "start" <=> cl[c].pc = "start")
         /\ cl'[c].pc \notin InTunnel
  <2>1. SUFFICES ASSUME NEW c \in Clients
        PROVE  /\ IsClient(cl'[c]) /\ cl'[c].want = cl[c].want /\ cl'[c].env = cl[c].env /\ cl'[c].due = cl[c].due
               /\ cl'[c].moved = cl[c].moved /\ (cl'[c].pc = "start" <=> cl[c].pc = "start")
               /\ cl'[c].pc \notin InTunnel
    OBVIOUS
  <2>2. cl'[c] = IF cl[c].pc \notin {"mint", "shake", "open", "body", "refused"} THEN cl[c]
                 ELSE [cl[c] EXCEPT !.pc = "ready", !.mgr = 0, !.chain = Ch!Missing]
    BY DEF Restart
  <2>3. IsClient(cl[c])
    BY DEF Good, Wired, ClientsTyped
  <2> QED BY <2>2, <2>3 DEF IsClient, Places, InTunnel
<1>7. ClientsTyped'
  <2>1. cl' = [c \in Clients |-> cl'[c]]
    BY DEF Restart
  <2> QED BY <1>6, <2>1 DEF ClientsTyped, InTunnel
<1>8. AllHomed'
  BY <1>1, <1>2, <1>6 DEF Good, AllHomed, Homed, Agree, Want, InTunnel
<1> QED BY <1>3, <1>4, <1>5, <1>7, <1>8 DEF Good, Wired

\* The clients.

\* A client that is not launched, served or given a manager by the step keeps
\* what it was launched with, and comes into a tunnel only from one.
GoesOn(c) ==
  /\ cl' = [d \in Clients |-> cl'[d]] /\ \A d \in Clients \ {c} : cl'[d] = cl[d]
  /\ IsClient(cl'[c])
  /\ cl'[c].want = cl[c].want /\ cl'[c].env = cl[c].env /\ cl'[c].due = cl[c].due /\ cl'[c].moved = cl[c].moved
  /\ cl'[c].tunnel = cl[c].tunnel
  /\ cl[c].pc # "start" /\ cl'[c].pc \notin {"start", "body"}
  /\ cl'[c].pc \in InTunnel => cl[c].pc \in InTunnel

LEMMA ClientGoesOn ==
  ASSUME Good, NEW c \in Clients, GoesOn(c), UNCHANGED <<file, registry, op, hand>>, PoolsTyped',
         DOMAIN mgr' = DOMAIN mgr, PastTyped', past'.astray = {}, AllConfigured'
  PROVE  Good'
<1>1. OpTyped' /\ HandTyped'
  BY DEF Good, Wired, OpTyped, HandTyped, Agree
<1>2. ClientsTyped'
  BY DEF Good, Wired, ClientsTyped, GoesOn
<1>3. AllHomed'
  BY DEF Good, AllHomed, Homed, Agree, Want, GoesOn
<1> QED BY <1>1, <1>2, <1>3 DEF Good, Wired

\* HostMode tells the hosts apart.
LEMMA HostModes ==
  ASSUME NEW host
  PROVE  HostMode(host) = "test" <=> host = TestHost
<1>1. TestHost \notin InterceptHosts(live) /\ TestHost # "session"
  BY DEF TestHost, InterceptHosts
<1>2. CASE host = TestHost
  BY <1>1, <1>2 DEF HostMode
<1>3. CASE host # TestHost
  BY <1>1, <1>3 DEF HostMode
<1> QED BY <1>2, <1>3

\* The steps that ask nothing of the pools.
LEMMA ConnectionKeeps ==
  ASSUME Good, NEW c \in Clients, Trust(c) \/ Pass(c) \/ Mint(c) \/ Refused(c) \/ Shake(c)
  PROVE  Good'
<1>1. IsClient(cl[c]) /\ cl = [d \in Clients |-> cl[d]] /\ PastTyped
  BY DEF Good, Wired, ClientsTyped
<1>2. UNCHANGED <<file, registry, mgr, op, hand>>
  BY DEF Trust, Pass, Mint, Minted, Refused, Shake, pools
<1>3. PastTyped' /\ past'.astray = past.astray /\ past.tags \subseteq past'.tags
  BY <1>1 DEF Trust, Pass, Mint, Minted, Refused, Shake, PastTyped, Tag
<1>4. GoesOn(c)
  <2>1. CASE Trust(c)
    BY <1>1, <2>1 DEF Trust, GoesOn, IsClient, Places, InTunnel
  <2>2. CASE Pass(c)
    BY <1>1, <2>2 DEF Pass, GoesOn, IsClient, Places, InTunnel
  <2>3. CASE Mint(c)
    BY <1>1, <2>3 DEF Mint, GoesOn, IsClient, Places, InTunnel
  <2>4. CASE Refused(c)
    BY <1>1, <2>4 DEF Refused, GoesOn, IsClient, Places, InTunnel
  <2>5. CASE Shake(c)
    BY <1>1, <2>5 DEF Shake, GoesOn, IsClient, Places, InTunnel
  <2> QED BY <2>1, <2>2, <2>3, <2>4, <2>5
<1>5. PoolsTyped' /\ AllConfigured' /\ past'.astray = {}
  BY <1>2, <1>3 DEF Good, Wired, PoolsTyped, AllConfigured
<1> QED BY <1>2, <1>3, <1>4, <1>5, ClientGoesOn

\* A launch with no reload under way: the environment leads to the pool the
\* command chose.
LEMMA LaunchKeeps ==
  ASSUME Good, NEW c \in Clients, Launch(c)
  PROVE  Good'
<1> DEFINE w == Want(c)
           flag == Flag(file, w)
           due == IF flag = NoPool THEN file.default ELSE flag
<1>1. /\ UNCHANGED <<file, registry, mgr, op, hand, past>> /\ cl[c].pc = "start"
      /\ w.flag \in DOMAIN file.pools \cup {NoPool}
      /\ cl' = [cl EXCEPT ![c].pc = IF w.mitm THEN "ensure" ELSE "ready", ![c].env = EnvPool(file, flag),
                          ![c].due = due, ![c].moved = op.at # "idle"]
  BY DEF Launch, Launchable, pools
<1>2. IsClient(cl[c]) /\ cl = [d \in Clients |-> cl[d]]
  BY DEF Good, Wired, ClientsTyped
<1>3. flag \in DOMAIN file.pools \cup {NoPool}
  BY <1>1, RuledIsPool DEF Flag
<1>4. due \in DOMAIN file.pools /\ EnvPool(file, flag) = EnvPool(file, due)
  <2>1. file.default \in DOMAIN file.pools /\ NoPool \notin DOMAIN file.pools
    BY DocsGiven DEF Good, Wired, PoolsTyped
  <2> QED BY <1>3, <2>1 DEF EnvPool
<1> HIDE DEF flag, due
<1>5. /\ IsClient(cl'[c]) /\ cl'[c].pc \in {"ensure", "ready"} /\ cl'[c].env = EnvPool(file, due)
      /\ cl'[c].due = due /\ (~cl'[c].moved => op.at = "idle")
      /\ cl' = [d \in Clients |-> cl'[d]] /\ \A d \in Clients \ {c} : cl'[d] = cl[d]
  BY <1>1, <1>2, <1>4 DEF IsClient, Places
<1>6. PoolsTyped' /\ OpTyped' /\ HandTyped' /\ PastTyped' /\ AllConfigured' /\ past'.astray = {}
  BY <1>1 DEF Good, Wired, PoolsTyped, OpTyped, HandTyped, PastTyped, AllConfigured, Agree
<1>7. ClientsTyped'
  BY <1>1, <1>5 DEF Good, Wired, ClientsTyped
<1>8. Homed(c)'
  <2>1. SUFFICES ASSUME ~cl'[c].moved PROVE Homed(c)'
    BY DEF Homed
  <2>2. Agree'
    BY <1>1, <1>5, <2>1 DEF Good, Wired, OpTyped, Agree
  <2>3. cl'[c].pc # "body" /\ cl'[c].pc \notin InTunnel
    BY <1>5 DEF InTunnel
  <2>4. cl'[c].due \in DOMAIN file'.pools /\ cl'[c].env = EnvPool(file', cl'[c].due)
    BY <1>1, <1>4, <1>5
  <2> QED BY <2>2, <2>3, <2>4 DEF Homed
<1>9. AllHomed'
  <2>1. ASSUME NEW d \in Clients \ {c}
        PROVE  Homed(d)'
    <3>1. cl'[d] = cl[d] /\ UNCHANGED <<file, registry>>
      BY <1>1, <1>5
    <3>2. Homed(d)
      BY DEF Good, AllHomed
    <3> QED BY <3>1, <3>2 DEF Homed, Agree, Want
  <2> QED BY <1>8, <2>1 DEF AllHomed
<1> QED BY <1>6, <1>7, <1>9 DEF Good, Wired

\* What a name that leads to the pool of a launch, or to none, is resolved to.
LEMMA ResolvedHome ==
  ASSUME Good, NEW c \in Clients, Homed(c), ~cl[c].moved, cl[c].pc # "start"
  PROVE  Resolved(cl[c].env) = cl[c].due /\ Resolved(cl[c].due) = cl[c].due
<1>1. Agree /\ cl[c].due \in DOMAIN file.pools /\ cl[c].env = EnvPool(file, cl[c].due)
  BY DEF Homed
<1>2. NoPool \notin DOMAIN registry.map
  BY DEF Good, Wired, PoolsTyped
<1> QED BY <1>1, <1>2 DEF Resolved, EnvPool, Agree

LEMMA ConnectKeeps ==
  ASSUME Good, NEW c \in Clients, Connect(c)
  PROVE  Good'
<1>1. IsClient(cl[c]) /\ cl = [d \in Clients |-> cl[d]] /\ PastTyped
  BY DEF Good, Wired, ClientsTyped
<1>2. UNCHANGED <<file, registry, mgr, op, hand>> /\ cl[c].pc = "ready"
  BY DEF Connect, pools
<1>3. PastTyped' /\ past'.astray = past.astray /\ past.tags \subseteq past'.tags
  BY <1>1 DEF Connect, PastTyped, Tag
<1>4. PoolsTyped' /\ OpTyped' /\ HandTyped' /\ AllConfigured' /\ past'.astray = {}
  BY <1>2, <1>3 DEF Good, Wired, PoolsTyped, OpTyped, HandTyped, AllConfigured, Agree
<1>5. CASE ~Admits(c)
  <2>1. GoesOn(c)
    BY <1>1, <1>2, <1>5 DEF Connect, GoesOn, IsClient, Places, InTunnel
  <2> QED BY <1>2, <1>3, <1>4, <2>1, ClientGoesOn
<1>6. CASE Admits(c)
  <2>1. /\ cl' = [cl EXCEPT ![c].tunnel = TunnelPool(c), ![c].chain = cache,
                            ![c].pc = IF cache = Ch!Missing THEN "mint" ELSE "shake"]
    BY <1>6 DEF Connect
  <2>2. /\ IsClient(cl'[c]) /\ cl'[c].pc \in {"mint", "shake"} /\ cl'[c].tunnel = TunnelPool(c)
        /\ cl'[c].want = cl[c].want /\ cl'[c].env = cl[c].env /\ cl'[c].due = cl[c].due
        /\ cl'[c].moved = cl[c].moved
        /\ cl' = [d \in Clients |-> cl'[d]] /\ \A d \in Clients \ {c} : cl'[d] = cl[d]
    BY <1>1, <2>1 DEF IsClient, Places
  <2>3. ClientsTyped'
    BY <1>2, <2>2 DEF Good, Wired, ClientsTyped
  <2>4. Homed(c)'
    <3>1. SUFFICES ASSUME ~cl[c].moved PROVE Homed(c)'
      BY <2>2 DEF Homed
    <3>2. Homed(c)
      BY DEF Good, AllHomed
    <3>3. Want(c).host # TestHost => TunnelPool(c) = cl[c].due
      BY <1>2, <3>1, <3>2, HostModes, ResolvedHome DEF TunnelPool
    <3> QED BY <1>2, <2>2, <3>1, <3>2, <3>3 DEF Homed, Agree, Want
  <2>5. AllHomed'
    <3>1. \A d \in Clients \ {c} : Homed(d)'
      BY <1>2, <2>2 DEF Good, AllHomed, Homed, Agree, Want
    <3> QED BY <2>4, <3>1 DEF AllHomed
  <2> QED BY <1>3, <1>4, <2>3, <2>5 DEF Good, Wired
<1> QED BY <1>5, <1>6

LEMMA ArriveKeeps ==
  ASSUME Good, NEW c \in Clients, Arrive(c)
  PROVE  Good'
<1>1. IsClient(cl[c]) /\ cl = [d \in Clients |-> cl[d]]
  BY DEF Good, Wired, ClientsTyped
<1>2. /\ UNCHANGED <<file, registry, mgr, op, hand, past>>
      /\ \/ cl[c].pc = "open" /\ Want(c).host # TestHost
         \/ cl[c].pc = "ready" /\ ~Want(c).mitm
  BY DEF Arrive, pools
<1>3. PoolsTyped' /\ OpTyped' /\ HandTyped' /\ PastTyped' /\ AllConfigured' /\ past'.astray = {}
  BY <1>2 DEF Good, Wired, PoolsTyped, OpTyped, HandTyped, PastTyped, AllConfigured, Agree
<1>4. CASE Want(c).own
  <2>1. GoesOn(c)
    BY <1>1, <1>2, <1>4 DEF Arrive, GoesOn, IsClient, Places, InTunnel
  <2> QED BY <1>2, <1>3, <2>1, ClientGoesOn
<1>5. CASE ~Want(c).own
  <2> DEFINE m == ManagerOf(AskedPool(c))
  <2>1. cl' = [cl EXCEPT ![c].asks = cl[c].asks - 1, ![c].pc = "body", ![c].mgr = m]
    BY <1>5 DEF Arrive
  <2>2. m \in DOMAIN mgr
    <3>1. \A p \in DOMAIN registry.map : registry.map[p] \in DOMAIN mgr
      BY LenProperties DEF Good, Wired, PoolsTyped, IsRegistry, IsManagers
    <3> QED BY <3>1 DEF ManagerOf, Resolved, Good, Wired, PoolsTyped
  <2>3. ~cl[c].moved => m = registry.map[cl[c].due]
    <3>1. SUFFICES ASSUME ~cl[c].moved PROVE m = registry.map[cl[c].due]
      OBVIOUS
    <3>2. Homed(c)
      BY DEF Good, AllHomed
    <3>3. AskedPool(c) = cl[c].env \/ AskedPool(c) = cl[c].due
      BY <1>2, <3>1, <3>2 DEF AskedPool, Homed, InTunnel
    <3> QED BY <1>2, <3>1, <3>2, <3>3, ResolvedHome DEF ManagerOf
  <2> HIDE DEF m
  <2>4. /\ IsClient(cl'[c]) /\ cl'[c].pc = "body" /\ cl'[c].mgr = m
        /\ cl'[c].want = cl[c].want /\ cl'[c].env = cl[c].env /\ cl'[c].due = cl[c].due
        /\ cl'[c].moved = cl[c].moved /\ cl'[c].tunnel = cl[c].tunnel
        /\ cl' = [d \in Clients |-> cl'[d]] /\ \A d \in Clients \ {c} : cl'[d] = cl[d]
    BY <1>1, <2>1 DEF IsClient, Places
  <2>5. ClientsTyped'
    BY <1>2, <2>2, <2>4 DEF Good, Wired, ClientsTyped
  <2>6. Homed(c)'
    <3>1. Homed(c)
      BY DEF Good, AllHomed
    <3> QED BY <1>2, <2>3, <2>4, <3>1 DEF Homed, Agree, Want, InTunnel
  <2>7. AllHomed'
    <3>1. \A d \in Clients \ {c} : Homed(d)'
      BY <1>2, <2>4 DEF Good, AllHomed, Homed, Agree, Want
    <3> QED BY <2>6, <3>1 DEF AllHomed
  <2> QED BY <1>3, <2>5, <2>7 DEF Good, Wired
<1> QED BY <1>4, <1>5

\* The request is served from the pool of the launch, by its pin if it has one.
LEMMA ServeKeeps ==
  ASSUME Good, NEW c \in Clients, Serve(c)
  PROVE  Good'
<1> DEFINE i == cl[c].mgr
           m == mgr[i]
<1>1. IsClient(cl[c]) /\ cl = [d \in Clients |-> cl[d]] /\ PastTyped
  BY DEF Good, Wired, ClientsTyped
<1>2. /\ UNCHANGED <<file, registry, op, hand>> /\ cl[c].pc = "body" /\ i \in DOMAIN mgr
      /\ cl' = [cl EXCEPT ![c].pc = Next1(c)]
  BY DEF Serve, Good, Wired, ClientsTyped
<1>3. GoesOn(c)
  BY <1>1, <1>2 DEF Next1, GoesOn, IsClient, Places, InTunnel
<1>4. IsManager(m)
  BY <1>2 DEF Good, Wired, PoolsTyped, IsManagers
<1>5. CASE UNCHANGED <<mgr, past>>
  <2>1. PoolsTyped' /\ PastTyped' /\ AllConfigured' /\ past'.astray = {}
    BY <1>2, <1>5 DEF Good, Wired, PoolsTyped, PastTyped, AllConfigured
  <2> QED BY <1>2, <1>3, <1>5, <2>1, ClientGoesOn
<1>6. ASSUME NEW a \in Candidates(c, m),
             mgr' = [mgr EXCEPT ![i].current = IF Want(c).pin # NoAccount \/ m.pin = a THEN mgr[i].current ELSE a],
             past' = IF cl[c].moved \/ a \in Due(c) THEN past ELSE [past EXCEPT !.astray = past.astray \cup {c}]
      PROVE  Good'
  <2> DEFINE n == [m EXCEPT !.current = IF Want(c).pin # NoAccount \/ m.pin = a THEN m.current ELSE a]
  <2>1. mgr' = [mgr EXCEPT ![i] = n]
    BY <1>6
  <2>2. a \in m.accts /\ (Want(c).pin # NoAccount => a = Want(c).pin)
    BY <1>6 DEF Candidates, OfProvider
  <2>3. IsManager(n) /\ n.accts = m.accts /\ n.pin = m.pin /\ n.current \in {m.current, a}
    BY <1>4 DEF IsManager
  <2>4. "raced" \notin past.tags => Configured(n)
    BY <1>2, <2>2, <2>3 DEF Good, AllConfigured, Configured
  <2> HIDE DEF n
  <2>5. /\ PoolsTyped' /\ DOMAIN mgr' = DOMAIN mgr
        /\ "raced" \notin past.tags => \A j \in DOMAIN mgr' : Configured(mgr'[j])
    BY <1>2, <2>1, <2>3, <2>4, ManagerMoves
  <2>6. cl[c].moved \/ a \in Due(c)
    <3>1. SUFFICES ASSUME ~cl[c].moved PROVE a \in Due(c)
      OBVIOUS
    <3>2. Agree /\ cl[c].due \in DOMAIN file.pools /\ i = registry.map[cl[c].due]
      BY <1>2, <3>1 DEF Good, AllHomed, Homed
    <3> QED BY <2>2, <3>2 DEF Due, Agree
  <2>7. past' = past
    BY <1>6, <2>6
  <2>8. PastTyped' /\ AllConfigured' /\ past'.astray = {}
    BY <1>1, <2>5, <2>7 DEF Good, AllConfigured, PastTyped
  <2> QED BY <1>2, <1>3, <2>5, <2>8, ClientGoesOn
<1> QED BY <1>5, <1>6 DEF Serve

\* The certificates are no business of the pools.
LEMMA ChainStepKeeps ==
  ASSUME Good, PreMint \/ Expiry \/ UNCHANGED vars \/ \E t \in Ch!Tasks : EnsureStep(t) \/ Fault(t)
  PROVE  Good'
<1>1. UNCHANGED <<file, registry, mgr, op, hand, cl>> /\ PastTyped
  BY DEF PreMint, Minted, EnsureStep, Fault, Expiry, vars, pools, Good, Wired
<1>2. PastTyped' /\ past'.astray = past.astray /\ past.tags \subseteq past'.tags
  BY <1>1 DEF PreMint, Minted, EnsureStep, Fault, Expiry, vars, PastTyped, Tag
<1>3. OpTyped' /\ HandTyped'
  BY <1>1 DEF Good, Wired, OpTyped, HandTyped, Agree
<1> QED BY <1>1, <1>2, <1>3, PoolsStay

LEMMA StepKeeps ==
  ASSUME Good, [Next]_vars
  PROVE  Good'
<1>1. ASSUME NEW c \in Clients, ClientStep(c) PROVE Good'
  BY <1>1, LaunchKeeps, ConnectionKeeps, ConnectKeeps, ArriveKeeps, ServeKeeps DEF ClientStep
<1> QED BY <1>1, EditKeeps, RekeyKeeps, SyncKeeps, PublishKeeps, LookUpKeeps, SettingKeeps, RestartKeeps,
           ChainStepKeeps DEF Next

\* The invariant of the way in.
THEOREM GoodAlways == Spec => []Good
BY InitGood, StepKeeps, PTL DEF Spec

\* A client launched while no edit is under way is served by the accounts of the
\* pool it was launched for, and pinned to one by that account alone, until
\* pools come, go or are renamed or another one is the default.
THEOREM LaunchesAreHonoured == Spec => []LaunchIsHonoured
<1>1. Good => LaunchIsHonoured
  BY DEF Good, LaunchIsHonoured
<1> QED BY <1>1, GoodAlways, PTL

\* The cursor and the operator's pin of a live pool name accounts of it, unless
\* a pin was set while a reload took the account away.
THEOREM PinsStayConfigured == Spec => []PinsAreConfigured
<1>1. ASSUME Good PROVE PinsAreConfigured
  <2>1. SUFFICES ASSUME "raced" \notin past.tags, NEW p \in DOMAIN registry.map
                 PROVE  Configured(mgr[registry.map[p]])
    BY DEF PinsAreConfigured, Configured
  <2>2. registry.map[p] \in DOMAIN mgr
    BY <1>1, LenProperties DEF Good, Wired, PoolsTyped, IsRegistry, IsManagers
  <2> QED BY <1>1, <2>1, <2>2 DEF Good, AllConfigured
<1> QED BY <1>1, GoodAlways, PTL

-----------------------------------------------------------------------------
\* The certificates: what the files, the calls of ensure_certs, the server's
\* copy and the clients have to do with each other.

\* Hosts, chains and files.
AllHosts     == {"anthropic", "codex", TestHost}
Names        == {"ca", "leaf", "key"}
Chains(cv)   == {Ch!Missing} \cup DOMAIN cv
Contents(cv) == Chains(cv) \cup {Ch!Torn}
Inform       == InterceptHosts(live) \cup {TestHost}
Basic        == {"anthropic", TestHost}

\* A task that has replaced one file of the three, or two.
Halfway(t) == ens[t].at = "write" /\ Len(ens[t].left) < 3
AtRest     == \A t \in Ch!Tasks : ~Halfway(t)

CallTyped(e, cv) ==
    /\ e \in [at : {"idle", "read", "write", "done", "failed"},
              left : {<<>>, <<"ca", "leaf", "key">>, <<"leaf", "key">>, <<"key">>,
                      <<"key", "leaf", "ca">>, <<"leaf", "ca">>, <<"ca">>},
              hosts : SUBSET AllHosts, got : [ca : Contents(cv), leaf : Contents(cv), key : Contents(cv)]]
    /\ e.at # "idle" => Basic \subseteq e.hosts
    /\ e.at = "read" => e.left \in {<<"ca", "leaf", "key">>, <<"leaf", "key">>, <<"key">>}
    /\ e.at = "write" => /\ e.left \in {<<"key", "leaf", "ca">>, <<"leaf", "ca">>, <<"ca">>}
                         /\ e.got.leaf = e.got.key /\ e.got.key \in DOMAIN cv
    /\ e.at \in {"write", "done"} => e.got.leaf \in DOMAIN cv /\ e.hosts \subseteq cv[e.got.leaf]

\* Which call belongs to which step of a client.
ClientPlaced(c) ==
    /\ cl[c].pc = "start" => ens[Cli(c)].at = "idle"
    /\ cl[c].pc = "mint" <=> ens[Srv(c)].at # "idle"
    /\ cl[c].pc = "shake" => cl[c].chain \in DOMAIN covers

ChainTyped ==
    /\ covers \in Seq(SUBSET AllHosts) /\ \A n \in DOMAIN covers : Basic \subseteq covers[n]
    /\ ens = [t \in Ch!Tasks |-> ens[t]] /\ \A t \in Ch!Tasks : CallTyped(ens[t], covers)
    /\ \A t \in Commands : ens[t].at # "idle" => ens[t].hosts = Basic
    /\ disk \in [ca : Contents(covers), leaf : Contents(covers), key : Contents(covers)]
    /\ cache \in Chains(covers)
    /\ \A c \in Clients : ClientPlaced(c) /\ cl[c].pc \in Places

\* The files are those of one chain but for what a task has replaced of them,
\* and a task replaces a chain that will not do for it.
WantsAnother(t) == \/ disk.ca = Ch!Missing \/ disk.ca \in expired
                   \/ ~(ens[t].hosts \subseteq covers[disk.ca])

DiskSound ==
    /\ disk \in [ca : Chains(covers), leaf : Chains(covers), key : Chains(covers)]
    /\ AtRest => disk.leaf = disk.ca /\ disk.key = disk.ca
    /\ \A t \in Ch!Tasks : Halfway(t) =>
         /\ \A u \in Ch!Tasks : Halfway(u) => u = t
         /\ disk.key = ens[t].got.key
         /\ disk.leaf = IF Len(ens[t].left) = 2 THEN disk.ca ELSE ens[t].got.key
    /\ \A t \in Ch!Tasks : ens[t].at = "write" =>
         /\ disk.ca < ens[t].got.key
         /\ Halfway(t) \/ AtRest => WantsAnother(t)
    /\ \A t \in Ch!Tasks : ens[t].at = "read" =>
         /\ ens[t].left # <<"ca", "leaf", "key">> => ens[t].got.ca = disk.ca
         /\ ens[t].left = <<"key">> => ens[t].got.leaf = disk.leaf
    /\ \A t \in Handlers : ens[t].at # "failed"
    /\ \A c \in Clients : cl[c].ca \in Chains(covers) /\ cl[c].ca <= disk.ca

\* The chain n is the one on disk, or its leaf has run out.
Current(n) == disk.ca = n \/ n \in expired

\* What the server uses is what is on disk, but for a leaf that has run out.
CopySound ==
    /\ \A t \in Handlers : ens[t].at # "idle" => ens[t].hosts = Inform
    /\ \A t \in Handlers : ens[t].at = "done" => Current(ens[t].got.leaf) /\ ens[t].got.key = ens[t].got.leaf
    /\ cache # Ch!Missing /\ op.at # "drop" => Current(cache) /\ Inform \subseteq covers[cache]
    /\ \A c \in Clients :
         /\ cl[c].pc = "mint" => Want(c).host \in ens[Srv(c)].hosts
         /\ cl[c].pc = "shake" => /\ cl[c].ca <= cl[c].chain \/ cl[c].chain \in expired
                                  /\ Want(c).host \in covers[cl[c].chain]
         /\ cl[c].pc # "refused"
    /\ past.broken = {}

Linked == /\ ChainTyped
          /\ rift = {} => DiskSound
          /\ rift = {} /\ "late" \notin past.tags => CopySound

\* The order in which the files are read, and written.
LEMMA Lists ==
  /\ Len(<<"ca", "leaf", "key">>) = 3 /\ Head(<<"ca", "leaf", "key">>) = "ca"
  /\ Tail(<<"ca", "leaf", "key">>) = <<"leaf", "key">>
  /\ Len(<<"key", "leaf", "ca">>) = 3 /\ Head(<<"key", "leaf", "ca">>) = "key"
  /\ Tail(<<"key", "leaf", "ca">>) = <<"leaf", "ca">>
  /\ Len(<<"leaf", "key">>) = 2 /\ Head(<<"leaf", "key">>) = "leaf" /\ Tail(<<"leaf", "key">>) = <<"key">>
  /\ Len(<<"leaf", "ca">>) = 2 /\ Head(<<"leaf", "ca">>) = "leaf" /\ Tail(<<"leaf", "ca">>) = <<"ca">>
  /\ Len(<<"key">>) = 1 /\ Head(<<"key">>) = "key" /\ Tail(<<"key">>) = <<>>
  /\ Len(<<"ca">>) = 1 /\ Head(<<"ca">>) = "ca" /\ Tail(<<"ca">>) = <<>>
OBVIOUS

LEMMA ListsDiffer ==
  /\ <<"ca", "leaf", "key">> # <<"leaf", "key">> /\ <<"ca", "leaf", "key">> # <<"key">>
  /\ <<"leaf", "key">> # <<"key">>
  /\ <<"key", "leaf", "ca">> # <<"leaf", "ca">> /\ <<"key", "leaf", "ca">> # <<"ca">>
  /\ <<"leaf", "ca">> # <<"ca">>
OBVIOUS

LEMMA Copies == ASSUME NEW n
  PROVE Ch!All3(n).ca = n /\ Ch!All3(n).leaf = n /\ Ch!All3(n).key = n /\ DOMAIN Ch!All3(n) = Names
BY DEF Ch!All3, Names

\* A call is a record of four fields.
IsCall(e) == e \in [at : {e.at}, left : {e.left}, hosts : {e.hosts}, got : {e.got}]

LEMMA CallIs ==
  ASSUME NEW e, NEW cv, CallTyped(e, cv)
  PROVE  IsCall(e) /\ e.got \in [ca : {e.got.ca}, leaf : {e.got.leaf}, key : {e.got.key}]
BY DEF CallTyped, IsCall

\* A step of one call that leaves the others where they are.
OnlyCall(t) == ens' = [u \in Ch!Tasks |-> ens'[u]] /\ \A u \in Ch!Tasks \ {t} : ens'[u] = ens[u]

\* A read takes one more file, finds the three good, or makes a chain.
Looks(t) ==
  /\ covers' = covers /\ ens'[t].at = "read"
  /\ \/ /\ ens[t].left = <<"ca", "leaf", "key">> /\ ens'[t].left = <<"leaf", "key">>
        /\ ens'[t].got = [ens[t].got EXCEPT !.ca = disk.ca]
     \/ /\ ens[t].left = <<"leaf", "key">> /\ ens'[t].left = <<"key">>
        /\ ens'[t].got = [ens[t].got EXCEPT !.leaf = disk.leaf]
Finds(t) ==
  /\ covers' = covers /\ ens'[t].at = "done" /\ ens'[t].left = <<>> /\ ens[t].left = <<"key">>
  /\ ens'[t].got = [ens[t].got EXCEPT !.key = disk.key]
  /\ ens[t].got.leaf = ens[t].got.ca
  /\ ens[t].got.leaf \in DOMAIN covers \ expired /\ ens[t].hosts \subseteq covers[ens[t].got.leaf]
Makes(t) ==
  /\ covers' = Append(covers, ens[t].hosts)
  /\ ens'[t].at = "write" /\ ens'[t].left = <<"key", "leaf", "ca">> /\ ens[t].left = <<"key">>
  /\ ens'[t].got = Ch!All3(Len(covers) + 1)
  /\ disk.key = Ch!Missing \/ ens[t].got.leaf # ens[t].got.ca \/ ens[t].got.leaf \notin DOMAIN covers \ expired
       \/ ~(ens[t].hosts \subseteq covers[ens[t].got.leaf])

LEMMA ReadDoes ==
  ASSUME ChainTyped, NEW t \in Ch!Tasks, Ch!Read(t)
  PROVE  /\ ens[t].at = "read" /\ OnlyCall(t) /\ ens'[t].hosts = ens[t].hosts
         /\ IsCall(ens'[t]) /\ UNCHANGED <<disk, expired, rift>>
         /\ Looks(t) \/ Finds(t) \/ Makes(t)
<1> DEFINE e == ens[t]
           name == Head(e.left)
           got == [e.got EXCEPT ![name] = disk[name]]
           good == got.key # Ch!Missing /\ Ch!LeafCovers(got, e.hosts)
<1>1. /\ e.at = "read" /\ UNCHANGED <<disk, expired, rift>>
      /\ IF Len(e.left) > 1
         THEN ens' = [ens EXCEPT ![t].got = got, ![t].left = Tail(e.left)] /\ UNCHANGED covers
         ELSE IF good
         THEN ens' = [ens EXCEPT ![t].got = got, ![t].left = <<>>, ![t].at = "done"] /\ UNCHANGED covers
         ELSE /\ covers' = Append(covers, e.hosts)
              /\ ens' = [ens EXCEPT ![t].got = Ch!All3(Len(covers) + 1), ![t].at = "write",
                                    ![t].left = <<"key", "leaf", "ca">>]
  BY DEF Ch!Read
<1>2. /\ ens = [u \in Ch!Tasks |-> ens[u]] /\ IsCall(e)
      /\ DOMAIN e.got = Names
      /\ e.left \in {<<"ca", "leaf", "key">>, <<"leaf", "key">>, <<"key">>}
  BY <1>1 DEF ChainTyped, CallTyped, Names, IsCall
<1>3. CASE e.left = <<"ca", "leaf", "key">>
  <2>1. ens' = [ens EXCEPT ![t].got = got, ![t].left = <<"leaf", "key">>] /\ covers' = covers /\ name = "ca"
    BY <1>1, <1>3, Lists
  <2>2. got = [e.got EXCEPT !.ca = disk.ca]
    BY <2>1
  <2> HIDE DEF got, name, good
  <2>3. Looks(t)
    BY <1>1, <1>2, <1>3, <2>1, <2>2 DEF Looks, IsCall
  <2> QED BY <1>1, <1>2, <2>1, <2>3 DEF OnlyCall, IsCall
<1>4. CASE e.left = <<"leaf", "key">>
  <2>1. ens' = [ens EXCEPT ![t].got = got, ![t].left = <<"key">>] /\ covers' = covers /\ name = "leaf"
    BY <1>1, <1>4, Lists
  <2>2. got = [e.got EXCEPT !.leaf = disk.leaf]
    BY <2>1
  <2> HIDE DEF got, name, good
  <2>3. Looks(t)
    BY <1>1, <1>2, <1>4, <2>1, <2>2 DEF Looks, IsCall
  <2> QED BY <1>1, <1>2, <2>1, <2>3 DEF OnlyCall, IsCall
<1>5. CASE e.left = <<"key">>
  <2>1. name = "key" /\ ~(Len(e.left) > 1)
    BY <1>5, Lists
  <2>2. /\ got = [e.got EXCEPT !.key = disk.key]
        /\ got.key = disk.key /\ got.leaf = e.got.leaf /\ got.ca = e.got.ca
    BY <1>2, <2>1 DEF Names
  <2>3. good <=> /\ disk.key # Ch!Missing /\ e.got.leaf = e.got.ca
                 /\ e.got.leaf \in DOMAIN covers \ expired
                 /\ e.hosts \subseteq covers[e.got.leaf]
    BY <2>2 DEF Ch!LeafCovers
  <2>4. CASE good
    <3>1. ens' = [ens EXCEPT ![t].got = got, ![t].left = <<>>, ![t].at = "done"] /\ covers' = covers
      BY <1>1, <2>1, <2>4
    <3> HIDE DEF got, name, good
    <3>2. Finds(t)
      BY <1>2, <1>5, <2>2, <2>3, <2>4, <3>1 DEF Finds, IsCall
    <3> QED BY <1>1, <1>2, <3>1, <3>2 DEF OnlyCall, IsCall
  <2>5. CASE ~good
    <3>1. /\ covers' = Append(covers, e.hosts)
          /\ ens' = [ens EXCEPT ![t].got = Ch!All3(Len(covers) + 1), ![t].at = "write",
                                ![t].left = <<"key", "leaf", "ca">>]
      BY <1>1, <2>1, <2>5
    <3> HIDE DEF got, name, good
    <3>2. Makes(t)
      BY <1>2, <1>5, <2>2, <2>3, <2>5, <3>1 DEF Makes, IsCall
    <3> QED BY <1>1, <1>2, <3>1, <3>2 DEF OnlyCall, IsCall
  <2> QED BY <2>4, <2>5
<1> QED BY <1>2, <1>3, <1>4, <1>5

\* A write replaces the key, then the leaf, then the CA.
Replaces(t) ==
  \/ /\ ens[t].left = <<"key", "leaf", "ca">> /\ ens'[t].left = <<"leaf", "ca">> /\ ens'[t].at = "write"
     /\ disk' = [disk EXCEPT !.key = ens[t].got.key]
  \/ /\ ens[t].left = <<"leaf", "ca">> /\ ens'[t].left = <<"ca">> /\ ens'[t].at = "write"
     /\ disk' = [disk EXCEPT !.leaf = ens[t].got.key]
  \/ /\ ens[t].left = <<"ca">> /\ ens'[t].left = <<>> /\ ens'[t].at = "done"
     /\ disk' = [disk EXCEPT !.ca = ens[t].got.key]

LEMMA WriteDoes ==
  ASSUME ChainTyped, NEW t \in Ch!Tasks, Ch!Write(t)
  PROVE  /\ ens[t].at = "write" /\ OnlyCall(t) /\ ens'[t].hosts = ens[t].hosts /\ ens'[t].got = ens[t].got
         /\ IsCall(ens'[t]) /\ UNCHANGED <<covers, expired>>
         /\ rift \subseteq rift'
         /\ rift' = {} => \A u \in Ch!Tasks \ {t} : ens[u].at \notin {"read", "write"}
         /\ Replaces(t)
<1> DEFINE e == ens[t]
<1>1. /\ e.at = "write" /\ UNCHANGED <<covers, expired>>
      /\ disk' = [disk EXCEPT ![Head(e.left)] = e.got.key]
      /\ ens' = [ens EXCEPT ![t].left = Tail(e.left), ![t].at = IF Len(e.left) = 1 THEN "done" ELSE e.at]
      /\ rift' = IF Ch!Others(t) = {} THEN rift ELSE rift \cup {"twin"}
  BY DEF Ch!Write
<1>2. /\ ens = [u \in Ch!Tasks |-> ens[u]] /\ IsCall(e)
      /\ e.left \in {<<"key", "leaf", "ca">>, <<"leaf", "ca">>, <<"ca">>}
  BY <1>1 DEF ChainTyped, CallTyped, IsCall
<1>3. rift' = {} => \A u \in Ch!Tasks \ {t} : ens[u].at \notin {"read", "write"}
  BY <1>1 DEF Ch!Others, Ch!UnderWay
<1>4. CASE e.left = <<"key", "leaf", "ca">>
  <2>1. /\ ens' = [ens EXCEPT ![t].left = <<"leaf", "ca">>, ![t].at = e.at]
        /\ disk' = [disk EXCEPT !.key = e.got.key]
    <3>1. Head(e.left) = "key" /\ Tail(e.left) = <<"leaf", "ca">> /\ Len(e.left) = 3
      BY <1>4, Lists
    <3>2. (IF Len(e.left) = 1 THEN "done" ELSE e.at) = e.at
      BY <3>1
    <3> HIDE DEF e
    <3> QED BY <1>1, <3>1, <3>2
  <2>2. /\ ens'[t] = [e EXCEPT !.left = <<"leaf", "ca">>, !.at = e.at]
        /\ OnlyCall(t)
    BY <1>2, <2>1 DEF OnlyCall
  <2>3. /\ IsCall(ens'[t]) /\ ens'[t].hosts = e.hosts /\ ens'[t].got = e.got
        /\ ens'[t].left = <<"leaf", "ca">> /\ ens'[t].at = e.at
    BY <1>2, <2>2 DEF IsCall
  <2> QED BY <1>1, <1>3, <1>4, <2>1, <2>2, <2>3 DEF Replaces
<1>5. CASE e.left = <<"leaf", "ca">>
  <2>1. /\ ens' = [ens EXCEPT ![t].left = <<"ca">>, ![t].at = e.at]
        /\ disk' = [disk EXCEPT !.leaf = e.got.key]
    <3>1. Head(e.left) = "leaf" /\ Tail(e.left) = <<"ca">> /\ Len(e.left) = 2
      BY <1>5, Lists
    <3>2. (IF Len(e.left) = 1 THEN "done" ELSE e.at) = e.at
      BY <3>1
    <3> HIDE DEF e
    <3> QED BY <1>1, <3>1, <3>2
  <2>2. /\ ens'[t] = [e EXCEPT !.left = <<"ca">>, !.at = e.at]
        /\ OnlyCall(t)
    BY <1>2, <2>1 DEF OnlyCall
  <2>3. /\ IsCall(ens'[t]) /\ ens'[t].hosts = e.hosts /\ ens'[t].got = e.got
        /\ ens'[t].left = <<"ca">> /\ ens'[t].at = e.at
    BY <1>2, <2>2 DEF IsCall
  <2> QED BY <1>1, <1>3, <1>5, <2>1, <2>2, <2>3 DEF Replaces
<1>6. CASE e.left = <<"ca">>
  <2>1. /\ ens' = [ens EXCEPT ![t].left = <<>>, ![t].at = "done"]
        /\ disk' = [disk EXCEPT !.ca = e.got.key]
    BY <1>1, <1>6, Lists
  <2>2. /\ ens'[t] = [e EXCEPT !.left = <<>>, !.at = "done"]
        /\ OnlyCall(t)
    BY <1>2, <2>1 DEF OnlyCall
  <2>3. /\ IsCall(ens'[t]) /\ ens'[t].hosts = e.hosts /\ ens'[t].got = e.got
        /\ ens'[t].left = <<>> /\ ens'[t].at = "done"
    BY <1>2, <2>2 DEF IsCall
  <2> QED BY <1>1, <1>3, <1>6, <2>1, <2>2, <2>3 DEF Replaces
<1> QED BY <1>2, <1>4, <1>5, <1>6

LEMMA CutDoes ==
  ASSUME ChainTyped, NEW t \in Ch!Tasks, Ch!Cut(t)
  PROVE  /\ ens[t].at \in {"read", "write"} /\ OnlyCall(t) /\ UNCHANGED <<disk, covers, expired>>
         /\ ens'[t] = [ens[t] EXCEPT !.at = "failed", !.left = <<>>]
         /\ rift \subseteq rift'
         /\ rift' = {} => t \in Commands /\ ens[t].at = "read"
<1>1. /\ ens[t].at \in (IF t \in Commands THEN {"read", "write"} ELSE {"write"})
      /\ ens' = [ens EXCEPT ![t].at = "failed", ![t].left = <<>>]
      /\ rift' = IF ens[t].at = "write" THEN rift \cup {"cut"} ELSE rift
      /\ UNCHANGED <<disk, covers, expired>>
  BY DEF Ch!Cut
<1>2. ens = [u \in Ch!Tasks |-> ens[u]]
  BY DEF ChainTyped
<1> QED BY <1>1, <1>2 DEF OnlyCall

\* A chain more takes nothing from what there is.
LEMMA OneMore ==
  ASSUME NEW cv \in Seq(SUBSET AllHosts), NEW h \in SUBSET AllHosts
  PROVE  /\ Append(cv, h) \in Seq(SUBSET AllHosts) /\ Len(cv) \in Nat
         /\ DOMAIN cv = 1..Len(cv) /\ DOMAIN Append(cv, h) = 1..(Len(cv) + 1)
         /\ Append(cv, h)[Len(cv) + 1] = h
         /\ \A n \in DOMAIN cv : n \in DOMAIN Append(cv, h) /\ Append(cv, h)[n] = cv[n]
BY AppendProperties, LenProperties

LEMMA CallStays ==
  ASSUME NEW cv \in Seq(SUBSET AllHosts), NEW h \in SUBSET AllHosts, NEW e, CallTyped(e, cv)
  PROVE  CallTyped(e, Append(cv, h))
BY OneMore DEF CallTyped, Contents, Chains

\* What a step of a call leaves of the types.
LEMMA CallsTyped ==
  ASSUME ChainTyped, UNCHANGED <<cache, cl>>,
         covers' = covers \/ \E h \in SUBSET AllHosts : Basic \subseteq h /\ covers' = Append(covers, h),
         ens' = [u \in Ch!Tasks |-> ens'[u]],
         \A u \in Ch!Tasks : /\ CallTyped(ens'[u], covers') /\ ens'[u].hosts = ens[u].hosts
                             /\ ens'[u].at = "idle" <=> ens[u].at = "idle",
         disk' \in [ca : Contents(covers'), leaf : Contents(covers'), key : Contents(covers')]
  PROVE  ChainTyped'
<1>1. covers \in Seq(SUBSET AllHosts) /\ \A n \in DOMAIN covers : Basic \subseteq covers[n]
  BY DEF ChainTyped
<1>2. /\ covers' \in Seq(SUBSET AllHosts) /\ \A n \in DOMAIN covers' : Basic \subseteq covers'[n]
      /\ DOMAIN covers \subseteq DOMAIN covers'
  <2>1. CASE covers' = covers
    BY <1>1, <2>1
  <2>2. ASSUME NEW h \in SUBSET AllHosts, Basic \subseteq h, covers' = Append(covers, h)
        PROVE  /\ covers' \in Seq(SUBSET AllHosts) /\ \A n \in DOMAIN covers' : Basic \subseteq covers'[n]
               /\ DOMAIN covers \subseteq DOMAIN covers'
    <3>1. /\ covers' \in Seq(SUBSET AllHosts) /\ Len(covers) \in Nat
          /\ DOMAIN covers = 1..Len(covers) /\ DOMAIN covers' = 1..(Len(covers) + 1)
          /\ covers'[Len(covers) + 1] = h
          /\ \A n \in DOMAIN covers : n \in DOMAIN covers' /\ covers'[n] = covers[n]
      BY <1>1, <2>2, OneMore
    <3>2. \A n \in DOMAIN covers' : n \in DOMAIN covers \/ n = Len(covers) + 1
      BY <3>1
    <3>3. \A n \in DOMAIN covers' : Basic \subseteq covers'[n]
      BY <1>1, <2>2, <3>1, <3>2
    <3> QED BY <3>1, <3>3
  <2> QED BY <2>1, <2>2
<1>3. cache' \in Chains(covers')
  BY <1>2 DEF ChainTyped, Chains
<1>4. \A c \in Clients : Cli(c) \in Ch!Tasks /\ Srv(c) \in Ch!Tasks
  BY DEF Ch!Tasks, Commands, Handlers
<1>5. \A c \in Clients : ClientPlaced(c)' /\ cl'[c].pc \in Places
  BY <1>2, <1>4 DEF ChainTyped, ClientPlaced
<1>6. \A t \in Commands : ens'[t].at # "idle" => ens'[t].hosts = Basic
  BY DEF ChainTyped, Ch!Tasks
<1> QED BY <1>2, <1>3, <1>5, <1>6 DEF ChainTyped

LEMMA ReadTyped ==
  ASSUME ChainTyped, NEW t \in Ch!Tasks, Ch!Read(t), UNCHANGED <<cache, cl>>
  PROVE  ChainTyped'
<1>1. /\ ens[t].at = "read" /\ OnlyCall(t) /\ ens'[t].hosts = ens[t].hosts
      /\ IsCall(ens'[t]) /\ UNCHANGED <<disk, rift>>
      /\ Looks(t) \/ Finds(t) \/ Makes(t)
  BY ReadDoes
<1>2. CallTyped(ens[t], covers) /\ covers \in Seq(SUBSET AllHosts)
  BY DEF ChainTyped
<1>3. ens[t].hosts \in SUBSET AllHosts /\ Basic \subseteq ens[t].hosts
  BY <1>1, <1>2 DEF CallTyped
<1>4. /\ covers' = covers \/ covers' = Append(covers, ens[t].hosts)
      /\ \A u \in Ch!Tasks \ {t} : CallTyped(ens'[u], covers')
      /\ disk' \in [ca : Contents(covers'), leaf : Contents(covers'), key : Contents(covers')]
  <2>1. \A u \in Ch!Tasks \ {t} : ens'[u] = ens[u] /\ CallTyped(ens[u], covers)
    BY <1>1 DEF OnlyCall, ChainTyped
  <2>2. disk \in [ca : Contents(covers), leaf : Contents(covers), key : Contents(covers)]
    BY DEF ChainTyped
  <2>3. CASE covers' = covers
    BY <1>1, <2>1, <2>2, <2>3
  <2>4. CASE covers' = Append(covers, ens[t].hosts)
    <3>1. Contents(covers) \subseteq Contents(covers')
      BY <1>2, <1>3, <2>4, OneMore DEF Contents, Chains
    <3>2. \A u \in Ch!Tasks \ {t} : CallTyped(ens'[u], covers')
      BY <1>2, <1>3, <2>1, <2>4, CallStays
    <3> QED BY <1>1, <2>2, <2>4, <3>1, <3>2
  <2> QED BY <1>1, <2>3, <2>4 DEF Looks, Finds, Makes
<1>5. CallTyped(ens'[t], covers') /\ ens'[t].at # "idle"
  <2>1. disk.ca \in Contents(covers) /\ disk.leaf \in Contents(covers) /\ disk.key \in Contents(covers)
    BY DEF ChainTyped
  <2>2. CASE Looks(t)
    <3>1. ens'[t].got \in [ca : Contents(covers), leaf : Contents(covers), key : Contents(covers)]
      BY <1>2, <2>1, <2>2 DEF Looks, CallTyped
    <3> QED BY <1>1, <1>3, <2>2, <3>1 DEF Looks, CallTyped, IsCall
  <2>3. CASE Finds(t)
    <3>1. ens'[t].got \in [ca : Contents(covers), leaf : Contents(covers), key : Contents(covers)]
      BY <1>2, <2>1, <2>3 DEF Finds, CallTyped
    <3>2. ens'[t].got.leaf = ens[t].got.leaf
      BY <1>2, <2>3 DEF Finds, CallTyped
    <3> QED BY <1>1, <1>3, <2>3, <3>1, <3>2 DEF Finds, CallTyped, IsCall
  <2>4. CASE Makes(t)
    <3> DEFINE n == Len(covers) + 1
    <3>1. n \in DOMAIN covers' /\ covers'[n] = ens[t].hosts /\ n \in Contents(covers')
      BY <1>2, <1>3, <2>4, OneMore DEF Makes, Contents, Chains
    <3>2. /\ ens'[t].at = "write" /\ ens'[t].left = <<"key", "leaf", "ca">> /\ ens'[t].got = Ch!All3(n)
      BY <2>4 DEF Makes
    <3> HIDE DEF n
    <3>3. ens'[t].got \in [ca : Contents(covers'), leaf : Contents(covers'), key : Contents(covers')]
          /\ ens'[t].got.leaf = n /\ ens'[t].got.key = n
      BY <3>1, <3>2 DEF Ch!All3
    <3> QED BY <1>1, <1>3, <3>1, <3>2, <3>3 DEF CallTyped, IsCall
  <2> QED BY <1>1, <2>2, <2>3, <2>4
<1> QED BY <1>1, <1>3, <1>4, <1>5, CallsTyped DEF OnlyCall

LEMMA WriteTyped ==
  ASSUME ChainTyped, NEW t \in Ch!Tasks, Ch!Write(t), UNCHANGED <<cache, cl>>
  PROVE  ChainTyped'
<1>1. /\ ens[t].at = "write" /\ OnlyCall(t) /\ ens'[t].hosts = ens[t].hosts /\ ens'[t].got = ens[t].got
      /\ IsCall(ens'[t]) /\ covers' = covers /\ Replaces(t)
  BY WriteDoes
<1>2. CallTyped(ens[t], covers)
  BY DEF ChainTyped
<1>3. CallTyped(ens'[t], covers) /\ ens'[t].at # "idle"
  BY <1>1, <1>2 DEF Replaces, CallTyped, IsCall
<1>4. disk' \in [ca : Contents(covers), leaf : Contents(covers), key : Contents(covers)]
  <2>1. ens[t].got.key \in Contents(covers)
    BY <1>2 DEF CallTyped
  <2> QED BY <1>1, <2>1 DEF Replaces, ChainTyped
<1>5. \A u \in Ch!Tasks : /\ CallTyped(ens'[u], covers') /\ ens'[u].hosts = ens[u].hosts
                          /\ ens'[u].at = "idle" <=> ens[u].at = "idle"
  BY <1>1, <1>3 DEF OnlyCall, ChainTyped
<1> QED BY <1>1, <1>4, <1>5, CallsTyped DEF OnlyCall

\* A call that ended without a chain.
LEMMA FailedIs ==
  ASSUME NEW e, NEW cv, CallTyped(e, cv), e.at # "idle"
  PROVE  /\ CallTyped([e EXCEPT !.at = "failed", !.left = <<>>], cv)
         /\ [e EXCEPT !.at = "failed", !.left = <<>>].hosts = e.hosts
         /\ [e EXCEPT !.at = "failed", !.left = <<>>].at = "failed"
BY DEF CallTyped

LEMMA CutTyped ==
  ASSUME ChainTyped, NEW t \in Ch!Tasks, Ch!Cut(t), UNCHANGED <<cache, cl>>
  PROVE  ChainTyped'
<1>1. /\ ens[t].at \in {"read", "write"} /\ OnlyCall(t) /\ UNCHANGED <<disk, covers>>
      /\ ens'[t] = [ens[t] EXCEPT !.at = "failed", !.left = <<>>]
  BY CutDoes
<1>2. CallTyped(ens'[t], covers) /\ ens'[t].hosts = ens[t].hosts /\ ens'[t].at = "failed"
  <2> DEFINE f == [ens[t] EXCEPT !.at = "failed", !.left = <<>>]
  <2>1. CallTyped(ens[t], covers) /\ ens[t].at # "idle"
    BY <1>1 DEF ChainTyped
  <2>2. CallTyped(f, covers) /\ f.hosts = ens[t].hosts /\ f.at = "failed"
    BY <2>1, FailedIs
  <2>3. ens'[t] = f
    BY <1>1
  <2> QED BY <2>2, <2>3
<1>3. \A u \in Ch!Tasks : /\ CallTyped(ens'[u], covers') /\ ens'[u].hosts = ens[u].hosts
                          /\ ens'[u].at = "idle" <=> ens[u].at = "idle"
  BY <1>1, <1>2 DEF OnlyCall, ChainTyped
<1>4. disk' \in [ca : Contents(covers'), leaf : Contents(covers'), key : Contents(covers')]
  BY <1>1 DEF ChainTyped
<1> QED BY <1>1, <1>3, <1>4, CallsTyped DEF OnlyCall

\* A call after it has written the file it was at.
LEMMA WroteIs ==
  ASSUME NEW e, NEW cv, CallTyped(e, cv), e.at = "write"
  PROVE  LET f == [e EXCEPT !.left = Tail(e.left), !.at = IF Len(e.left) = 1 THEN "done" ELSE e.at]
         IN  CallTyped(f, cv) /\ f.hosts = e.hosts /\ f.at # "idle"
<1> DEFINE f == [e EXCEPT !.left = Tail(e.left), !.at = IF Len(e.left) = 1 THEN "done" ELSE e.at]
<1>1. e.left \in {<<"key", "leaf", "ca">>, <<"leaf", "ca">>, <<"ca">>}
  BY DEF CallTyped
<1>2. CASE e.left = <<"key", "leaf", "ca">>
  <2>1. f = [e EXCEPT !.left = <<"leaf", "ca">>, !.at = "write"]
    BY <1>2, Lists
  <2> QED BY <2>1 DEF CallTyped
<1>3. CASE e.left = <<"leaf", "ca">>
  <2>1. f = [e EXCEPT !.left = <<"ca">>, !.at = "write"]
    BY <1>3, Lists
  <2> QED BY <2>1 DEF CallTyped
<1>4. CASE e.left = <<"ca">>
  <2>1. f = [e EXCEPT !.left = <<>>, !.at = "done"]
    BY <1>4, Lists
  <2> QED BY <2>1 DEF CallTyped
<1> QED BY <1>1, <1>2, <1>3, <1>4

LEMMA ClashTyped ==
  ASSUME ChainTyped, NEW t \in Ch!Tasks, Ch!Clash(t), UNCHANGED <<cache, cl>>
  PROVE  ChainTyped'
<1>1. ens[t].at = "write" /\ covers' = covers
  BY DEF Ch!Clash
<1>2. PICK u \in Handlers \ {t} :
        /\ ens[u].at = "write"
        /\ \E n \in {ens[u].got.key, Ch!Torn}
                    \cup (IF Head(ens[u].left) = Head(ens[t].left) THEN {ens[t].got.key} ELSE {}) :
              /\ disk' = [disk EXCEPT ![Head(ens[u].left)] = n]
              /\ ens' = [ens EXCEPT ![t].at = "failed", ![t].left = <<>>,
                                    ![u].left = Tail(ens[u].left),
                                    ![u].at = IF Len(ens[u].left) = 1 THEN "done" ELSE ens[u].at]
  BY DEF Ch!Clash
<1>3. PICK n \in {ens[u].got.key, ens[t].got.key, Ch!Torn} :
        /\ disk' = [disk EXCEPT ![Head(ens[u].left)] = n]
        /\ ens' = [ens EXCEPT ![t].at = "failed", ![t].left = <<>>,
                              ![u].left = Tail(ens[u].left),
                              ![u].at = IF Len(ens[u].left) = 1 THEN "done" ELSE ens[u].at]
  BY <1>2
<1>4. CallTyped(ens[t], covers) /\ CallTyped(ens[u], covers) /\ u \in Ch!Tasks
  BY DEF ChainTyped, Ch!Tasks
<1> DEFINE e == [ens[t] EXCEPT !.at = "failed", !.left = <<>>]
           f == [ens[u] EXCEPT !.left = Tail(ens[u].left),
                               !.at = IF Len(ens[u].left) = 1 THEN "done" ELSE ens[u].at]
<1>5. /\ ens' = [v \in Ch!Tasks |-> ens'[v]] /\ ens'[t] = e /\ ens'[u] = f
      /\ \A v \in Ch!Tasks \ {t, u} : ens'[v] = ens[v]
  <2>1. ens = [v \in Ch!Tasks |-> ens[v]] /\ u # t
    BY <1>2 DEF ChainTyped
  <2>2. ens' = [[ens EXCEPT ![t] = e] EXCEPT ![u] = f]
    BY <1>3, <1>4, <2>1
  <2> HIDE DEF e, f
  <2> QED BY <1>4, <2>1, <2>2
<1>6. CallTyped(e, covers) /\ e.hosts = ens[t].hosts /\ e.at # "idle"
  BY <1>1, <1>4, FailedIs
<1>7. CallTyped(f, covers) /\ f.hosts = ens[u].hosts /\ f.at # "idle"
  BY <1>2, <1>4, WroteIs
<1> HIDE DEF e, f
<1>8. \A v \in Ch!Tasks : /\ CallTyped(ens'[v], covers') /\ ens'[v].hosts = ens[v].hosts
                          /\ ens'[v].at = "idle" <=> ens[v].at = "idle"
  <2> TAKE v \in Ch!Tasks
  <2>1. CASE v = t
    BY <1>1, <1>5, <1>6, <2>1
  <2>2. CASE v = u
    BY <1>1, <1>2, <1>5, <1>7, <2>2
  <2>3. CASE v \notin {t, u}
    BY <1>1, <1>5, <2>3 DEF ChainTyped
  <2> QED BY <2>1, <2>2, <2>3
<1>9. disk' \in [ca : Contents(covers'), leaf : Contents(covers'), key : Contents(covers')]
  <2>1. n \in Contents(covers)
    BY <1>3, <1>4 DEF CallTyped, Contents
  <2>2. Head(ens[u].left) \in Names
    BY <1>2, <1>4, Lists DEF CallTyped, Names
  <2> QED BY <1>1, <1>3, <2>1, <2>2 DEF ChainTyped, Names
<1> QED BY <1>1, <1>5, <1>8, <1>9, CallsTyped

\* Every call is of one client, or of the server's start.
LEMMA CallNames ==
  /\ \A c \in Clients : Cli(c) \in Commands /\ Srv(c) \in Handlers
  /\ Srv(Daemon) \in Handlers /\ Ch!Tasks = Commands \cup Handlers
  /\ \A c \in Clients : Srv(c) # Srv(Daemon)
  /\ \A c, d \in Clients : c # d => Cli(c) # Cli(d) /\ Srv(c) # Srv(d)
  /\ \A t \in Commands, u \in Handlers : t # u
  /\ \A t \in Handlers : t = Srv(Daemon) \/ \E c \in Clients : t = Srv(c)
<1>1. \A c, d \in Clients \cup {Daemon} : /\ c # d => Cli(c) # Cli(d) /\ Srv(c) # Srv(d)
                                          /\ Cli(c) # Srv(d)
  BY DEF Cli, Srv
<1> QED BY <1>1, DaemonAssumption DEF Commands, Handlers, Ch!Tasks

LEMMA AskingIs ==
  ASSUME NEW h \in SUBSET AllHosts, "anthropic" \in h, NEW cv
  PROVE  /\ CallTyped(Ch!Asking(h), cv) /\ Ch!Asking(h).at = "read" /\ Ch!Asking(h).hosts = h \cup {TestHost}
         /\ Ch!Asking(h).left = <<"ca", "leaf", "key">>
BY DEF Ch!Asking, CallTyped, AllHosts, Basic, Ch!All3, Contents, Chains

LEMMA IdleIs ==
  ASSUME NEW cv
  PROVE  CallTyped(Ch!Idle, cv) /\ Ch!Idle.at = "idle"
BY DEF Ch!Idle, CallTyped, Ch!All3, Contents, Chains

LEMMA HostsGiven ==
  ASSUME NEW doc
  PROVE  InterceptHosts(doc) \in SUBSET AllHosts /\ "anthropic" \in InterceptHosts(doc)
BY DEF InterceptHosts, AllHosts

\* A step that makes or ends no call.
LEMMA ChainStays ==
  ASSUME ChainTyped, Good', UNCHANGED <<disk, covers, ens>>, cache' \in Chains(covers),
         \A c \in Clients : /\ cl'[c].pc = "start" => cl[c].pc = "start"
                            /\ cl'[c].pc = "mint" <=> cl[c].pc = "mint"
                            /\ cl'[c].pc = "shake" => cl'[c].chain \in DOMAIN covers
  PROVE  ChainTyped'
<1>1. \A c \in Clients : cl'[c].pc \in Places
  BY DEF Good, Wired, ClientsTyped, IsClient
<1>2. \A c \in Clients : ClientPlaced(c)'
  BY DEF ChainTyped, ClientPlaced
<1> QED BY <1>1, <1>2 DEF ChainTyped

\* A step that makes or ends one.
LEMMA CallChanges ==
  ASSUME ChainTyped, Good', UNCHANGED <<disk, covers>>, cache' \in Chains(covers),
         NEW t \in Ch!Tasks, NEW e, ens' = [ens EXCEPT ![t] = e], CallTyped(e, covers),
         t \in Commands /\ e.at # "idle" => e.hosts = Basic, \A c \in Clients : ClientPlaced(c)'
  PROVE  ChainTyped'
<1>1. \A c \in Clients : cl'[c].pc \in Places
  BY DEF Good, Wired, ClientsTyped, IsClient
<1>2. /\ ens' = [u \in Ch!Tasks |-> ens'[u]] /\ \A u \in Ch!Tasks : CallTyped(ens'[u], covers)
      /\ \A u \in Commands : ens'[u].at # "idle" => ens'[u].hosts = Basic
  BY CallNames DEF ChainTyped
<1> QED BY <1>1, <1>2 DEF ChainTyped

LEMMA LaunchTyped ==
  ASSUME ChainTyped, Good, Good', NEW c \in Clients, Launch(c)
  PROVE  ChainTyped'
<1>1. /\ UNCHANGED <<cache, disk, covers>> /\ cl[c].pc = "start"
      /\ cl'[c].pc = (IF Want(c).mitm THEN "ensure" ELSE "ready") /\ \A d \in Clients \ {c} : cl'[d] = cl[d]
  <2>1. IsClient(cl[c]) /\ cl = [d \in Clients |-> cl[d]]
    BY DEF Good, Wired, ClientsTyped
  <2> QED BY <2>1 DEF Launch, IsClient
<1>2. CASE ~Want(c).mitm
  <2>1. ens' = ens
    BY <1>2 DEF Launch
  <2> QED BY <1>1, <2>1, ChainStays DEF ChainTyped, ClientPlaced
<1>3. CASE Want(c).mitm
  <2> DEFINE e == Ch!Asking({"anthropic"})
  <2>1. ens' = [ens EXCEPT ![Cli(c)] = e]
    BY <1>3 DEF Launch
  <2>2. CallTyped(e, covers) /\ e.at = "read" /\ e.hosts = Basic
    BY AskingIs DEF AllHosts, Basic
  <2> HIDE DEF e
  <2>3. \A d \in Clients : ClientPlaced(d)'
    <3>1. ens = [u \in Ch!Tasks |-> ens[u]] /\ \A d \in Clients : ClientPlaced(d)
      BY DEF ChainTyped
    <3>2. /\ \A d \in Clients : ens'[Srv(d)] = ens[Srv(d)]
          /\ \A d \in Clients \ {c} : ens'[Cli(d)] = ens[Cli(d)]
      BY <2>1, <3>1, CallNames
    <3> QED BY <1>1, <1>3, <3>1, <3>2 DEF ClientPlaced
  <2> QED BY <1>1, <2>1, <2>2, <2>3, CallNames, CallChanges DEF ChainTyped
<1> QED BY <1>2, <1>3

LEMMA ConnectTyped ==
  ASSUME ChainTyped, Good, Good', NEW c \in Clients, Connect(c)
  PROVE  ChainTyped'
<1>1. /\ UNCHANGED <<cache, disk, covers>> /\ cl[c].pc = "ready" /\ \A d \in Clients \ {c} : cl'[d] = cl[d]
      /\ IF ~Admits(c) THEN cl'[c].pc = "failed" /\ ens' = ens
         ELSE /\ cl'[c].chain = cache /\ cl'[c].pc = (IF cache = Ch!Missing THEN "mint" ELSE "shake")
              /\ ens' = IF cache # Ch!Missing THEN ens
                        ELSE [ens EXCEPT ![Srv(c)] = Ch!Asking(InterceptHosts(live))]
  <2> DEFINE next == IF cache = Ch!Missing THEN "mint" ELSE "shake"
             calls == IF cache # Ch!Missing THEN ens
                      ELSE [ens EXCEPT ![Srv(c)] = Ch!Asking(InterceptHosts(live))]
  <2>1. IsClient(cl[c]) /\ cl = [d \in Clients |-> cl[d]]
    BY DEF Good, Wired, ClientsTyped
  <2>2. /\ UNCHANGED <<cache, disk, covers>> /\ cl[c].pc = "ready"
        /\ IF ~Admits(c) THEN cl' = [cl EXCEPT ![c].pc = "failed"] /\ ens' = ens
           ELSE /\ cl' = [cl EXCEPT ![c].tunnel = TunnelPool(c), ![c].chain = cache, ![c].pc = next]
                /\ ens' = calls
    BY DEF Connect
  <2> HIDE DEF next, calls
  <2>3. CASE ~Admits(c)
    BY <2>1, <2>2, <2>3 DEF IsClient
  <2>4. CASE Admits(c)
    <3>1. /\ cl'[c] = [cl[c] EXCEPT !.tunnel = TunnelPool(c), !.chain = cache, !.pc = next]
          /\ ens' = calls /\ \A d \in Clients \ {c} : cl'[d] = cl[d]
      BY <2>1, <2>2, <2>4
    <3>2. cl'[c].chain = cache /\ cl'[c].pc = next
      BY <2>1, <3>1 DEF IsClient
    <3> QED BY <2>2, <2>4, <3>1, <3>2 DEF next, calls
  <2> QED BY <2>3, <2>4
<1>2. CASE ~Admits(c) \/ cache # Ch!Missing
  BY <1>1, <1>2, ChainStays DEF ChainTyped, ClientPlaced, Chains
<1>3. CASE Admits(c) /\ cache = Ch!Missing
  <2> DEFINE e == Ch!Asking(InterceptHosts(live))
  <2>1. ens' = [ens EXCEPT ![Srv(c)] = e] /\ cl'[c].pc = "mint"
    BY <1>1, <1>3
  <2>2. CallTyped(e, covers) /\ e.at = "read"
    BY AskingIs, HostsGiven
  <2> HIDE DEF e
  <2>3. \A d \in Clients : ClientPlaced(d)'
    <3>1. ens = [u \in Ch!Tasks |-> ens[u]] /\ \A d \in Clients : ClientPlaced(d)
      BY DEF ChainTyped
    <3>2. /\ \A d \in Clients : ens'[Cli(d)] = ens[Cli(d)] /\ ens'[Srv(c)] = e
          /\ \A d \in Clients \ {c} : ens'[Srv(d)] = ens[Srv(d)]
      BY <2>1, <3>1, CallNames
    <3> QED BY <1>1, <2>1, <2>2, <3>1, <3>2 DEF ClientPlaced
  <2> QED BY <1>1, <2>1, <2>2, <2>3, CallNames, CallChanges DEF ChainTyped
<1> QED BY <1>2, <1>3

\* The end of a call of the server: the copy is the chain it got, or stays.
Copied(t) == ens[t].at = "done" /\ ens[t].got.key = ens[t].got.leaf

LEMMA MintedDoes ==
  ASSUME ChainTyped, NEW t \in Handlers, Minted(t)
  PROVE  /\ UNCHANGED <<disk, covers, expired, rift, past, op, live, file>> /\ ens[t].at \in {"done", "failed"}
         /\ ens' = [ens EXCEPT ![t] = Ch!Idle] /\ OnlyCall(t) /\ ens'[t].at = "idle"
         /\ cache' = IF Copied(t) THEN ens[t].got.leaf ELSE cache
         /\ cache' \in Chains(covers)
         /\ Copied(t) => ens[t].got.leaf \in DOMAIN covers
<1>1. /\ UNCHANGED <<disk, covers, expired, rift, past, op, live, file>> /\ ens[t].at \in {"done", "failed"}
      /\ ens' = [ens EXCEPT ![t] = Ch!Idle]
      /\ cache' = IF Copied(t) THEN ens[t].got.leaf ELSE cache
  BY DEF Minted, Ch!Ended, Copied
<1>2. Copied(t) => ens[t].got.leaf \in DOMAIN covers
  BY CallNames DEF Copied, ChainTyped, CallTyped
<1>3. cache' \in Chains(covers)
  BY <1>1, <1>2 DEF ChainTyped, Chains
<1>4. OnlyCall(t) /\ ens'[t].at = "idle"
  BY <1>1, CallNames, IdleIs DEF OnlyCall, ChainTyped
<1> QED BY <1>1, <1>2, <1>3, <1>4

LEMMA MintDoes ==
  ASSUME Good, NEW c \in Clients, Mint(c)
  PROVE  /\ cl[c].pc = "mint" /\ Minted(Srv(c)) /\ \A d \in Clients \ {c} : cl'[d] = cl[d]
         /\ cl'[c].ca = cl[c].ca /\ cl'[c].want = cl[c].want
         /\ IF Copied(Srv(c)) THEN cl'[c].pc = "shake" /\ cl'[c].chain = ens[Srv(c)].got.leaf
                              ELSE cl'[c].pc = "refused"
<1>1. IsClient(cl[c]) /\ cl = [d \in Clients |-> cl[d]]
  BY DEF Good, Wired, ClientsTyped
<1>2. /\ cl[c].pc = "mint" /\ Minted(Srv(c))
      /\ cl' = IF Copied(Srv(c)) THEN [cl EXCEPT ![c].pc = "shake", ![c].chain = ens[Srv(c)].got.leaf]
               ELSE [cl EXCEPT ![c].pc = "refused"]
  BY DEF Mint, Copied
<1>3. CASE Copied(Srv(c))
  BY <1>1, <1>2, <1>3 DEF IsClient
<1>4. CASE ~Copied(Srv(c))
  BY <1>1, <1>2, <1>4 DEF IsClient
<1> QED BY <1>2, <1>3, <1>4

LEMMA MintTyped ==
  ASSUME ChainTyped, Good, Good', PreMint \/ \E c \in Clients : Mint(c)
  PROVE  ChainTyped'
<1>1. CASE PreMint
  <2>1. Minted(Srv(Daemon)) /\ cl' = cl
    BY <1>1 DEF PreMint
  <2>2. /\ UNCHANGED <<disk, covers>> /\ ens' = [ens EXCEPT ![Srv(Daemon)] = Ch!Idle] /\ OnlyCall(Srv(Daemon))
        /\ cache' \in Chains(covers)
    BY <2>1, CallNames, MintedDoes
  <2>3. \A d \in Clients : ens'[Cli(d)] = ens[Cli(d)] /\ ens'[Srv(d)] = ens[Srv(d)]
    BY <2>2, CallNames DEF OnlyCall
  <2>4. \A d \in Clients : ClientPlaced(d)'
    BY <2>1, <2>2, <2>3 DEF ChainTyped, ClientPlaced
  <2> QED BY <2>2, <2>4, CallNames, IdleIs, CallChanges
<1>2. ASSUME NEW c \in Clients, Mint(c) PROVE ChainTyped'
  <2>1. /\ UNCHANGED <<disk, covers>> /\ ens' = [ens EXCEPT ![Srv(c)] = Ch!Idle] /\ OnlyCall(Srv(c))
        /\ cache' \in Chains(covers) /\ ens'[Srv(c)].at = "idle"
        /\ Copied(Srv(c)) => ens[Srv(c)].got.leaf \in DOMAIN covers
    BY <1>2, CallNames, MintDoes, MintedDoes
  <2>2. /\ cl[c].pc = "mint" /\ \A d \in Clients \ {c} : cl'[d] = cl[d]
        /\ IF Copied(Srv(c)) THEN cl'[c].pc = "shake" /\ cl'[c].chain = ens[Srv(c)].got.leaf
                             ELSE cl'[c].pc = "refused"
    BY <1>2, MintDoes
  <2>3. /\ \A d \in Clients : ens'[Cli(d)] = ens[Cli(d)]
        /\ \A d \in Clients \ {c} : ens'[Srv(d)] = ens[Srv(d)]
    BY <2>1, CallNames DEF OnlyCall
  <2>4. \A d \in Clients : ClientPlaced(d)'
    BY <2>1, <2>2, <2>3 DEF ChainTyped, ClientPlaced
  <2> QED BY <2>1, <2>4, CallNames, IdleIs, CallChanges
<1> QED BY <1>1, <1>2

\* What a restart leaves of the calls and the clients.
LEMMA RestartDoes ==
  ASSUME Good, ChainTyped, Restart
  PROVE  /\ UNCHANGED <<file, disk, covers, expired, past>> /\ cache' = Ch!Missing /\ live' = file
         /\ ens' = [t \in Ch!Tasks |-> ens'[t]]
         /\ ens'[Srv(Daemon)] = Ch!Asking(InterceptHosts(file))
         /\ \A c \in Clients : ens'[Srv(c)] = Ch!Idle
         /\ \A t \in Commands : ens'[t] = ens[t]
         /\ \A c \in Clients : /\ cl'[c].want = cl[c].want /\ cl'[c].ca = cl[c].ca
                               /\ cl'[c].pc = "start" <=> cl[c].pc = "start"
                               /\ cl'[c].pc \notin {"mint", "shake", "refused"}
         /\ rift' = {} => rift = {} /\ \A t \in Handlers : ens[t].at # "write"
<1>1. /\ UNCHANGED <<file, disk, covers, expired, past>> /\ cache' = Ch!Missing /\ live' = file
      /\ ens' = [t \in Ch!Tasks |-> IF t = Srv(Daemon) THEN Ch!Asking(InterceptHosts(file))
                                    ELSE IF t \in Handlers THEN Ch!Idle ELSE ens[t]]
      /\ rift' = IF \E t \in Handlers : ens[t].at = "write" THEN rift \cup {"cut"} ELSE rift
  BY DEF Restart
<1>2. \A c \in Clients : /\ cl'[c].want = cl[c].want /\ cl'[c].ca = cl[c].ca
                         /\ cl'[c].pc = "start" <=> cl[c].pc = "start"
                         /\ cl'[c].pc \notin {"mint", "shake", "refused"}
  <2> TAKE c \in Clients
  <2>1. cl'[c] = IF cl[c].pc \notin {"mint", "shake", "open", "body", "refused"} THEN cl[c]
                 ELSE [cl[c] EXCEPT !.pc = "ready", !.mgr = 0, !.chain = Ch!Missing]
    BY DEF Restart
  <2>2. IsClient(cl[c])
    BY DEF Good, Wired, ClientsTyped
  <2> QED BY <2>1, <2>2 DEF IsClient
<1>3. rift' = {} => rift = {} /\ \A t \in Handlers : ens[t].at # "write"
  BY <1>1
<1> QED BY <1>1, <1>2, <1>3, CallNames

LEMMA RestartTyped ==
  ASSUME ChainTyped, Good, Good', Restart
  PROVE  ChainTyped'
<1>1. /\ UNCHANGED <<disk, covers>> /\ cache' = Ch!Missing /\ ens' = [t \in Ch!Tasks |-> ens'[t]]
      /\ ens'[Srv(Daemon)] = Ch!Asking(InterceptHosts(file))
      /\ \A c \in Clients : ens'[Srv(c)] = Ch!Idle
      /\ \A t \in Commands : ens'[t] = ens[t]
      /\ \A c \in Clients : /\ cl'[c].pc = "start" <=> cl[c].pc = "start"
                            /\ cl'[c].pc \notin {"mint", "shake", "refused"}
  BY RestartDoes
<1>2. \A t \in Ch!Tasks : CallTyped(ens'[t], covers)
  <2>1. CallTyped(Ch!Asking(InterceptHosts(file)), covers) /\ CallTyped(Ch!Idle, covers)
    BY AskingIs, HostsGiven, IdleIs
  <2>2. \A t \in Commands : CallTyped(ens'[t], covers)
    BY <1>1, CallNames DEF ChainTyped
  <2>3. \A t \in Handlers : CallTyped(ens'[t], covers)
    BY <1>1, <2>1, CallNames
  <2> QED BY <2>2, <2>3, CallNames
<1>3. \A c \in Clients : ClientPlaced(c)'
  BY <1>1, CallNames, IdleIs DEF ChainTyped, ClientPlaced
<1>4. \A c \in Clients : cl'[c].pc \in Places
  BY DEF Good, Wired, ClientsTyped, IsClient
<1> QED BY <1>1, <1>2, <1>3, <1>4 DEF ChainTyped, Chains

\* The steps that make and end no call.
Quiet == \/ \E c \in Clients : Trust(c) \/ Pass(c) \/ Refused(c) \/ Shake(c) \/ Arrive(c) \/ Serve(c)
         \/ Edit \/ Rekey \/ SyncPools \/ Publish \/ DropChain \/ LookUp \/ SwitchTo \/ SetRoutePin
         \/ UNCHANGED vars

LEMMA QuietDoes ==
  ASSUME Good, Quiet
  PROVE  /\ UNCHANGED <<disk, covers, expired, ens, rift>> /\ cache' \in {cache, Ch!Missing}
         /\ \A c \in Clients : /\ cl'[c].want = cl[c].want /\ cl'[c].chain = cl[c].chain
                               /\ cl'[c].ca = disk.ca \/ cl'[c].ca = cl[c].ca
                               /\ cl'[c].pc \in {"start", "mint", "shake", "refused"} => cl'[c].pc = cl[c].pc
                               /\ cl[c].pc = "mint" => cl'[c].pc = "mint"
                               /\ cl'[c].pc = "shake" => cl'[c].ca = cl[c].ca
<1> DEFINE P(c) == /\ cl'[c].want = cl[c].want /\ cl'[c].chain = cl[c].chain
                   /\ cl'[c].ca = disk.ca \/ cl'[c].ca = cl[c].ca
                   /\ cl'[c].pc \in {"start", "mint", "shake", "refused"} => cl'[c].pc = cl[c].pc
                   /\ cl[c].pc = "mint" => cl'[c].pc = "mint"
                   /\ cl'[c].pc = "shake" => cl'[c].ca = cl[c].ca
<1>1. cl = [d \in Clients |-> cl[d]] /\ \A d \in Clients : IsClient(cl[d])
  BY DEF Good, Wired, ClientsTyped
<1>2. UNCHANGED <<disk, covers, expired, ens, rift>> /\ cache' \in {cache, Ch!Missing}
  BY DEF Quiet, Trust, Pass, Refused, Shake, Arrive, Serve, Edit, Rekey, SyncPools, Publish, DropChain, LookUp,
         SwitchTo, SetRoutePin, chain, vars
<1>3. ASSUME NEW c \in Clients, Trust(c) \/ Pass(c) \/ Refused(c) \/ Shake(c) \/ Arrive(c) \/ Serve(c)
      PROVE  \A d \in Clients : P(d)
  <2>1. \A d \in Clients \ {c} : cl'[d] = cl[d]
    BY <1>1, <1>3 DEF Trust, Pass, Refused, Shake, Arrive, Serve
  <2>2. P(c)
    <3>1. CASE Trust(c)
      BY <1>1, <3>1 DEF Trust, IsClient
    <3>2. CASE Pass(c)
      BY <1>1, <3>2 DEF Pass, IsClient
    <3>3. CASE Refused(c)
      BY <1>1, <3>3 DEF Refused, IsClient
    <3>4. CASE Shake(c)
      BY <1>1, <3>4 DEF Shake, IsClient
    <3>5. CASE Arrive(c)
      BY <1>1, <3>5 DEF Arrive, IsClient
    <3>6. CASE Serve(c)
      BY <1>1, <3>6 DEF Serve, IsClient, Next1
    <3> QED BY <1>3, <3>1, <3>2, <3>3, <3>4, <3>5, <3>6
  <2> QED BY <2>1, <2>2
<1>4. ASSUME Edit PROVE \A d \in Clients : P(d)
  <2>1. \A d \in Clients : cl'[d] = [cl[d] EXCEPT !.moved = cl[d].moved \/ Moves(file, file')]
    BY <1>4 DEF Edit
  <2> QED BY <1>1, <2>1 DEF IsClient
<1>5. ASSUME cl' = cl PROVE \A d \in Clients : P(d)
  BY <1>5
<1>6. \A d \in Clients : P(d)
  BY <1>3, <1>4, <1>5 DEF Quiet, Rekey, SyncPools, Publish, DropChain, LookUp, SwitchTo, SetRoutePin, vars
<1> QED BY <1>2, <1>6

LEMMA QuietTyped ==
  ASSUME ChainTyped, Good, Good', Quiet
  PROVE  ChainTyped'
<1>1. cache' \in Chains(covers)
  BY QuietDoes DEF ChainTyped, Chains, Ch!Missing
<1>2. \A c \in Clients : /\ cl'[c].pc = "start" => cl[c].pc = "start"
                         /\ cl'[c].pc = "mint" <=> cl[c].pc = "mint"
                         /\ cl'[c].pc = "shake" => cl'[c].chain \in DOMAIN covers
  BY QuietDoes DEF ChainTyped, ClientPlaced
<1> QED BY <1>1, <1>2, QuietDoes, ChainStays

\* Time takes leafs, and gives none back.
LEMMA ExpiryDoes ==
  ASSUME Expiry
  PROVE  /\ UNCHANGED <<disk, covers, ens, rift, file, live, registry, mgr, op, hand, cache, cl, past>>
         /\ expired \subseteq expired'
BY DEF Expiry, Ch!Expire, pools

LEMMA ExpiryTyped ==
  ASSUME ChainTyped, Good', Expiry
  PROVE  ChainTyped'
<1>1. UNCHANGED <<disk, covers, ens, cache, cl>>
  BY ExpiryDoes
<1> QED BY <1>1, ChainStays DEF ChainTyped, ClientPlaced

\* The steps, in groups.
LEMMA Steps ==
  ASSUME [Next]_vars
  PROVE  \/ \E t \in Ch!Tasks : /\ Ch!Read(t) \/ Ch!Write(t) \/ Ch!Clash(t) \/ Ch!Cut(t)
                                /\ UNCHANGED <<file, live, registry, mgr, op, hand, cache, cl, past>>
         \/ \E c \in Clients : Launch(c) \/ Connect(c)
         \/ PreMint \/ (\E c \in Clients : Mint(c))
         \/ Expiry \/ Restart \/ Quiet
<1>1. ASSUME NEW t \in Ch!Tasks, EnsureStep(t) \/ Fault(t)
      PROVE  /\ Ch!Read(t) \/ Ch!Write(t) \/ Ch!Clash(t) \/ Ch!Cut(t)
             /\ UNCHANGED <<file, live, registry, mgr, op, hand, cache, cl, past>>
  BY <1>1 DEF EnsureStep, Fault, pools
<1>2. ASSUME NEW c \in Clients, ClientStep(c)
      PROVE  Launch(c) \/ Connect(c) \/ Mint(c) \/ Quiet
  BY <1>2 DEF ClientStep, Quiet
<1> QED BY <1>1, <1>2 DEF Next, Quiet

LEMMA StepTyped ==
  ASSUME ChainTyped, Good, Good', [Next]_vars
  PROVE  ChainTyped'
BY Steps, ReadTyped, WriteTyped, ClashTyped, CutTyped, LaunchTyped, ConnectTyped, MintTyped, ExpiryTyped,
   RestartTyped, QuietTyped

\* The start: a chain for Anthropic's host, or none.
LEMMA InitDoes ==
  ASSUME Init
  PROVE  /\ cache = Ch!Missing /\ ens = [t \in Ch!Tasks |-> ens[t]] /\ rift = {} /\ past.broken = {}
         /\ ens[Srv(Daemon)] = Ch!Asking(InterceptHosts(live))
         /\ \A t \in Ch!Tasks \ {Srv(Daemon)} : ens[t] = Ch!Idle
         /\ \A c \in Clients : cl[c].pc = "start" /\ cl[c].ca = Ch!Missing
         /\ \/ covers = <<>> /\ disk = Ch!All3(0)
            \/ covers = <<Basic>> /\ disk = Ch!All3(1)
<1>1. PICK s \in Scenarios :
        /\ live = s.doc /\ cache = Ch!Missing /\ rift = {} /\ past.broken = {}
        /\ cl = [c \in Clients |-> Client(s.wants[c])] /\ disk = Ch!All3(s.chain)
        /\ covers = IF s.chain = Ch!Missing THEN <<>> ELSE <<{"anthropic", TestHost}>>
        /\ ens = [t \in Ch!Tasks |-> IF t = Srv(Daemon) THEN Ch!Asking(InterceptHosts(s.doc)) ELSE Ch!Idle]
  BY DEF Init
<1>2. s.chain \in {0, 1}
  BY ScenariosAssumption
<1>3. \A c \in Clients : cl[c].pc = "start" /\ cl[c].ca = Ch!Missing
  BY <1>1 DEF Client
<1> QED BY <1>1, <1>2, <1>3, CallNames DEF Basic, Ch!Missing

LEMMA InitTyped ==
  ASSUME Init
  PROVE  ChainTyped
<1>1. /\ cache = Ch!Missing /\ ens = [t \in Ch!Tasks |-> ens[t]]
      /\ ens[Srv(Daemon)] = Ch!Asking(InterceptHosts(live))
      /\ \A t \in Ch!Tasks \ {Srv(Daemon)} : ens[t] = Ch!Idle
      /\ \A c \in Clients : cl[c].pc = "start"
      /\ \/ covers = <<>> /\ disk = Ch!All3(0)
         \/ covers = <<Basic>> /\ disk = Ch!All3(1)
  BY InitDoes
<1>2. /\ covers \in Seq(SUBSET AllHosts) /\ \A n \in DOMAIN covers : Basic \subseteq covers[n]
      /\ disk \in [ca : Contents(covers), leaf : Contents(covers), key : Contents(covers)]
  <2>1. CASE covers = <<>> /\ disk = Ch!All3(0)
    BY <2>1 DEF Ch!All3, Contents, Chains, Ch!Missing
  <2>2. CASE covers = <<Basic>> /\ disk = Ch!All3(1)
    <3>1. Basic \in SUBSET AllHosts
      BY DEF Basic, AllHosts
    <3>2. covers \in Seq(SUBSET AllHosts) /\ DOMAIN covers = {1} /\ covers[1] = Basic
      BY <2>2, <3>1
    <3> QED BY <2>2, <3>2 DEF Ch!All3, Contents, Chains
  <2> QED BY <1>1, <2>1, <2>2
<1>3. \A t \in Ch!Tasks : CallTyped(ens[t], covers)
  BY <1>1, AskingIs, HostsGiven, IdleIs
<1>4. \A t \in Commands : ens[t].at = "idle"
  BY <1>1, CallNames, IdleIs
<1>5. \A c \in Clients : ClientPlaced(c) /\ cl[c].pc \in Places
  BY <1>1, CallNames, IdleIs DEF ClientPlaced, Places
<1> QED BY <1>1, <1>2, <1>3, <1>4, <1>5 DEF ChainTyped, Chains

\* The types.
THEOREM ChainIsTyped == Spec => []ChainTyped
BY InitTyped, StepTyped, GoodAlways, PTL DEF Spec

\* The registry leads every name to a manager of its own, the default among
\* them; files, copies and clients are in their places.
THEOREM TypeCorrect == Spec => []TypeOK
<1>1. ASSUME Good, ChainTyped PROVE TypeOK
  <2>1. /\ registry.default \in DOMAIN registry.map
        /\ \A p \in DOMAIN registry.map : registry.map[p] \in DOMAIN mgr
        /\ \A p, q \in DOMAIN registry.map : registry.map[p] = registry.map[q] => p = q
    BY <1>1, LenProperties DEF Good, Wired, PoolsTyped, IsRegistry, IsManagers
  <2>2. /\ cache \in {Ch!Missing} \cup DOMAIN covers
        /\ \A f \in {"ca", "leaf", "key"} : disk[f] \in {Ch!Missing, Ch!Torn} \cup DOMAIN covers
    BY <1>1 DEF ChainTyped, Chains, Contents
  <2>3. \A c \in Clients : cl[c].pc \in Places /\ (cl[c].pc = "body" => cl[c].mgr \in DOMAIN mgr)
    BY <1>1 DEF Good, Wired, ClientsTyped, IsClient
  <2> QED BY <2>1, <2>2, <2>3 DEF TypeOK, Places
<1> QED BY <1>1, GoodAlways, ChainIsTyped, PTL

\* The number of a chain is that of the ones made before it.
LEMMA Numbers ==
  ASSUME ChainTyped
  PROVE  Len(covers) \in Nat /\ DOMAIN covers = 1..Len(covers) /\ Chains(covers) = 0..Len(covers)
<1>1. Len(covers) \in Nat /\ DOMAIN covers = 1..Len(covers)
  BY LenProperties DEF ChainTyped
<1> QED BY <1>1 DEF Chains, Ch!Missing

LEMMA HalfwayIs ==
  ASSUME ChainTyped, NEW t \in Ch!Tasks
  PROVE  /\ Halfway(t) <=> ens[t].at = "write" /\ ens[t].left \in {<<"leaf", "ca">>, <<"ca">>}
         /\ ens[t].at = "write" /\ ~Halfway(t) => ens[t].left = <<"key", "leaf", "ca">>
<1>1. ens[t].at = "write" => ens[t].left \in {<<"key", "leaf", "ca">>, <<"leaf", "ca">>, <<"ca">>}
  BY DEF ChainTyped, CallTyped
<1>2. CASE ens[t].at = "write" /\ ens[t].left = <<"key", "leaf", "ca">>
  <2>1. Len(ens[t].left) = 3
    BY <1>2, Lists
  <2> QED BY <1>2, <2>1, ListsDiffer DEF Halfway
<1>3. CASE ens[t].at = "write" /\ ens[t].left = <<"leaf", "ca">>
  <2>1. Len(ens[t].left) = 2
    BY <1>3, Lists
  <2> QED BY <1>3, <2>1, ListsDiffer DEF Halfway
<1>4. CASE ens[t].at = "write" /\ ens[t].left = <<"ca">>
  <2>1. Len(ens[t].left) = 1
    BY <1>4, Lists
  <2> QED BY <1>4, <2>1, ListsDiffer DEF Halfway
<1>5. CASE ens[t].at # "write"
  BY <1>5 DEF Halfway
<1> QED BY <1>1, <1>2, <1>3, <1>4, <1>5

\* A step that writes nothing, and brings no call to a write.
Passive(t) == \/ ens'[t] = ens[t]
              \/ /\ ens[t].at # "write" /\ ens'[t].at \notin {"write", "failed"}
                 /\ ens'[t].at = "read" => ens'[t].left = <<"ca", "leaf", "key">>
              \/ t \in Commands /\ ens[t].at = "read" /\ ens'[t].at = "failed"

LEMMA SoundStays ==
  ASSUME ChainTyped, DiskSound, UNCHANGED <<disk, covers>>, expired \subseteq expired',
         \A t \in Ch!Tasks : Passive(t),
         \A c \in Clients : cl'[c].ca = disk.ca \/ cl'[c].ca = cl[c].ca
  PROVE  DiskSound' /\ (AtRest' <=> AtRest)
<1>1. \A t \in Ch!Tasks : Halfway(t)' <=> Halfway(t)
  BY DEF Halfway, Passive
<1>2. AtRest' <=> AtRest
  BY <1>1 DEF AtRest
<1>3. \A t \in Ch!Tasks : ens'[t].at = "write" => ens'[t] = ens[t]
  BY DEF Passive
<1>4. \A t \in Ch!Tasks : ens'[t].at = "read" => \/ ens'[t] = ens[t]
                                                 \/ ens'[t].left = <<"ca", "leaf", "key">>
  BY DEF Passive
<1>5. \A t \in Handlers : ens'[t].at # "failed"
  BY CallNames DEF DiskSound, Passive
<1>6. disk \in [ca : Chains(covers), leaf : Chains(covers), key : Chains(covers)]
  BY DEF DiskSound
<1>7. AtRest' => disk'.leaf = disk'.ca /\ disk'.key = disk'.ca
  BY <1>2 DEF DiskSound
<1>8. \A t \in Ch!Tasks : Halfway(t)' =>
         /\ \A u \in Ch!Tasks : Halfway(u)' => u = t
         /\ disk'.key = ens'[t].got.key
         /\ disk'.leaf = IF Len(ens'[t].left) = 2 THEN disk'.ca ELSE ens'[t].got.key
  <2> TAKE t \in Ch!Tasks
  <2> HAVE Halfway(t)'
  <2>1. Halfway(t) /\ ens'[t] = ens[t]
    BY <1>1, <1>3 DEF Halfway
  <2> QED BY <1>1, <2>1 DEF DiskSound
<1>9. \A t \in Ch!Tasks : ens'[t].at = "write" =>
         /\ disk'.ca < ens'[t].got.key
         /\ Halfway(t)' \/ AtRest' => WantsAnother(t)'
  BY <1>1, <1>2, <1>3 DEF DiskSound, WantsAnother
<1>10. \A t \in Ch!Tasks : ens'[t].at = "read" =>
         /\ ens'[t].left # <<"ca", "leaf", "key">> => ens'[t].got.ca = disk'.ca
         /\ ens'[t].left = <<"key">> => ens'[t].got.leaf = disk'.leaf
  BY <1>4, ListsDiffer DEF DiskSound
<1>11. \A c \in Clients : cl'[c].ca \in Chains(covers) /\ cl'[c].ca <= disk'.ca
  BY <1>6, Numbers DEF DiskSound
<1> QED BY <1>2, <1>5, <1>6, <1>7, <1>8, <1>9, <1>10, <1>11 DEF DiskSound

LEMMA LookSound ==
  ASSUME ChainTyped, DiskSound, NEW t \in Ch!Tasks, ens[t].at = "read", OnlyCall(t), Looks(t),
         UNCHANGED <<disk, expired, cl>>
  PROVE  DiskSound' /\ (AtRest' <=> AtRest)
<1>1. \A u \in Ch!Tasks : Halfway(u)' <=> Halfway(u)
  BY DEF Halfway, OnlyCall, Looks
<1>2. AtRest' <=> AtRest
  BY <1>1 DEF AtRest
<1>3. covers' = covers /\ \A u \in Ch!Tasks \ {t} : ens'[u] = ens[u]
  BY DEF Looks, OnlyCall
<1>4. /\ ens'[t].at = "read"
      /\ ens'[t].got.ca = disk.ca /\ (ens'[t].left = <<"key">> => ens'[t].got.leaf = disk.leaf)
  <2>1. DOMAIN ens[t].got = Names
    BY DEF ChainTyped, CallTyped, Names
  <2>2. CASE ens[t].left = <<"ca", "leaf", "key">>
    BY <2>1, <2>2, ListsDiffer DEF Looks, Names
  <2>3. CASE ens[t].left = <<"leaf", "key">>
    BY <2>1, <2>3, ListsDiffer DEF Looks, Names, DiskSound
  <2> QED BY <2>2, <2>3 DEF Looks
<1>5. \A u \in Ch!Tasks : Halfway(u)' =>
         /\ \A v \in Ch!Tasks : Halfway(v)' => v = u
         /\ disk'.key = ens'[u].got.key
         /\ disk'.leaf = IF Len(ens'[u].left) = 2 THEN disk'.ca ELSE ens'[u].got.key
  <2> TAKE u \in Ch!Tasks
  <2> HAVE Halfway(u)'
  <2>1. Halfway(u) /\ ens'[u] = ens[u]
    BY <1>1, <1>3, <1>4 DEF Halfway
  <2> QED BY <1>1, <2>1 DEF DiskSound
<1>6. \A u \in Ch!Tasks : ens'[u].at = "write" =>
         /\ disk'.ca < ens'[u].got.key
         /\ Halfway(u)' \/ AtRest' => WantsAnother(u)'
  BY <1>1, <1>2, <1>3, <1>4 DEF DiskSound, WantsAnother
<1>7. \A u \in Ch!Tasks : ens'[u].at = "read" =>
         /\ ens'[u].left # <<"ca", "leaf", "key">> => ens'[u].got.ca = disk'.ca
         /\ ens'[u].left = <<"key">> => ens'[u].got.leaf = disk'.leaf
  BY <1>3, <1>4 DEF DiskSound
<1>8. \A u \in Handlers : ens'[u].at # "failed"
  BY <1>3, <1>4, CallNames DEF DiskSound
<1> QED BY <1>2, <1>3, <1>5, <1>6, <1>7, <1>8 DEF DiskSound

\* A chain is made when the one at rest will not do.
LEMMA MakeSound ==
  ASSUME ChainTyped, DiskSound, NEW t \in Ch!Tasks, ens[t].at = "read", OnlyCall(t), Makes(t),
         ens'[t].hosts = ens[t].hosts, UNCHANGED <<disk, expired, cl>>
  PROVE  /\ DiskSound' /\ (AtRest' <=> AtRest) /\ ens'[t].at = "write"
         /\ \A n \in DOMAIN covers : n \in DOMAIN covers' /\ covers'[n] = covers[n]
<1> DEFINE n == Len(covers) + 1
<1>1. /\ ens[t].hosts \in SUBSET AllHosts /\ covers \in Seq(SUBSET AllHosts)
  BY DEF ChainTyped, CallTyped
<1>2. /\ n \in Nat /\ DOMAIN covers = 1..Len(covers) /\ DOMAIN covers' = 1..n
      /\ \A i \in DOMAIN covers : i \in DOMAIN covers' /\ covers'[i] = covers[i]
  BY <1>1, OneMore DEF Makes
<1>3. Chains(covers) = 0..Len(covers) /\ Chains(covers) \subseteq Chains(covers')
  BY <1>2, Numbers DEF Chains
<1>4. /\ ens'[t].at = "write" /\ ens'[t].left = <<"key", "leaf", "ca">> /\ ens'[t].got = Ch!All3(n)
      /\ ens[t].left = <<"key">>
  BY DEF Makes
<1> HIDE DEF n
<1>5. ens'[t].got.key = n /\ disk.ca < n
  <2>1. disk.ca \in 0..Len(covers)
    BY <1>3 DEF DiskSound
  <2> QED BY <1>2, <1>4, <2>1 DEF Ch!All3, n
<1>6. \A u \in Ch!Tasks \ {t} : ens'[u] = ens[u]
  BY DEF OnlyCall
<1>7. \A u \in Ch!Tasks : Halfway(u)' <=> Halfway(u)
  <2>1. ~Halfway(t)' /\ ~Halfway(t)
    BY <1>4, Lists DEF Halfway
  <2>2. \A u \in Ch!Tasks \ {t} : Halfway(u)' <=> Halfway(u)
    BY <1>6 DEF Halfway
  <2> QED BY <2>1, <2>2
<1>8. AtRest' <=> AtRest
  BY <1>7 DEF AtRest
<1>9. AtRest => WantsAnother(t)
  <2>1. SUFFICES ASSUME AtRest PROVE WantsAnother(t)
    OBVIOUS
  <2>2. disk.leaf = disk.ca /\ disk.key = disk.ca /\ disk.ca \in Chains(covers)
    BY <2>1 DEF DiskSound
  <2>3. ens[t].got.ca = disk.ca /\ ens[t].got.leaf = disk.leaf
    BY <1>4, ListsDiffer DEF DiskSound
  <2> QED BY <2>2, <2>3 DEF Makes, WantsAnother, Chains
<1>10. \A u \in Ch!Tasks : WantsAnother(u)' <=> WantsAnother(u)
  <2>1. disk.ca \in Chains(covers) /\ \A u \in Ch!Tasks : ens'[u].hosts = ens[u].hosts
    BY <1>6 DEF DiskSound
  <2> QED BY <1>2, <2>1 DEF WantsAnother, Chains
<1>11. \A u \in Ch!Tasks : Halfway(u)' =>
         /\ \A v \in Ch!Tasks : Halfway(v)' => v = u
         /\ disk'.key = ens'[u].got.key
         /\ disk'.leaf = IF Len(ens'[u].left) = 2 THEN disk'.ca ELSE ens'[u].got.key
  <2> TAKE u \in Ch!Tasks
  <2> HAVE Halfway(u)'
  <2>1. Halfway(u) /\ ens'[u] = ens[u]
    BY <1>4, <1>6, <1>7, Lists DEF Halfway
  <2> QED BY <1>7, <2>1 DEF DiskSound
<1>12. \A u \in Ch!Tasks : ens'[u].at = "write" =>
         /\ disk'.ca < ens'[u].got.key
         /\ Halfway(u)' \/ AtRest' => WantsAnother(u)'
  <2> TAKE u \in Ch!Tasks
  <2>1. CASE u = t
    <3>1. ~Halfway(t)'
      BY <1>4, Lists DEF Halfway
    <3> QED BY <1>4, <1>5, <1>8, <1>9, <1>10, <2>1, <3>1
  <2>2. CASE u # t
    BY <1>6, <1>7, <1>8, <1>10, <2>2 DEF DiskSound
  <2> QED BY <2>1, <2>2
<1>13. \A u \in Ch!Tasks : ens'[u].at = "read" =>
         /\ ens'[u].left # <<"ca", "leaf", "key">> => ens'[u].got.ca = disk'.ca
         /\ ens'[u].left = <<"key">> => ens'[u].got.leaf = disk'.leaf
  BY <1>4, <1>6 DEF DiskSound
<1>14. \A u \in Handlers : ens'[u].at # "failed"
  BY <1>4, <1>6, CallNames DEF DiskSound
<1>15. /\ disk' \in [ca : Chains(covers'), leaf : Chains(covers'), key : Chains(covers')]
       /\ (AtRest' => disk'.leaf = disk'.ca /\ disk'.key = disk'.ca)
       /\ \A c \in Clients : cl'[c].ca \in Chains(covers') /\ cl'[c].ca <= disk'.ca
  BY <1>3, <1>8 DEF DiskSound
<1>16. DiskSound'
  BY <1>11, <1>12, <1>13, <1>14, <1>15 DEF DiskSound
<1> QED BY <1>2, <1>4, <1>8, <1>16

\* A write is one of three, of a task that is alone with the files.
LEMMA WriteSound ==
  ASSUME ChainTyped, DiskSound, NEW t \in Ch!Tasks, Ch!Write(t), rift' = {}, UNCHANGED cl
  PROVE  /\ DiskSound' /\ \A u \in Ch!Tasks \ {t} : ens[u].at \notin {"read", "write"}
         /\ ens[t].left = <<"ca">> => AtRest' /\ disk'.ca = ens[t].got.key /\ ens'[t].at = "done"
         /\ ens[t].left # <<"ca">> => disk'.ca = disk.ca /\ ens'[t].at = "write"
         /\ WantsAnother(t) /\ ens'[t].at # "failed"
<1>1. /\ ens[t].at = "write" /\ OnlyCall(t) /\ ens'[t].hosts = ens[t].hosts /\ ens'[t].got = ens[t].got
      /\ UNCHANGED <<covers, expired>> /\ Replaces(t)
      /\ \A u \in Ch!Tasks \ {t} : ens'[u] = ens[u] /\ ens[u].at \notin {"read", "write"}
  BY WriteDoes DEF OnlyCall
<1>2. \A u \in Ch!Tasks \ {t} : ~Halfway(u) /\ ~Halfway(u)'
  BY <1>1 DEF Halfway
<1>3. Halfway(t) \/ AtRest
  BY <1>2 DEF AtRest
<1>4. /\ disk \in [ca : Chains(covers), leaf : Chains(covers), key : Chains(covers)]
      /\ ens[t].got.key \in DOMAIN covers /\ ens[t].got.key \in Chains(covers)
      /\ disk.ca < ens[t].got.key
      /\ WantsAnother(t)
      /\ \A u \in Handlers : ens[u].at # "failed"
      /\ \A c \in Clients : cl[c].ca \in Chains(covers) /\ cl[c].ca <= disk.ca
  BY <1>1, <1>3 DEF DiskSound, ChainTyped, CallTyped, Chains
<1>5. \A u \in Ch!Tasks : ens'[u].at # "read"
  BY <1>1 DEF Replaces
<1>6. \A u \in Handlers : ens'[u].at # "failed"
  BY <1>1, <1>4, CallNames DEF Replaces
<1>7. CASE ens[t].left = <<"key", "leaf", "ca">>
  <2>1. /\ ens'[t].left = <<"leaf", "ca">> /\ ens'[t].at = "write" /\ disk' = [disk EXCEPT !.key = ens[t].got.key]
    BY <1>1, <1>7, ListsDiffer DEF Replaces
  <2>2. Halfway(t)' /\ ~AtRest' /\ Len(ens'[t].left) = 2
    <3>1. Len(ens'[t].left) = 2
      BY <2>1, Lists
    <3>2. Halfway(t)'
      BY <2>1, <3>1 DEF Halfway
    <3> QED BY <3>1, <3>2 DEF AtRest
  <2>3. ~Halfway(t) /\ AtRest
    BY <1>3, <1>7, Lists DEF Halfway
  <2>4. disk.leaf = disk.ca
    BY <2>3 DEF DiskSound
  <2>5. /\ disk' \in [ca : Chains(covers), leaf : Chains(covers), key : Chains(covers)]
        /\ disk'.key = ens[t].got.key /\ disk'.ca = disk.ca /\ disk'.leaf = disk.leaf
    BY <1>4, <2>1
  <2>6. DiskSound'
    BY <1>1, <1>2, <1>4, <1>5, <1>6, <2>1, <2>2, <2>4, <2>5 DEF DiskSound, WantsAnother
  <2> QED BY <1>1, <1>4, <1>7, <2>1, <2>5, <2>6, ListsDiffer
<1>8. CASE ens[t].left = <<"leaf", "ca">>
  <2>1. /\ ens'[t].left = <<"ca">> /\ ens'[t].at = "write" /\ disk' = [disk EXCEPT !.leaf = ens[t].got.key]
    BY <1>1, <1>8, ListsDiffer DEF Replaces
  <2>2. Halfway(t)' /\ ~AtRest' /\ Len(ens'[t].left) = 1
    <3>1. Len(ens'[t].left) = 1
      BY <2>1, Lists
    <3>2. Halfway(t)'
      BY <2>1, <3>1 DEF Halfway
    <3> QED BY <3>1, <3>2 DEF AtRest
  <2>3. Halfway(t)
    BY <1>1, <1>8, Lists DEF Halfway
  <2>4. disk.key = ens[t].got.key
    BY <2>3 DEF DiskSound
  <2>5. /\ disk' \in [ca : Chains(covers), leaf : Chains(covers), key : Chains(covers)]
        /\ disk'.key = disk.key /\ disk'.ca = disk.ca /\ disk'.leaf = ens[t].got.key
    BY <1>4, <2>1
  <2>6. DiskSound'
    BY <1>1, <1>2, <1>4, <1>5, <1>6, <2>1, <2>2, <2>4, <2>5 DEF DiskSound, WantsAnother
  <2> QED BY <1>1, <1>4, <1>8, <2>1, <2>5, <2>6, ListsDiffer
<1>9. CASE ens[t].left = <<"ca">>
  <2>1. /\ ens'[t].left = <<>> /\ ens'[t].at = "done" /\ disk' = [disk EXCEPT !.ca = ens[t].got.key]
    BY <1>1, <1>9, ListsDiffer DEF Replaces
  <2>2. ~Halfway(t)' /\ AtRest'
    BY <1>2, <2>1 DEF Halfway, AtRest
  <2>3. Halfway(t) /\ Len(ens[t].left) # 2
    BY <1>1, <1>9, Lists DEF Halfway
  <2>4. disk.key = ens[t].got.key /\ disk.leaf = ens[t].got.key
    BY <2>3 DEF DiskSound
  <2>5. /\ disk' \in [ca : Chains(covers), leaf : Chains(covers), key : Chains(covers)]
        /\ disk'.key = ens[t].got.key /\ disk'.ca = ens[t].got.key /\ disk'.leaf = ens[t].got.key
    BY <1>4, <2>1, <2>4
  <2>6. \A c \in Clients : cl[c].ca <= disk'.ca
    BY <1>4, <2>5, Numbers
  <2>7. \A u \in Ch!Tasks : ens'[u].at # "write"
    BY <1>1, <2>1
  <2>8. DiskSound'
    BY <1>1, <1>2, <1>4, <1>5, <1>6, <2>2, <2>5, <2>6, <2>7 DEF DiskSound
  <2> QED BY <1>1, <1>4, <1>9, <2>1, <2>2, <2>5, <2>8
<1> QED BY <1>1, <1>7, <1>8, <1>9 DEF Replaces

LEMMA StepSound ==
  ASSUME ChainTyped, DiskSound, Good, [Next]_vars, rift' = {}
  PROVE  DiskSound'
<1>1. ASSUME NEW t \in Ch!Tasks, Ch!Read(t), UNCHANGED cl PROVE DiskSound'
  <2>1. /\ ens[t].at = "read" /\ OnlyCall(t) /\ ens'[t].hosts = ens[t].hosts /\ UNCHANGED <<disk, expired>>
        /\ Looks(t) \/ Finds(t) \/ Makes(t)
    BY <1>1, ReadDoes
  <2>2. CASE Finds(t)
    <3>1. covers' = covers /\ \A u \in Ch!Tasks : Passive(u)
      BY <2>1, <2>2 DEF Finds, Passive, OnlyCall
    <3> QED BY <1>1, <2>1, <3>1, SoundStays
  <2> QED BY <1>1, <2>1, <2>2, LookSound, MakeSound
<1>2. ASSUME NEW t \in Ch!Tasks, Ch!Cut(t), UNCHANGED cl PROVE DiskSound'
  <2>1. /\ OnlyCall(t) /\ UNCHANGED <<disk, covers, expired>> /\ t \in Commands /\ ens[t].at = "read"
        /\ ens'[t] = [ens[t] EXCEPT !.at = "failed", !.left = <<>>]
    BY <1>2, CutDoes
  <2>2. ens'[t].at = "failed"
    BY <2>1 DEF ChainTyped, CallTyped
  <2>3. \A u \in Ch!Tasks : Passive(u)
    BY <2>1, <2>2 DEF Passive, OnlyCall
  <2> QED BY <1>2, <2>1, <2>3, SoundStays
<1>3. ASSUME NEW t \in Ch!Tasks, Ch!Clash(t) PROVE FALSE
  BY <1>3 DEF Ch!Clash
<1>4. ASSUME NEW c \in Clients, Launch(c) \/ Connect(c) PROVE DiskSound'
  <2>1. UNCHANGED <<disk, covers, expired>> /\ \A d \in Clients : cl'[d].ca = cl[d].ca
    BY <1>4 DEF Launch, Connect, Good, Wired, ClientsTyped, IsClient
  <2>2. \/ ens' = ens
        \/ /\ ens' = [ens EXCEPT ![Cli(c)] = Ch!Asking({"anthropic"})] /\ ens[Cli(c)].at = "idle"
        \/ /\ ens' = [ens EXCEPT ![Srv(c)] = Ch!Asking(InterceptHosts(live))] /\ ens[Srv(c)].at = "idle"
    BY <1>4 DEF Launch, Connect, ChainTyped, ClientPlaced
  <2>3. \A h \in {{"anthropic"}, InterceptHosts(live)} :
           Ch!Asking(h).at = "read" /\ Ch!Asking(h).left = <<"ca", "leaf", "key">>
    BY AskingIs, HostsGiven DEF AllHosts
  <2>4. \A u \in Ch!Tasks : Passive(u)
    <3>1. ens = [u \in Ch!Tasks |-> ens[u]]
      BY DEF ChainTyped
    <3> QED BY <2>2, <2>3, <3>1, CallNames DEF Passive
  <2> QED BY <2>1, <2>4, SoundStays
<1>5. ASSUME PreMint \/ \E c \in Clients : Mint(c) PROVE DiskSound'
  <2>1. PICK t \in Handlers : Minted(t) /\ \A d \in Clients : cl'[d].ca = cl[d].ca
    <3>1. CASE PreMint
      BY <3>1, CallNames DEF PreMint
    <3>2. ASSUME NEW c \in Clients, Mint(c) PROVE Minted(Srv(c)) /\ \A d \in Clients : cl'[d].ca = cl[d].ca
      BY <3>2, MintDoes
    <3> QED BY <1>5, <3>1, <3>2, CallNames
  <2>2. /\ UNCHANGED <<disk, covers, expired>> /\ ens[t].at \in {"done", "failed"} /\ OnlyCall(t) /\ ens'[t].at = "idle"
    BY <2>1, MintedDoes
  <2>3. \A u \in Ch!Tasks : Passive(u)
    BY <2>2 DEF Passive, OnlyCall
  <2> QED BY <2>1, <2>2, <2>3, SoundStays
<1>6. ASSUME Restart PROVE DiskSound'
  <2>1. /\ UNCHANGED <<disk, covers, expired>>
        /\ ens'[Srv(Daemon)] = Ch!Asking(InterceptHosts(file))
        /\ \A c \in Clients : ens'[Srv(c)] = Ch!Idle /\ cl'[c].ca = cl[c].ca
        /\ \A t \in Commands : ens'[t] = ens[t]
        /\ \A t \in Handlers : ens[t].at # "write"
    BY <1>6, RestartDoes
  <2>2. /\ Ch!Asking(InterceptHosts(file)).at = "read"
        /\ Ch!Asking(InterceptHosts(file)).left = <<"ca", "leaf", "key">> /\ Ch!Idle.at = "idle"
    BY AskingIs, HostsGiven, IdleIs
  <2>3. \A u \in Ch!Tasks : Passive(u)
    BY <2>1, <2>2, CallNames DEF Passive
  <2> QED BY <2>1, <2>3, SoundStays
<1>7. ASSUME Quiet PROVE DiskSound'
  BY <1>7, QuietDoes, SoundStays DEF Passive
<1>8. ASSUME Expiry PROVE DiskSound'
  BY <1>8, ExpiryDoes, SoundStays DEF Passive, DiskSound
<1> QED BY <1>1, <1>2, <1>3, <1>4, <1>5, <1>6, <1>7, <1>8, Steps, WriteSound

LEMMA InitSound ==
  ASSUME Init
  PROVE  DiskSound
<1>1. /\ ens[Srv(Daemon)] = Ch!Asking(InterceptHosts(live))
      /\ \A t \in Ch!Tasks \ {Srv(Daemon)} : ens[t] = Ch!Idle
      /\ \A c \in Clients : cl[c].ca = 0
      /\ \/ covers = <<>> /\ disk = Ch!All3(0)
         \/ covers = <<Basic>> /\ disk = Ch!All3(1)
  BY InitDoes DEF Ch!Missing
<1>2. \A t \in Ch!Tasks : /\ ens[t].at \in {"idle", "read"}
                          /\ ens[t].at = "read" => ens[t].left = <<"ca", "leaf", "key">>
  BY <1>1, AskingIs, HostsGiven, IdleIs
<1>3. PICK n \in {0, 1} : disk = Ch!All3(n) /\ n \in Chains(covers) /\ 0 \in Chains(covers)
  <2>1. CASE covers = <<>> /\ disk = Ch!All3(0)
    BY <2>1 DEF Chains, Ch!Missing
  <2>2. CASE covers = <<Basic>> /\ disk = Ch!All3(1)
    <3>1. DOMAIN covers = {1}
      BY <2>2
    <3> QED BY <2>2, <3>1 DEF Chains, Ch!Missing
  <2> QED BY <1>1, <2>1, <2>2
<1>4. /\ disk.ca = n /\ disk.leaf = n /\ disk.key = n
      /\ disk \in [ca : Chains(covers), leaf : Chains(covers), key : Chains(covers)]
  BY <1>3 DEF Ch!All3
<1>5. \A t \in Ch!Tasks : ~Halfway(t)
  BY <1>2 DEF Halfway
<1> QED BY <1>1, <1>2, <1>3, <1>4, <1>5, CallNames DEF DiskSound

\* A chain on disk that is good enough for everyone stays as it is.
Settled == disk.ca \in DOMAIN covers \ expired /\ Inform \subseteq covers[disk.ca]

LEMMA NoWrites ==
  ASSUME ChainTyped, DiskSound, CopySound, Settled
  PROVE  AtRest /\ \A t \in Ch!Tasks : ens[t].at # "write"
<1>1. \A t \in Ch!Tasks : ens[t].at # "idle" => ~WantsAnother(t)
  <2> TAKE t \in Ch!Tasks
  <2>1. Basic \subseteq covers[disk.ca] /\ disk.ca # Ch!Missing
    BY Numbers DEF Settled, ChainTyped, Ch!Missing
  <2>2. ens[t].at # "idle" => ens[t].hosts = Basic \/ ens[t].hosts = Inform
    BY CallNames DEF ChainTyped, CopySound
  <2> QED BY <2>1, <2>2 DEF Settled, WantsAnother
<1>2. AtRest
  BY <1>1 DEF AtRest, Halfway, DiskSound
<1> QED BY <1>1, <1>2 DEF DiskSound

\* So it is when a call of the server has ended with it, or the copy is in use,
\* and the leaf is good.
LEMMA SettledWhen ==
  ASSUME ChainTyped, CopySound,
         \/ \E t \in Handlers : ens[t].at = "done" /\ ens[t].got.leaf \notin expired
         \/ cache # Ch!Missing /\ op.at # "drop" /\ cache \notin expired
  PROVE  Settled
<1>1. ASSUME NEW t \in Handlers, ens[t].at = "done", ens[t].got.leaf \notin expired PROVE Settled
  <2>1. ens[t].got.leaf \in DOMAIN covers /\ ens[t].hosts \subseteq covers[ens[t].got.leaf]
    BY <1>1, CallNames DEF ChainTyped, CallTyped
  <2> QED BY <1>1, <2>1 DEF CopySound, Settled, Current
<1>2. ASSUME cache # Ch!Missing, op.at # "drop", cache \notin expired PROVE Settled
  BY <1>2 DEF ChainTyped, CopySound, Settled, Chains, Current
<1> QED BY <1>1, <1>2

\* A step of a call of ensure_certs.
LEMMA CallCopies ==
  ASSUME ChainTyped, CopySound, UNCHANGED <<live, op, cache, cl, past, expired>>,
         \A n \in DOMAIN covers : n \in DOMAIN covers' /\ covers'[n] = covers[n],
         \A t \in Ch!Tasks : ens'[t].hosts = ens[t].hosts /\ (ens'[t].at = "idle" <=> ens[t].at = "idle"),
         \A t \in Handlers : ens'[t].at = "done" =>
            \/ ens'[t] = ens[t] /\ (disk'.ca = disk.ca \/ ens[t].got.leaf \in expired)
            \/ disk'.ca = ens'[t].got.leaf /\ ens'[t].got.key = ens'[t].got.leaf,
         cache # Ch!Missing /\ op.at # "drop" => disk'.ca = disk.ca \/ cache \in expired
  PROVE  CopySound'
<1>1. Inform' = Inform
  BY DEF Inform, InterceptHosts
<1>2. \A t \in Handlers : ens'[t].at # "idle" => ens'[t].hosts = Inform'
  BY <1>1, CallNames DEF CopySound
<1>3. \A t \in Handlers : ens'[t].at = "done" =>
         Current(ens[t].got.leaf)' /\ ens'[t].got.key = ens'[t].got.leaf
  BY DEF CopySound, Current
<1>4. cache' # Ch!Missing /\ op'.at # "drop" => Current(cache)' /\ Inform' \subseteq covers'[cache']
  BY <1>1 DEF CopySound, ChainTyped, Chains, Current
<1>5. \A c \in Clients :
         /\ cl'[c].pc = "mint" => cl'[c].want.host \in ens'[Srv(c)].hosts
         /\ cl'[c].pc = "shake" => /\ cl'[c].ca <= cl'[c].chain \/ cl'[c].chain \in expired'
                                   /\ cl'[c].want.host \in covers'[cl'[c].chain]
         /\ cl'[c].pc # "refused"
  BY CallNames DEF CopySound, ChainTyped, ClientPlaced, Want
<1> QED BY <1>2, <1>3, <1>4, <1>5 DEF CopySound, Want, Current

LEMMA ReadCopies ==
  ASSUME ChainTyped, DiskSound, CopySound, NEW t \in Ch!Tasks, Ch!Read(t),
         UNCHANGED <<live, op, cache, cl, past>>
  PROVE  CopySound'
<1>1. /\ ens[t].at = "read" /\ OnlyCall(t) /\ ens'[t].hosts = ens[t].hosts /\ UNCHANGED <<disk, expired>>
      /\ \A u \in Ch!Tasks \ {t} : ens'[u] = ens[u]
      /\ Looks(t) \/ Finds(t) \/ Makes(t)
  BY ReadDoes DEF OnlyCall
<1>2. CASE Looks(t)
  <2>1. covers' = covers /\ ens'[t].at = "read"
    BY <1>2 DEF Looks
  <2> QED BY <1>1, <2>1, CallNames, CallCopies
<1>3. CASE Makes(t)
  <2>1. ens'[t].at = "write" /\ \A n \in DOMAIN covers : n \in DOMAIN covers' /\ covers'[n] = covers[n]
    BY <1>1, <1>3, MakeSound
  <2> QED BY <1>1, <2>1, CallNames, CallCopies
<1>4. CASE Finds(t)
  <2>1. /\ covers' = covers /\ ens'[t].at = "done" /\ ens[t].left = <<"key">>
        /\ ens'[t].got = [ens[t].got EXCEPT !.key = disk.key]
        /\ ens[t].got.leaf = ens[t].got.ca
        /\ ens[t].got.leaf \in DOMAIN covers \ expired /\ ens[t].hosts \subseteq covers[ens[t].got.leaf]
    BY <1>4 DEF Finds
  <2>2. disk.ca = ens[t].got.leaf /\ disk.leaf = ens[t].got.leaf
    BY <1>1, <2>1, ListsDiffer DEF DiskSound
  <2>3. ens'[t].got.key = disk.key /\ ens'[t].got.leaf = ens[t].got.leaf
    BY <2>1 DEF ChainTyped, CallTyped
  <2>4. t \in Handlers => disk.key = disk.ca
    <3>1. SUFFICES ASSUME t \in Handlers PROVE disk.key = disk.ca
      OBVIOUS
    <3>2. Settled
      BY <1>1, <2>1, <2>2, <3>1 DEF Settled, CopySound
    <3> QED BY <3>2, NoWrites DEF DiskSound
  <2> QED BY <1>1, <2>1, <2>2, <2>3, <2>4, CallNames, CallCopies
<1> QED BY <1>1, <1>2, <1>3, <1>4

LEMMA WriteCopies ==
  ASSUME ChainTyped, DiskSound, CopySound, NEW t \in Ch!Tasks, Ch!Write(t), rift' = {},
         UNCHANGED <<live, op, cache, cl, past>>
  PROVE  CopySound'
<1>1. /\ ens[t].at = "write" /\ OnlyCall(t) /\ ens'[t].hosts = ens[t].hosts /\ ens'[t].got = ens[t].got
      /\ UNCHANGED <<covers, expired>> /\ \A u \in Ch!Tasks \ {t} : ens'[u] = ens[u]
  BY WriteDoes DEF OnlyCall
<1>2. ~Settled
  BY <1>1, NoWrites
<1>3. /\ \A u \in Handlers : ens[u].at = "done" => ens[u].got.leaf \in expired
      /\ cache = Ch!Missing \/ op.at = "drop" \/ cache \in expired
  BY <1>2, SettledWhen
<1>4. /\ ens[t].left = <<"ca">> => disk'.ca = ens[t].got.key /\ ens'[t].at = "done"
      /\ ens[t].left # <<"ca">> => ens'[t].at = "write"
  BY WriteSound
<1>5. ens[t].got.leaf = ens[t].got.key
  BY <1>1 DEF ChainTyped, CallTyped
<1>6. \A u \in Ch!Tasks : ens'[u].hosts = ens[u].hosts /\ (ens'[u].at = "idle" <=> ens[u].at = "idle")
  BY <1>1, <1>4
<1>7. \A u \in Handlers : ens'[u].at = "done" =>
         \/ ens'[u] = ens[u] /\ ens[u].got.leaf \in expired
         \/ disk'.ca = ens'[u].got.leaf /\ ens'[u].got.key = ens'[u].got.leaf
  BY <1>1, <1>3, <1>4, <1>5, CallNames
<1> QED BY <1>1, <1>3, <1>6, <1>7, CallCopies

LEMMA CutCopies ==
  ASSUME ChainTyped, CopySound, NEW t \in Ch!Tasks, Ch!Cut(t), UNCHANGED <<live, op, cache, cl, past>>
  PROVE  CopySound'
<1>1. /\ ens[t].at \in {"read", "write"} /\ OnlyCall(t) /\ UNCHANGED <<disk, covers, expired>>
      /\ ens'[t] = [ens[t] EXCEPT !.at = "failed", !.left = <<>>]
      /\ \A u \in Ch!Tasks \ {t} : ens'[u] = ens[u]
  BY CutDoes DEF OnlyCall
<1>2. ens'[t].at = "failed" /\ ens'[t].hosts = ens[t].hosts
  BY <1>1, FailedIs DEF ChainTyped
<1> QED BY <1>1, <1>2, CallNames, CallCopies

LEMMA LaunchCopies ==
  ASSUME ChainTyped, CopySound, Good, NEW c \in Clients, Launch(c)
  PROVE  CopySound'
<1>1. /\ UNCHANGED <<live, op, cache, disk, covers, expired, past>>
      /\ \A d \in Clients \ {c} : cl'[d] = cl[d]
      /\ cl'[c].pc \in {"ensure", "ready"}
  <2>1. cl = [d \in Clients |-> cl[d]] /\ IsClient(cl[c])
    BY DEF Good, Wired, ClientsTyped
  <2> QED BY <2>1 DEF Launch, IsClient
<1>2. \A t \in Handlers : ens'[t] = ens[t]
  BY CallNames DEF Launch, ChainTyped
<1>3. Inform' = Inform
  BY <1>1 DEF Inform, InterceptHosts
<1>4. \A d \in Clients :
         /\ cl'[d].pc = "mint" => cl'[d].want.host \in ens'[Srv(d)].hosts
         /\ cl'[d].pc = "shake" => /\ cl'[d].ca <= cl'[d].chain \/ cl'[d].chain \in expired'
                                   /\ cl'[d].want.host \in covers'[cl'[d].chain]
         /\ cl'[d].pc # "refused"
  BY <1>1, <1>2, CallNames DEF CopySound, Want
<1> QED BY <1>1, <1>2, <1>3, <1>4 DEF CopySound, Want, Current

LEMMA ConnectCopies ==
  ASSUME ChainTyped, DiskSound, CopySound, Good, NEW c \in Clients, Connect(c), "late" \notin past'.tags
  PROVE  CopySound'
<1> DEFINE next == IF cache = Ch!Missing THEN "mint" ELSE "shake"
           calls == IF cache # Ch!Missing THEN ens
                    ELSE [ens EXCEPT ![Srv(c)] = Ch!Asking(InterceptHosts(live))]
<1>1. cl = [d \in Clients |-> cl[d]] /\ IsClient(cl[c]) /\ PastTyped
  BY DEF Good, Wired, ClientsTyped
<1>2. /\ UNCHANGED <<live, op, cache, disk, covers, expired>> /\ HostMode(Want(c).host) \in {"intercept", "test"}
      /\ past' = (IF op.at = "drop" THEN Tag({"late"}) ELSE past)
      /\ IF ~Admits(c) THEN cl' = [cl EXCEPT ![c].pc = "failed"] /\ ens' = ens
         ELSE /\ cl' = [cl EXCEPT ![c].tunnel = TunnelPool(c), ![c].chain = cache, ![c].pc = next]
              /\ ens' = calls
  BY DEF Connect
<1> HIDE DEF next, calls
<1>3. op.at # "drop" /\ past' = past
  BY <1>1, <1>2 DEF Tag, PastTyped
<1>4. Want(c).host \in Inform
  BY <1>2 DEF HostMode, Inform
<1>5. Inform' = Inform
  BY <1>2 DEF Inform, InterceptHosts
<1>6. \A d \in Clients \ {c} : cl'[d] = cl[d]
  BY <1>1, <1>2
<1>7. CASE ~Admits(c)
  <2>1. cl'[c].pc = "failed" /\ ens' = ens
    BY <1>1, <1>2, <1>7 DEF IsClient
  <2> QED BY <1>2, <1>3, <1>5, <1>6, <2>1 DEF CopySound, Want, Current
<1>8. CASE Admits(c)
  <2>1. cl'[c] = [cl[c] EXCEPT !.tunnel = TunnelPool(c), !.chain = cache, !.pc = next] /\ ens' = calls
    BY <1>1, <1>2, <1>8
  <2>2. cl'[c].chain = cache /\ cl'[c].pc = next /\ cl'[c].ca = cl[c].ca /\ cl'[c].want = cl[c].want
    BY <1>1, <2>1 DEF IsClient
  <2>3. CASE cache # Ch!Missing
    <3>1. cl'[c].pc = "shake" /\ ens' = ens
      BY <2>1, <2>2, <2>3 DEF next, calls
    <3>2. Current(cache) /\ Inform \subseteq covers[cache] /\ (cl[c].ca <= cache \/ cache \in expired)
      BY <1>3, <2>3 DEF CopySound, DiskSound, Current
    <3>3. /\ cl'[c].ca <= cl'[c].chain \/ cl'[c].chain \in expired'
          /\ cl'[c].want.host \in covers'[cl'[c].chain]
      BY <1>2, <1>4, <2>2, <3>2 DEF Want
    <3> QED BY <1>2, <1>3, <1>5, <1>6, <3>1, <3>3 DEF CopySound, Want, Current
  <2>4. CASE cache = Ch!Missing
    <3> DEFINE e == Ch!Asking(InterceptHosts(live))
    <3>1. cl'[c].pc = "mint" /\ ens' = [ens EXCEPT ![Srv(c)] = e]
      BY <2>1, <2>2, <2>4 DEF next, calls
    <3>2. e.hosts = Inform /\ e.at = "read"
      BY AskingIs, HostsGiven DEF Inform
    <3> HIDE DEF e
    <3>3. ens'[Srv(c)] = e /\ \A t \in Handlers \ {Srv(c)} : ens'[t] = ens[t]
      BY <3>1, CallNames DEF ChainTyped
    <3>4. \A t \in Handlers : /\ ens'[t].at # "idle" => ens'[t].hosts = Inform
                              /\ ens'[t].at = "done" => /\ Current(ens'[t].got.leaf)
                                                        /\ ens'[t].got.key = ens'[t].got.leaf
      BY <3>2, <3>3 DEF CopySound
    <3>5. \A d \in Clients :
             /\ cl'[d].pc = "mint" => cl'[d].want.host \in ens'[Srv(d)].hosts
             /\ cl'[d].pc = "shake" => /\ cl'[d].ca <= cl'[d].chain \/ cl'[d].chain \in expired
                                       /\ cl'[d].want.host \in covers[cl'[d].chain]
             /\ cl'[d].pc # "refused"
      <4> TAKE d \in Clients
      <4>1. CASE d = c
        BY <1>4, <2>2, <3>1, <3>2, <3>3, <4>1 DEF Want
      <4>2. CASE d # c
        BY <1>6, <3>3, <4>2, CallNames DEF CopySound, Want
      <4> QED BY <4>1, <4>2
    <3> QED BY <1>2, <1>3, <1>5, <2>4, <3>4, <3>5 DEF CopySound, Want, Current
  <2> QED BY <2>3, <2>4
<1> QED BY <1>7, <1>8

LEMMA MintCopies ==
  ASSUME ChainTyped, DiskSound, CopySound, Good, NEW t \in Handlers, Minted(t),
         \/ cl' = cl /\ \A c \in Clients : t # Srv(c)
         \/ \E c \in Clients : t = Srv(c) /\ Mint(c)
  PROVE  CopySound'
<1>1. /\ UNCHANGED <<disk, covers, expired, past, op, live>> /\ ens[t].at \in {"done", "failed"}
      /\ ens'[t].at = "idle" /\ \A u \in Handlers \ {t} : ens'[u] = ens[u]
      /\ cache' = IF Copied(t) THEN ens[t].got.leaf ELSE cache
      /\ Copied(t) => ens[t].got.leaf \in DOMAIN covers
  BY MintedDoes, CallNames DEF OnlyCall
<1>2. /\ Copied(t) /\ Current(ens[t].got.leaf) /\ ens[t].hosts = Inform
      /\ Inform \subseteq covers[ens[t].got.leaf]
  <2>1. ens[t].at = "done"
    BY <1>1 DEF DiskSound
  <2>2. Current(ens[t].got.leaf) /\ ens[t].got.key = ens[t].got.leaf /\ ens[t].hosts = Inform
    BY <2>1 DEF CopySound
  <2>3. CallTyped(ens[t], covers)
    BY CallNames DEF ChainTyped
  <2>4. ens[t].hosts \subseteq covers[ens[t].got.leaf]
    BY <2>1, <2>3 DEF CallTyped
  <2> QED BY <2>1, <2>2, <2>4 DEF Copied
<1>3. Inform' = Inform
  BY <1>1 DEF Inform, InterceptHosts
<1>4. \A d \in Clients :
         /\ cl'[d].pc = "mint" => cl'[d].want.host \in ens'[Srv(d)].hosts
         /\ cl'[d].pc = "shake" => /\ cl'[d].ca <= cl'[d].chain \/ cl'[d].chain \in expired
                                   /\ cl'[d].want.host \in covers[cl'[d].chain]
         /\ cl'[d].pc # "refused"
  <2>1. CASE cl' = cl /\ \A c \in Clients : t # Srv(c)
    BY <1>1, <2>1, CallNames DEF CopySound, Want
  <2>2. ASSUME NEW c \in Clients, t = Srv(c), Mint(c)
        PROVE  \A d \in Clients :
                 /\ cl'[d].pc = "mint" => cl'[d].want.host \in ens'[Srv(d)].hosts
                 /\ cl'[d].pc = "shake" => /\ cl'[d].ca <= cl'[d].chain \/ cl'[d].chain \in expired
                                           /\ cl'[d].want.host \in covers[cl'[d].chain]
                 /\ cl'[d].pc # "refused"
    <3>1. /\ cl[c].pc = "mint" /\ \A d \in Clients \ {c} : cl'[d] = cl[d]
          /\ cl'[c].ca = cl[c].ca /\ cl'[c].want = cl[c].want
          /\ cl'[c].pc = "shake" /\ cl'[c].chain = ens[t].got.leaf
      BY <1>2, <2>2, MintDoes
    <3>2. cl[c].want.host \in Inform /\ cl[c].ca <= disk.ca
      BY <1>2, <2>2, <3>1 DEF CopySound, DiskSound, Want
    <3>3. \A d \in Clients \ {c} : ens'[Srv(d)] = ens[Srv(d)]
      BY <1>1, <2>2, CallNames
    <3> TAKE d \in Clients
    <3>4. CASE d = c
      BY <1>1, <1>2, <3>1, <3>2, <3>4 DEF Current
    <3>5. CASE d # c
      BY <3>1, <3>3, <3>5 DEF CopySound, Want
    <3> QED BY <3>4, <3>5
  <2> QED BY <2>1, <2>2
<1> QED BY <1>1, <1>2, <1>3, <1>4 DEF CopySound, Want, Current

LEMMA RestartCopies ==
  ASSUME ChainTyped, CopySound, Good, Restart
  PROVE  CopySound'
<1>1. /\ UNCHANGED <<disk, covers, past>> /\ cache' = Ch!Missing /\ live' = file
      /\ ens'[Srv(Daemon)] = Ch!Asking(InterceptHosts(file))
      /\ \A c \in Clients : ens'[Srv(c)] = Ch!Idle
      /\ \A c \in Clients : cl'[c].pc \notin {"mint", "shake", "refused"}
  BY RestartDoes
<1>2. /\ Ch!Asking(InterceptHosts(file)).at = "read" /\ Ch!Idle.at = "idle"
      /\ Ch!Asking(InterceptHosts(file)).hosts = Inform'
  BY <1>1, AskingIs, HostsGiven, IdleIs DEF Inform, InterceptHosts
<1>3. \A t \in Handlers : ens'[t].at \in {"idle", "read"} /\ (ens'[t].at = "read" => ens'[t].hosts = Inform')
  BY <1>1, <1>2, CallNames
<1> QED BY <1>1, <1>3 DEF CopySound

LEMMA QuietCopies ==
  ASSUME ChainTyped, DiskSound, CopySound, Good, Quiet, "late" \notin past'.tags
  PROVE  CopySound'
<1>1. /\ UNCHANGED <<disk, covers, expired, ens>>
      /\ \A c \in Clients : /\ cl'[c].want = cl[c].want /\ cl'[c].chain = cl[c].chain
                            /\ cl'[c].pc \in {"start", "mint", "shake", "refused"} => cl'[c].pc = cl[c].pc
                            /\ cl'[c].pc = "shake" => cl'[c].ca = cl[c].ca
  BY QuietDoes
<1>2. \/ live' = live /\ (op'.at = "drop" \/ op'.at = op.at \/ (op.at # "drop" /\ cache' = cache) \/ cache' = Ch!Missing)
      \/ Publish
  BY DEF Quiet, Trust, Pass, Refused, Shake, Arrive, Serve, Edit, Rekey, SyncPools, DropChain, LookUp,
         SwitchTo, SetRoutePin, vars
<1>3. cache' \in {cache, Ch!Missing}
  BY QuietDoes
<1>4. \A t \in Handlers : ens[t].at # "idle" => ens[t].hosts = Inform'
  <2>1. CASE live' = live
    BY <2>1 DEF CopySound, Inform, InterceptHosts
  <2>2. CASE Publish
    <3>1. PastTyped
      BY DEF Good, Wired
    <3>2. live' = file /\ \A t \in Handlers : ~Outdated(t, file)
      BY <2>2, <3>1 DEF Publish, Tag, PastTyped
    <3>3. Inform' = InterceptHosts(file) \cup {TestHost}
      BY <3>2 DEF Inform, InterceptHosts
    <3> QED BY <3>2, <3>3 DEF Outdated
  <2> QED BY <1>2, <2>1, <2>2
<1>5. cache' # Ch!Missing /\ op'.at # "drop" => Current(cache)' /\ Inform' \subseteq covers[cache']
  <2>1. CASE live' = live /\ (op'.at = "drop" \/ op'.at = op.at \/ op.at # "drop" \/ cache' = Ch!Missing)
    <3>1. Inform' = Inform
      BY <2>1 DEF Inform, InterceptHosts
    <3> QED BY <1>3, <2>1, <1>1, <3>1 DEF CopySound, Current
  <2>2. CASE Publish
    <3>1. op'.at = "drop"
      BY <2>2 DEF Publish, Good, Wired, OpTyped
    <3> QED BY <3>1
  <2> QED BY <1>2, <2>1, <2>2
<1>6. past'.broken = {}
  <2>1. PastTyped /\ past.broken = {}
    BY DEF Good, Wired, CopySound
  <2>2. ASSUME NEW c \in Clients, Shake(c) PROVE past'.broken = {}
    <3>1. (cl[c].ca <= cl[c].chain \/ cl[c].chain \in expired) /\ Want(c).host \in covers[cl[c].chain]
      BY <2>2 DEF Shake, CopySound
    <3>2. cl[c].ca \in Nat /\ cl[c].chain \in Nat
      <4>1. cl[c].ca \in Chains(covers)
        BY DEF DiskSound
      <4>2. cl[c].chain \in DOMAIN covers
        BY <2>2 DEF Shake, ChainTyped, ClientPlaced
      <4> QED BY <4>1, <4>2, Numbers
    <3>3. past' = past
      BY <2>2, <3>1, <3>2 DEF Shake
    <3> QED BY <2>1, <3>3
  <2>3. ASSUME NEW c \in Clients, Refused(c) PROVE FALSE
    BY <2>3 DEF Refused, CopySound
  <2>4. ASSUME NEW c \in Clients, Trust(c) \/ Pass(c) \/ Arrive(c) \/ Serve(c) PROVE past'.broken = {}
    BY <2>1, <2>4 DEF Trust, Pass, Arrive, Serve, PastTyped
  <2>5. ASSUME \/ Edit \/ Rekey \/ SyncPools \/ Publish \/ DropChain \/ LookUp \/ SwitchTo \/ SetRoutePin
               \/ UNCHANGED vars
        PROVE  past'.broken = {}
    BY <2>1, <2>5 DEF Edit, Rekey, SyncPools, Publish, DropChain, LookUp, SwitchTo, SetRoutePin, vars, PastTyped,
                      Tag
  <2> QED BY <2>2, <2>3, <2>4, <2>5 DEF Quiet
<1>7. \A c \in Clients :
         /\ cl'[c].pc = "mint" => cl'[c].want.host \in ens'[Srv(c)].hosts
         /\ cl'[c].pc = "shake" => /\ cl'[c].ca <= cl'[c].chain \/ cl'[c].chain \in expired'
                                   /\ cl'[c].want.host \in covers'[cl'[c].chain]
         /\ cl'[c].pc # "refused"
  BY <1>1 DEF CopySound, Want
<1> QED BY <1>1, <1>4, <1>5, <1>6, <1>7 DEF CopySound, Want, Current

LEMMA ExpiryCopies ==
  ASSUME CopySound, Expiry
  PROVE  CopySound'
<1>1. UNCHANGED <<disk, covers, ens, live, op, cache, cl, past>> /\ expired \subseteq expired'
  BY ExpiryDoes
<1>2. Inform' = Inform
  BY <1>1 DEF Inform, InterceptHosts
<1> QED BY <1>1, <1>2 DEF CopySound, Current, Want

LEMMA InitCopies ==
  ASSUME Init
  PROVE  CopySound
<1>1. /\ cache = Ch!Missing /\ past.broken = {}
      /\ ens[Srv(Daemon)] = Ch!Asking(InterceptHosts(live))
      /\ \A t \in Ch!Tasks \ {Srv(Daemon)} : ens[t] = Ch!Idle
      /\ \A c \in Clients : cl[c].pc = "start"
  BY InitDoes
<1>2. /\ Ch!Asking(InterceptHosts(live)).at = "read" /\ Ch!Idle.at = "idle"
      /\ Ch!Asking(InterceptHosts(live)).hosts = Inform
  BY AskingIs, HostsGiven, IdleIs DEF Inform
<1>3. \A t \in Handlers : ens[t].at \in {"idle", "read"} /\ (ens[t].at = "read" => ens[t].hosts = Inform)
  BY <1>1, <1>2, CallNames
<1> QED BY <1>1, <1>3 DEF CopySound

\* What the history says of a rift or a late reload, it says for ever.
LEMMA HistoryStays ==
  ASSUME Good, [Next]_vars
  PROVE  past.tags \subseteq past'.tags /\ rift \subseteq rift'
<1>1. PastTyped
  BY DEF Good, Wired
<1>2. rift \subseteq rift'
  <2>1. ASSUME NEW t \in Ch!Tasks, Ch!Read(t) \/ Ch!Write(t) \/ Ch!Clash(t) \/ Ch!Cut(t) PROVE rift \subseteq rift'
    BY <2>1 DEF Ch!Read, Ch!Write, Ch!Clash, Ch!Cut
  <2>2. ASSUME NEW c \in Clients, Launch(c) \/ Connect(c) \/ Mint(c) PROVE rift \subseteq rift'
    BY <2>2 DEF Launch, Connect, Mint, Minted
  <2> QED BY <2>1, <2>2, Steps, QuietDoes, ExpiryDoes DEF PreMint, Minted, Restart
<1>3. past.tags \subseteq past'.tags
  <2>1. ASSUME NEW c \in Clients, ClientStep(c) PROVE past.tags \subseteq past'.tags
    BY <1>1, <2>1 DEF ClientStep, Launch, Trust, Pass, Connect, Mint, Minted, Refused, Shake, Arrive, Serve,
                      PastTyped, Tag
  <2>2. ASSUME ~\E c \in Clients : ClientStep(c) PROVE past.tags \subseteq past'.tags
    BY <1>1, <2>2 DEF Next, EnsureStep, Fault, Edit, Rekey, SyncPools, Publish, DropChain, LookUp, SwitchTo,
                      SetRoutePin, PreMint, Minted, Expiry, Restart, vars, PastTyped, Tag
  <2> QED BY <2>1, <2>2
<1> QED BY <1>2, <1>3

LEMMA StepCopies ==
  ASSUME ChainTyped, DiskSound, CopySound, Good, [Next]_vars, rift' = {}, "late" \notin past'.tags
  PROVE  CopySound'
<1>1. ASSUME NEW t \in Ch!Tasks, Ch!Clash(t) PROVE FALSE
  BY <1>1 DEF Ch!Clash
<1>2. ASSUME PreMint PROVE CopySound'
  BY <1>2, MintCopies, CallNames DEF PreMint
<1>3. ASSUME NEW c \in Clients, Mint(c) PROVE CopySound'
  BY <1>3, MintCopies, MintDoes, CallNames
<1> QED BY <1>1, <1>2, <1>3, Steps, ReadCopies, WriteCopies, CutCopies, LaunchCopies, ConnectCopies,
           ExpiryCopies, RestartCopies, QuietCopies

\* The invariant of the certificates.
THEOREM LinkedAlways == Spec => []Linked
<1>1. Init => Linked
  BY InitTyped, InitSound, InitCopies DEF Linked
<1>2. Good /\ Good' /\ Linked /\ [Next]_vars => Linked'
  <2>1. SUFFICES ASSUME Good, Good', Linked, [Next]_vars PROVE Linked'
    OBVIOUS
  <2>2. past.tags \subseteq past'.tags /\ rift \subseteq rift'
    BY <2>1, HistoryStays
  <2> QED BY <2>1, <2>2, StepTyped, StepSound, StepCopies DEF Linked
<1> QED BY <1>1, <1>2, GoodAlways, PTL DEF Spec

\* A client that trusts the last chain and is shown a leaf that has not expired
\* is never refused by TLS, unless two wrote a chain at a time, a write was cut
\* short, or a reload came between the choice of the hosts and the caching.
THEOREM ChainsWork == Spec => []ChainWorks
<1>1. Linked => ChainWorks
  BY DEF Linked, CopySound, ChainWorks
<1> QED BY <1>1, LinkedAlways, PTL
============================================================================
