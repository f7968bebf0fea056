-------------------------------- MODULE Chain --------------------------------
(***************************************************************************)
(* The certificate chain of the intercepting proxy (src/src/proxy/mitm.rs):*)
(* a CA, a leaf and the leaf's key, in three files that the server and     *)
(* every `corrall run`, `env` and `ca-path` check and, when they have to,  *)
(* write again, each by itself and without a lock.                         *)
(*                                                                         *)
(* A chain is a number: what the three files say of one generation.        *)
(***************************************************************************)
EXTENDS Naturals, Sequences, FiniteSets

CONSTANTS
    Commands,    \* The calls of ensure_certs made by commands.
    Handlers,    \* Those made by tasks of the server.
    TestHost     \* TEST_HOST, which every chain covers.

VARIABLES
    disk,    \* The chain each of the three files belongs to.
    covers,  \* The hosts the leaf of every chain is for.
    expired, \* The chains whose leaf has run out.
    ens,     \* Where each call of ensure_certs is.
    rift     \* History: "twin" when a chain was written while another call was
             \* under way, "cut" when a call ended between two writes.

chainVars == <<disk, covers, expired, ens, rift>>

Tasks   == Commands \cup Handlers
Missing == 0
Torn    == Cardinality(Tasks) * 3 + 1    \* Content no parser takes.

All3(n) == [ca |-> n, leaf |-> n, key |-> n]
Idle    == [at |-> "idle", left |-> <<>>, hosts |-> {}, got |-> All3(Missing)]

InitChain == /\ disk = All3(Missing) /\ covers = <<>> /\ expired = {}
             /\ ens = [t \in Tasks |-> Idle] /\ rift = {}

UnderWay(t) == ens[t].at \in {"read", "write"}
Ended(t)    == ens[t].at \in {"done", "failed"}

\* The call of ensure_certs that t makes for hosts.
Asking(hosts) == [at |-> "read", left |-> <<"ca", "leaf", "key">>, hosts |-> hosts \cup {TestHost},
                  got |-> All3(Missing)]

\* Mutant: the files are there, so they are good.
LeafIsThere(got, hosts) == got.leaf \in DOMAIN covers

\* leaf_covers: the leaf is signed by the CA, has not expired and names the hosts.
\* The key is not looked at.
LeafCovers(got, hosts) == /\ got.leaf = got.ca
                          /\ got.leaf \in DOMAIN covers \ expired
                          /\ hosts \subseteq covers[got.leaf]

\* The files are read one by one; after the last they are judged, and a chain
\* that will not do is generated again.
Read(t) ==
    LET name == Head(ens[t].left)
        got  == [ens[t].got EXCEPT ![name] = disk[name]]
        good == got.key # Missing /\ LeafCovers(got, ens[t].hosts)
    IN  /\ ens[t].at = "read"
        /\ IF Len(ens[t].left) > 1
           THEN /\ ens' = [ens EXCEPT ![t].got = got, ![t].left = Tail(@)]
                /\ UNCHANGED covers
           ELSE IF good
           THEN /\ ens' = [ens EXCEPT ![t].got = got, ![t].left = <<>>, ![t].at = "done"]
                /\ UNCHANGED covers
           ELSE /\ covers' = Append(covers, ens[t].hosts)
                /\ ens' = [ens EXCEPT ![t].got = All3(Len(covers) + 1), ![t].at = "write",
                                      ![t].left = <<"key", "leaf", "ca">>]
    /\ UNCHANGED <<disk, expired, rift>>

Others(t) == {u \in Tasks \ {t} : UnderWay(u)}

\* One file is replaced, by a write to a temporary file and a rename.
Write(t) ==
    /\ ens[t].at = "write"
    /\ disk' = [disk EXCEPT ![Head(ens[t].left)] = ens[t].got.key]
    /\ ens' = [ens EXCEPT ![t].left = Tail(@), ![t].at = IF Len(ens[t].left) = 1 THEN "done" ELSE @]
    /\ rift' = IF Others(t) = {} THEN rift ELSE rift \cup {"twin"}
    /\ UNCHANGED <<covers, expired>>

\* The temporary file is named by the path without its extension and the pid:
\* the leaf and its key share one.
Tmp(name) == IF name = "ca" THEN "corrall-ca" ELSE "corrall-leaf"

\* Two tasks of the server use one temporary file: the rename of t finds it
\* gone, and what u has put in place is its own, t's, or cut short.
Clash(t) ==
    /\ ens[t].at = "write" /\ t \in Handlers
    /\ \E u \in Handlers \ {t} :
          /\ ens[u].at = "write" /\ Tmp(Head(ens[u].left)) = Tmp(Head(ens[t].left))
          /\ \E n \in {ens[u].got.key, Torn}
                      \cup (IF Head(ens[u].left) = Head(ens[t].left) THEN {ens[t].got.key} ELSE {}) :
                /\ disk' = [disk EXCEPT ![Head(ens[u].left)] = n]
                /\ ens' = [ens EXCEPT ![t].at = "failed", ![t].left = <<>>,
                                      ![u].left = Tail(@), ![u].at = IF Len(ens[u].left) = 1 THEN "done" ELSE @]
    /\ rift' = rift \cup {"twin"}
    /\ UNCHANGED <<covers, expired>>

\* The command is killed, or a write fails.
Cut(t) ==
    /\ ens[t].at \in (IF t \in Commands THEN {"read", "write"} ELSE {"write"})
    /\ ens' = [ens EXCEPT ![t].at = "failed", ![t].left = <<>>]
    /\ rift' = IF ens[t].at = "write" THEN rift \cup {"cut"} ELSE rift
    /\ UNCHANGED <<disk, covers, expired>>

\* 397 days have gone by since the oldest chain still good was generated; no
\* call takes that long to write it.
Expire ==
    /\ \E n \in DOMAIN covers \ expired :
          /\ \A m \in DOMAIN covers : m < n => m \in expired
          /\ \A t \in Tasks : ens[t].at = "write" => ens[t].got.key # n
          /\ expired' = expired \cup {n}
    /\ UNCHANGED <<disk, covers, ens, rift>>
=============================================================================
