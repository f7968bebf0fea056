------------------------------- MODULE Updater -------------------------------
(***************************************************************************)
(* `corrall update` (src/src/update.rs): the release is fetched and        *)
(* verified, the binary is copied to <target>.prev and replaced by a       *)
(* rename, the systemd unit is restarted, and a server that does not       *)
(* answer is rolled back.  Nothing keeps two updates apart, and each may   *)
(* be killed anywhere.                                                     *)
(*                                                                         *)
(* Files are inodes, since a copy writes to the one it has opened whatever *)
(* is renamed meanwhile.  A release is a number.                           *)
(***************************************************************************)
EXTENDS Naturals, Sequences, FiniteSets

CONSTANTS
    Updates,    \* The calls of `corrall update`.
    Plans,      \* Their arguments: [version, allowMajor, after], where after is
                \* "nothing", "restart" or, with the health check, "watch".
    Last,       \* Releases are numbered up to this one.
    Majors,     \* The releases that begin a major version.
    Sane,       \* Those whose archive verifies and whose binary runs.
    Healthy,    \* Those whose server answers on /corrall/health.
    Latest,     \* For a plan: no --version.
    MaxKills, MaxFaults, MaxServices    \* Bounds.

ASSUME UpdaterAssumption ==
    /\ Last \in Nat \ {0} /\ 1 \in Healthy /\ Healthy \subseteq Sane /\ Sane \subseteq 1..Last
    /\ Majors \subseteq 1..Last /\ Latest \notin 1..Last
    /\ Plans \subseteq [version : 1..Last \cup {Latest}, allowMajor : BOOLEAN,
                        after : {"nothing", "restart", "watch"}]
    /\ {MaxKills, MaxFaults, MaxServices} \subseteq Nat

VARIABLES
    content,      \* The release each inode holds, or Torn.
    target,       \* The inode at the path of the binary,
    prev,         \* and the one at <target>.prev, or NoFile.
    unit,         \* The systemd unit: its state and the release it runs.
    published,    \* The latest release.
    up,           \* The updates.
    spent,        \* How much of each bound is used up.
    past          \* History: "twin" when two updates were between their backup
                  \* and their end at a time; "excused" when nobody can expect
                  \* the service to be up: an update was killed, a step of one
                  \* failed, no restart, health check or service was wanted,
                  \* or the unit was about to be started again by systemd.

vars == <<content, target, prev, unit, published, up, spent, past>>

Torn   == 0
NoFile == 0

Whole(n)  == n # NoFile /\ content[n] # Torn
Active    == unit.state = "active"
Answering == Active /\ unit.runs \in Healthy
Busy(u)   == up[u].pc \in {"copying", "swap", "restart", "health", "again"}

Excuse   == past \cup {"excused"}
Spend(b) == spent' = [spent EXCEPT ![b] = @ + 1]
Fault    == spent.faults < MaxFaults /\ Spend("faults") /\ past' = Excuse
Goes(u, pc) == up' = [up EXCEPT ![u].pc = pc]

----------------------------------------------------------------------------
\* compare: what the fence lets through.
Crosses(from, to) == \E m \in Majors : from < m /\ m <= to
Passes(plan, from, to) ==
    plan.version # Latest \/ (from < to /\ (Crosses(from, to) => plan.allowMajor))

\* run: the release is chosen by the binary that runs the command.
Begin(u) ==
    /\ up[u].pc = "start" /\ Whole(target)
    /\ \E plan \in Plans :
          LET from == content[target]
              tag  == IF plan.version = Latest THEN published ELSE plan.version
          IN  /\ tag <= published
              /\ up' = [up EXCEPT ![u] = [@ EXCEPT !.pc = IF Passes(plan, from, tag) THEN "fetch" ELSE "ended",
                                                   !.tag = tag, !.after = plan.after]]
    /\ UNCHANGED <<content, target, prev, unit, published, spent, past>>

\* apply: download, checksum, signature, unpacking and a first run.
Fetch(u) ==
    /\ up[u].pc = "fetch"
    /\ \/ up[u].tag \in Sane /\ Goes(u, "backup") /\ UNCHANGED <<spent, past>>
       \/ up[u].tag \notin Sane /\ Goes(u, "ended") /\ UNCHANGED <<spent, past>>
       \/ Fault /\ Goes(u, "ended")
    /\ UNCHANGED <<content, target, prev, unit, published>>

\* std::fs::copy to <target>.prev: the file is made, or cut to nothing, ...
OpenBackup(u) ==
    /\ up[u].pc = "backup"
    /\ LET fd == IF prev = NoFile THEN Len(content) + 1 ELSE prev
       IN  /\ content' = IF prev = NoFile THEN Append(content, Torn) ELSE [content EXCEPT ![prev] = Torn]
           /\ prev' = fd
           /\ up' = [up EXCEPT ![u].pc = "copying", ![u].fd = fd, ![u].src = target]
    /\ past' = IF \E v \in Updates \ {u} : Busy(v) THEN past \cup {"twin"} ELSE past
    /\ UNCHANGED <<target, unit, published, spent>>

\* ... then filled.
EndBackup(u) ==
    /\ up[u].pc = "copying"
    /\ content' = [content EXCEPT ![up[u].fd] = content[up[u].src]]
    /\ up' = [up EXCEPT ![u].pc = "swap", ![u].kept = TRUE]
    /\ UNCHANGED <<target, prev, unit, published, spent, past>>

\* Mutant: a copy that is there will do.
BackupMissed(u) ==
    /\ up[u].pc \in {"backup", "copying"}
    /\ Fault
    /\ up' = [up EXCEPT ![u].pc = "swap", ![u].kept = prev # NoFile]
    /\ past' = IF \E v \in Updates \ {u} : Busy(v) THEN past \cup {"twin"} ELSE past
    /\ UNCHANGED <<content, target, prev, unit, published>>

\* A copy that fails, before or after it has opened the file, is done without.
BackupFails(u) ==
    /\ up[u].pc \in {"backup", "copying"}
    /\ spent.faults < MaxFaults /\ Spend("faults")
    /\ up' = [up EXCEPT ![u].pc = "swap", ![u].kept = FALSE]
    /\ past' = Excuse \cup (IF \E v \in Updates \ {u} : Busy(v) THEN {"twin"} ELSE {})
    /\ UNCHANGED <<content, target, prev, unit, published>>

\* Mutant: the binary is copied over the old one.
CopyOver(u) ==
    /\ up[u].pc = "swap"
    /\ \/ content' = [content EXCEPT ![target] = Torn] /\ UNCHANGED up
       \/ content' = [content EXCEPT ![target] = up[u].tag]
          /\ up' = [up EXCEPT ![u].pc = "restart", ![u].base = content[target]]
    /\ UNCHANGED <<target, prev, unit, published, spent, past>>

\* replace: a copy beside the target, and a rename.
Swap(u) ==
    /\ up[u].pc = "swap"
    /\ \/ /\ content' = Append(content, up[u].tag)
          /\ target' = Len(content) + 1
          /\ up' = [up EXCEPT ![u].pc = "restart", ![u].base = content[target]]
          /\ UNCHANGED <<spent, past>>
       \/ /\ Fault /\ Goes(u, "ended")
          /\ UNCHANGED <<content, target>>
    /\ UNCHANGED <<prev, unit, published>>

\* What starting the unit does: the server is the binary that is there now.
Started == [state |-> "active", runs |-> content[target]]

\* restart_service, of a unit that is active.
Restarted(u, onTo) ==
    /\ Active
    /\ \/ unit' = Started /\ Goes(u, onTo) /\ UNCHANGED <<spent, past>>
       \/ Fault /\ Goes(u, "ended") /\ UNCHANGED unit

\* A unit that is not active - off, or about to be started again - is left
\* alone, and nobody looks how it does then.
Restart(u) ==
    /\ up[u].pc = "restart"
    /\ \/ up[u].after = "watch" /\ Restarted(u, "health")
       \/ /\ up[u].after = "restart" /\ Active
          /\ unit' = Started /\ Goes(u, "ended")
          /\ past' = Excuse /\ UNCHANGED spent
       \/ /\ up[u].after = "nothing" \/ ~Active
          /\ Goes(u, "ended")
          /\ past' = Excuse
          /\ UNCHANGED <<unit, spent>>
    /\ UNCHANGED <<content, target, prev, published>>

\* wait_healthy: an answer in 20 seconds, of whatever server gives it.
FindHealthy(u) ==
    /\ up[u].pc = "health" /\ Answering
    /\ Goes(u, "ended")
    /\ UNCHANGED <<content, target, prev, unit, published, spent, past>>

\* None, or none in time: the backup takes the place of the binary.
RollBack(u) ==
    /\ up[u].pc = "health"
    /\ \/ /\ IF Answering THEN spent.faults < MaxFaults /\ Spend("faults") ELSE UNCHANGED spent
          /\ IF up[u].kept /\ prev # NoFile
             THEN target' = prev /\ prev' = NoFile /\ Goes(u, "again")
             ELSE UNCHANGED <<target, prev>> /\ Goes(u, "ended")
          /\ UNCHANGED past
       \/ /\ up[u].kept /\ prev # NoFile    \* The rename fails.
          /\ Fault /\ Goes(u, "ended")
          /\ UNCHANGED <<target, prev>>
    /\ UNCHANGED <<content, unit, published>>

\* Mutant: the binary is back, the server is not.
NotAgain(u) ==
    /\ up[u].pc = "again"
    /\ Goes(u, "ended")
    /\ UNCHANGED <<content, target, prev, unit, published, spent, past>>

RestartAgain(u) ==
    /\ up[u].pc = "again"
    /\ Restarted(u, "ended") \/ (~Active /\ Goes(u, "ended") /\ UNCHANGED <<unit, spent, past>>)
    /\ UNCHANGED <<content, target, prev, published>>

Kill(u) ==
    /\ up[u].pc \notin {"start", "ended"}
    /\ spent.kills < MaxKills /\ Spend("kills")
    /\ Goes(u, "ended") /\ past' = Excuse
    /\ UNCHANGED <<content, target, prev, unit, published>>

----------------------------------------------------------------------------
(* Around the updates: the project, systemd and `corrall service`.         *)

Publish ==
    /\ published < Last
    /\ published' = published + 1
    /\ UNCHANGED <<content, target, prev, unit, up, spent, past>>

\* A release that does not answer may also exit, ...
Exit ==
    /\ Active /\ ~Answering
    /\ unit' = [unit EXCEPT !.state = "activating"]
    /\ UNCHANGED <<content, target, prev, published, up, spent, past>>

\* ... and Restart=on-failure starts it again.
StartAgain ==
    /\ unit.state = "activating"
    /\ unit' = Started
    /\ UNCHANGED <<content, target, prev, published, up, spent, past>>

\* service: enable --now leaves a running unit alone, disable --now stops it.
Service ==
    /\ spent.services < MaxServices /\ Spend("services")
    /\ \/ /\ unit.state = "off" /\ Whole(target)
          /\ unit' = Started
       \/ unit.state # "off" /\ unit' = [unit EXCEPT !.state = "off"]
    /\ past' = Excuse
    /\ UNCHANGED <<content, target, prev, published, up>>

----------------------------------------------------------------------------
Step(u) == \/ Begin(u) \/ Fetch(u) \/ OpenBackup(u) \/ EndBackup(u) \/ BackupFails(u) \/ Swap(u)
           \/ Restart(u) \/ FindHealthy(u) \/ RollBack(u) \/ RestartAgain(u)

Next == \/ \E u \in Updates : Step(u) \/ Kill(u)
        \/ Publish \/ Exit \/ StartAgain \/ Service

Init ==
    /\ content = <<1>> /\ target = 1 /\ prev = NoFile
    /\ unit = [state |-> "active", runs |-> 1]
    /\ published = 1
    /\ up = [u \in Updates |-> [pc |-> "start", tag |-> Torn, after |-> "watch", fd |-> NoFile, src |-> NoFile,
                                kept |-> FALSE, base |-> Torn]]
    /\ spent = [kills |-> 0, faults |-> 0, services |-> 0]
    /\ past = {}

\* An update goes on until it ends, and systemd starts what has exited.
Fairness == /\ \A u \in Updates : WF_vars(up[u].pc # "start" /\ Step(u))
            /\ WF_vars(StartAgain)

Spec == Init /\ [][Next]_vars /\ Fairness

----------------------------------------------------------------------------
(* Properties. *)

\* Whenever an update is killed or fails, the path of the binary holds a whole
\* one: the next start of the unit, and the next update, find it - unless two
\* updates shared the backup, which one may rename while the other fills it
\* (update.rs:314-317).
TargetRuns == "twin" \in past \/ Whole(target)

\* What an update puts back is what it replaced, not what some earlier one left
\* in <target>.prev (update.rs:124-127, 314-317).
BringsBack == \A u \in Updates : up[u].pc = "again" /\ "twin" \notin past => content[target] = up[u].base

\* A release whose server does not answer, or exits, or is started again and
\* again, does not keep the service down: it answers again, on the new binary or
\* the old one - unless an update was killed, a step of it failed or shared the
\* backup with another, or nobody wanted the service (README.md:338).
ServiceComesBack == []<>(Answering \/ past # {})
=============================================================================
