----------------------------- MODULE L2tpRelay -----------------------------
(***************************************************************************)
(* The scripts of node-artifacts/l2tp on the relay itself: what each step   *)
(* of an operation does to the managed files, to the nftables namespace,    *)
(* to the services and to the operation's own directory, and what rollback  *)
(* brings back.  L2tpOperation treats a step as one change of the node;     *)
(* here a script may also fail or be killed half way, and is then executed  *)
(* again from the operation's first step or rolled back.                    *)
(*                                                                          *)
(* A file's content is a number: 0 for a file that does not exist, i for    *)
(* what the i-th operation writes, Base for what the host had.  A service   *)
(* is {} when stopped and {c} when it runs with content c.  A script is     *)
(* given by the node states in which it can end well (`ok`), report an      *)
(* error (`err`) or be killed (`cut`).                                      *)
(***************************************************************************)
EXTENDS Naturals, SequencesExt

CONSTANTS MaxRelayOps,   \* operations executed on the node
          MaxRelayKills  \* scripts killed half way

ASSUME RelayAssumption == MaxRelayOps \in Nat /\ MaxRelayKills \in Nat

VARIABLES file,  \* content of every managed file
          ns,    \* parts of the module's namespace that exist
          unit,  \* services
          odir,  \* the current operation's directory
          task   \* the current operation and how far it is

relayVars == <<file, ns, unit, odir, task>>

StagedFiles == <<"ipsec", "xl2tpd", "chap", "nft">>
ManagedPaths == Append(StagedFiles, "xray")
L2tpUnits == <<"strongswan", "xl2tp">>
Config == [strongswan |-> "ipsec", xl2tp |-> "xl2tpd", xray |-> "xray"]
Namespace == <<"table", "rule", "route">>
Base == MaxRelayOps + 1

InstallSteps == <<"preflight", "backup", "stage", "validate", "activate_xray",
                  "apply_firewall", "start_l2tp", "sync_users", "verify", "commit">>
SyncSteps == <<"backup", "sync_users", "verify_users">>

EmptyDir == [backup |-> {}, state |-> FALSE, firewall |-> FALSE,
             xrayWas |-> {}, unitsWere |-> {}, verified |-> FALSE]

Node == [file |-> file, ns |-> ns, unit |-> unit, dir |-> odir]

Begun(s) == {ToSet(p) : p \in Prefixes(s)}
Write(n, S, content) ==
    [n EXCEPT !.file = [f \in DOMAIN @ |-> IF f \in S THEN content[f] ELSE @[f]]]
Run(n, u) == [n EXCEPT !.unit[u] = {n.file[Config[u]]}]
Halt(n, u) == [n EXCEPT !.unit[u] = {}]
Script(ok, err, cut) == [ok |-> ok, err |-> err, cut |-> cut]

\* preflight, install_runtime, compose_xray_fragment, validate_*: nothing but
\* the operation's own candidates.
Check(n) == Script({n}, {n}, {n})

\* An existing manifest is kept; a new one appears in one rename.
Backup(n) ==
    LET done == [n EXCEPT !.dir.backup = IF @ = {} THEN {n.file} ELSE @]
    IN  Script({done}, {n}, {n, done})

\* Every file is staged before the first is renamed; the renames are not one.
Stage(n, c) ==
    LET to == [f \in DOMAIN n.file |-> c]
        part == {Write(n, S, to) : S \in Begun(StagedFiles)}
    IN  Script({Write(n, ToSet(StagedFiles), to)}, part, part)

\* Whether Xray ran is recorded once, before the first change; the config
\* needs a backup of its target.
ActivateXray(n, c) ==
    LET seen == [n EXCEPT !.dir.state = TRUE,
                          !.dir.xrayWas = IF @ = {} THEN {n.unit["xray"] # {}} ELSE @]
        put  == [seen EXCEPT !.file["xray"] = c]
        run  == Run(put, "xray")
    IN  IF n.dir.backup = {}
        THEN Script({}, {n}, {n})
        ELSE Script({run}, {n, seen, Halt(put, "xray")}, {n, seen, put, run})

\* A marker of this operation whose namespace is live means there is nothing
\* to do; anything else of ours is torn down first.  A command that fails
\* takes back the ones before it; a killed script does not.
ApplyFirewall(n) ==
    LET part == {[n EXCEPT !.ns = S] : S \in {n.ns} \cup Begun(Namespace)}
        bare == [n EXCEPT !.ns = {}, !.dir.firewall = FALSE]
        cut  == part \cup {[bare EXCEPT !.ns = S] : S \in Begun(Namespace)}
        done == [bare EXCEPT !.ns = ToSet(Namespace), !.dir.firewall = TRUE,
                             !.dir.state = TRUE]
    IN  IF n.dir.backup = {} THEN Script({}, {n}, {n})
        ELSE IF n.dir.firewall /\ n.ns = ToSet(Namespace) THEN Script({n}, {n}, {n})
        ELSE Script({done}, {n, bare}, cut \cup {done})

\* The bug of recording what runs on every execution of the script.
CaptureUnitsAgain(n) ==
    [n EXCEPT !.dir.state = TRUE,
              !.dir.unitsWere = {{u \in ToSet(L2tpUnits) : n.unit[u] # {}}}]

\* The services that ran are recorded once, before the first is restarted.
CaptureUnits(n) ==
    [n EXCEPT !.dir.state = TRUE,
              !.dir.unitsWere = IF @ = {}
                                THEN {{u \in ToSet(L2tpUnits) : n.unit[u] # {}}}
                                ELSE @]

StartL2tp(n) ==
    LET seen == CaptureUnits(n)
        down == Halt(seen, "strongswan")
        half == Run(down, "strongswan")
        done == Run(half, "xl2tp")
    IN  IF n.dir.backup = {}
        THEN Script({}, {n}, {n})
        ELSE Script({done}, {n, down, Halt(half, "xl2tp")}, {n, seen, down, half, done})

\* The managed block of chap-secrets is replaced in one rename.
SyncUsers(n, c) ==
    LET done == [n EXCEPT !.file["chap"] = c]
    IN  IF n.dir.backup = {} THEN Script({}, {n}, {n}) ELSE Script({done}, {n}, {n, done})

Healthy(n) ==
    /\ n.dir.firewall
    /\ n.ns = ToSet(Namespace)
    /\ \A u \in DOMAIN n.unit : n.unit[u] # {}

Verify(n) ==
    LET done == [n EXCEPT !.dir.verified = TRUE]
    IN  Script(IF Healthy(n) THEN {done} ELSE {}, {n}, {n})

Commit(n) == Script(IF n.dir.verified THEN {n} ELSE {}, {n}, {n})

StepScript(step, n, c) ==
    CASE step = "backup"         -> Backup(n)
      [] step = "stage"          -> Stage(n, c)
      [] step = "activate_xray"  -> ActivateXray(n, c)
      [] step = "apply_firewall" -> ApplyFirewall(n)
      [] step = "start_l2tp"     -> StartL2tp(n)
      [] step = "sync_users"     -> SyncUsers(n, c)
      [] step = "verify"         -> Verify(n)
      [] step = "commit"         -> Commit(n)
      [] OTHER                   -> Check(n)

-----------------------------------------------------------------------------
(* Rollback: the files of the manifest one by one, then, if there is a state *)
(* directory, the namespace, Xray and the services by their markers.         *)

RestoreOrder(b) ==
    SelectSeq(ManagedPaths, LAMBDA f : b[f] # 0) \o SelectSeq(ManagedPaths, LAMBDA f : b[f] = 0)

\* Every `ip` and `nft` deletion has to find what it deletes.
DropNamespace(n) ==
    IF ~n.dir.firewall THEN {n}
    ELSE IF n.ns = ToSet(Namespace) THEN {[n EXCEPT !.ns = {}]} ELSE {}

RestoreUnit(n, u, was) == IF was THEN Run(n, u) ELSE Halt(n, u)

RestoreXray(n) ==
    IF n.dir.xrayWas = {} THEN n ELSE RestoreUnit(n, "xray", TRUE \in n.dir.xrayWas)

RestoreUnits(n) ==
    IF n.dir.unitsWere = {} THEN n
    ELSE LET were == UNION n.dir.unitsWere
         IN  RestoreUnit(RestoreUnit(n, "strongswan", "strongswan" \in were),
                         "xl2tp", "xl2tp" \in were)

Rollback(n) ==
    IF n.dir.backup = {} THEN Script({}, {n}, {n})
    ELSE LET b     == CHOOSE x \in n.dir.backup : TRUE
             part  == {Write(n, S, b) : S \in Begun(RestoreOrder(b))}
             files == Write(n, ToSet(ManagedPaths), b)
             bare  == DropNamespace(files)
             torn  == IF n.dir.firewall
                      THEN {[files EXCEPT !.ns = @ \ S] : S \in {{"route"}, {"route", "rule"}}}
                      ELSE {}
             live  == bare \cup {RestoreXray(x) : x \in bare}
             done  == {RestoreUnits(RestoreXray(x)) : x \in bare}
             clean == {[x EXCEPT !.dir = [EmptyDir EXCEPT !.backup = n.dir.backup,
                                                          !.state = TRUE]] : x \in done}
         IN  IF ~n.dir.state
             THEN Script({}, part, part)
             ELSE Script(clean, part \cup torn \cup live, part \cup torn \cup live \cup done)

-----------------------------------------------------------------------------
(* The worker above the scripts: steps in order, one rollback after an error, *)
(* everything again after a kill.                                             *)

Idle == [kind |-> "none", at |-> 0, n |-> 0, kills |-> 0, phase |-> "idle",
         file |-> [f \in ToSet(ManagedPaths) |-> 0], ns |-> {},
         unit |-> [u \in DOMAIN Config |-> {}], killed |-> FALSE]

RelayInit ==
    /\ file = [f \in ToSet(ManagedPaths) |-> IF f = "xray" THEN Base ELSE 0]
    /\ ns = {}
    /\ unit = [u \in DOMAIN Config |-> IF u = "xray" THEN {Base} ELSE {}]
    /\ odir = EmptyDir
    /\ task = Idle

Becomes(n) == file' = n.file /\ ns' = n.ns /\ unit' = n.unit /\ odir' = n.dir

Steps == IF task.kind = "install" THEN InstallSteps ELSE SyncSteps
Current == StepScript(Steps[task.at], Node, task.n)

\* A new operation has a directory of its own.  Users are synchronised on a
\* relay that was installed.
RelayStart ==
    /\ task.phase \in {"idle", "done", "rolled_back", "failed"}
    /\ task.n < MaxRelayOps
    /\ \E kind \in {"install", "sync_users"} :
          /\ kind = "sync_users" => ns = ToSet(Namespace)
          /\ task' = [task EXCEPT !.kind = kind, !.at = 1, !.n = @ + 1, !.phase = "running",
                                  !.file = file, !.ns = ns, !.unit = unit, !.killed = FALSE]
    /\ odir' = EmptyDir
    /\ UNCHANGED <<file, ns, unit>>

RelayStep ==
    /\ task.phase = "running"
    /\ \E n \in Current.ok : Becomes(n)
    /\ task' = IF task.at = Len(Steps) THEN [task EXCEPT !.phase = "done"]
               ELSE [task EXCEPT !.at = @ + 1]

RelayFail ==
    /\ task.phase = "running"
    /\ \E n \in Current.err : Becomes(n)
    /\ task' = [task EXCEPT !.phase = "rolling_back"]

\* The panel or the connection dies with the script: the lease expires and the
\* operation is executed again from its first step.
RelayKill ==
    /\ task.phase = "running"
    /\ task.kills < MaxRelayKills
    /\ \E n \in Current.cut : Becomes(n)
    /\ task' = [task EXCEPT !.at = 1, !.kills = @ + 1, !.killed = TRUE]

RelayRollback ==
    /\ task.phase = "rolling_back"
    /\ \/ \E n \in Rollback(Node).ok : Becomes(n) /\ task' = [task EXCEPT !.phase = "rolled_back"]
       \/ \E n \in Rollback(Node).err : Becomes(n) /\ task' = [task EXCEPT !.phase = "failed"]

\* Nothing claims an operation that was rolling back.
RelayRollbackKill ==
    /\ task.phase = "rolling_back"
    /\ task.kills < MaxRelayKills
    /\ \E n \in Rollback(Node).cut : Becomes(n)
    /\ task' = [task EXCEPT !.phase = "stuck", !.kills = @ + 1]

RelayNext ==
    RelayStart \/ RelayStep \/ RelayFail \/ RelayKill \/ RelayRollback \/ RelayRollbackKill

RelaySpec == RelayInit /\ [][RelayNext]_relayVars

-----------------------------------------------------------------------------
(* An operation recorded as rolled back left the relay as it found it: every *)
(* managed file and every service, also when its scripts were killed and     *)
(* executed again on the way.  The namespace is gone if it did not exist     *)
(* before, unless a kill came between the namespace and its marker; an       *)
(* operation recorded as done left a relay on which everything runs with     *)
(* that operation's files.                                                   *)
RollbackRestores ==
    /\ task.phase = "rolled_back" =>
          /\ file = task.file
          /\ \A u \in DOMAIN unit :
                /\ unit[u] = {} <=> task.unit[u] = {}
                /\ unit[u] \in {task.unit[u], {file[Config[u]]}, {}}
          /\ task.ns = {} /\ ~task.killed => ns = {}
    /\ task.phase = "done" /\ task.kind = "install" =>
          /\ ns = ToSet(Namespace)
          /\ \A u \in DOMAIN unit : unit[u] = {task.n}
============================================================================
