---------------------------- MODULE PanelUpdate ----------------------------
(***************************************************************************)
(* The panel's update of itself: the flow in the panel (updateService.js), *)
(* the updater beside it (updater/server.js) and the backups the flow, the *)
(* hourly cron and the administrator take (backupService.js).              *)
(*                                                                         *)
(* tag is the version the next `docker compose up` would run: PANEL_TAG in *)
(* .env in hub mode, the checked-out tree in source mode.  An archive's    *)
(* place in archives is the order of modification times; one that is still *)
(* being written is the newest.                                            *)
(***************************************************************************)
EXTENDS Integers, Sequences, FiniteSets, SequencesExt

CONSTANTS
    Version,         \* versions of the panel
    KeepLast,        \* local backups kept (backup.keepLast)
    MaxBackups,      \* bound on the backups taken
    MaxOverlap,      \* bound on the backups taken at once
    MaxUpdateFaults  \* bound on failures and crashes

ASSUME UpdateAssumption ==
    /\ Version # {}
    /\ {KeepLast, MaxBackups, MaxOverlap, MaxUpdateFaults} \subseteq Nat
    /\ KeepLast > MaxOverlap - 1 + MaxUpdateFaults

VARIABLES
    updateMode,  \* "hub" or "source"
    panelRuns,   \* the version that runs, or "down"
    tag,
    flow,        \* the panel's update flow
    updater,     \* the updater's current status
    spoilt,      \* an update was left half done for a reason the code names
    backups,     \* backups being taken, with how far they are
    archives,    \* archives on disk, oldest first, and whether they are whole
    nextBackup,
    updateFaults

updateVars == <<updateMode, panelRuns, tag, flow, updater, spoilt, backups, archives,
                nextBackup, updateFaults>>

NoFlow    == [state |-> "idle"]
NoUpdate  == [step |-> "idle"]
Archived  == {archives[i].id : i \in DOMAIN archives}
Writing   == {b \in backups : b.at = "archive"}

UpdateInit ==
    /\ updateMode \in {"hub", "source"}
    /\ \E v \in Version : panelRuns = v /\ tag = v
    /\ flow = NoFlow /\ updater = NoUpdate /\ spoilt = FALSE
    /\ backups = {} /\ archives = <<>> /\ nextBackup = 1 /\ updateFaults = 0

UpdateFault == updateFaults < MaxUpdateFaults /\ updateFaults' = updateFaults + 1

----------------------------------------------------------------------------
(* createBackup.                                                           *)

\* By the cron, by the administrator, or by the update flow: nothing keeps
\* them apart.
BackupOf(owner) == [id |-> nextBackup, owner |-> owner, at |-> "dump"]

StartBackup ==
    /\ panelRuns # "down"
    /\ nextBackup <= MaxBackups /\ Cardinality(backups) < MaxOverlap
    /\ backups' = backups \cup {BackupOf("other")}
    /\ nextBackup' = nextBackup + 1
    /\ UNCHANGED <<updateMode, panelRuns, tag, flow, updater, spoilt, archives, updateFaults>>

MovesTo(b, at) == (backups \ {b}) \cup {[b EXCEPT !.at = at]}

\* mongodump is through; tar opens the archive.
OpenArchive(b) ==
    /\ b.at = "dump"
    /\ backups' = MovesTo(b, "archive")
    /\ UNCHANGED <<updateMode, panelRuns, tag, flow, updater, spoilt, archives, nextBackup, updateFaults>>

\* tar is through; the upload to S3, whose failure is only reported, follows.
CloseArchive(b) ==
    /\ b.at = "archive"
    /\ archives' = Append(archives, [id |-> b.id, whole |-> TRUE])
    /\ backups' = MovesTo(b, "upload")
    /\ UNCHANGED <<updateMode, panelRuns, tag, flow, updater, spoilt, nextBackup, updateFaults>>

\* The flow's own backup decides how the flow goes on.
FlowAfter(b, ok) ==
    IF b.owner # "flow" THEN flow
    ELSE IF ok THEN [flow EXCEPT !.step = "trigger"] ELSE [state |-> "error"]

\* One too many goes.
RotatedOneMore ==
    LET excess == Len(archives) + Cardinality(Writing) - KeepLast + 1
    IN IF excess <= 0 THEN archives ELSE SubSeq(archives, excess + 1, Len(archives))

\* rotateBackups: the oldest go until KeepLast are left, and an archive that is
\* being written counts.  With MaxOverlap below KeepLast only whole or broken
\* archives go.
Rotated ==
    LET excess == Len(archives) + Cardinality(Writing) - KeepLast
    IN IF excess <= 0 THEN archives ELSE SubSeq(archives, excess + 1, Len(archives))

FinishBackup(b) ==
    /\ b.at = "upload"
    /\ archives' = Rotated
    /\ backups' = backups \ {b}
    /\ flow' = FlowAfter(b, TRUE)
    /\ UNCHANGED <<updateMode, panelRuns, tag, updater, spoilt, nextBackup, updateFaults>>

\* A failure removes the dump, not what there is of the archive.
BackupFails(b) ==
    /\ UpdateFault
    /\ archives' = IF b.at = "archive" THEN Append(archives, [id |-> b.id, whole |-> FALSE])
                   ELSE archives
    /\ backups' = backups \ {b}
    /\ flow' = FlowAfter(b, FALSE)
    /\ UNCHANGED <<updateMode, panelRuns, tag, updater, spoilt, nextBackup>>

----------------------------------------------------------------------------
(* The flow in the panel.                                                  *)

\* startUpdateFlow, for a version of the release list.
StartUpdate(v, backup) ==
    /\ panelRuns # "down"
    /\ flow.state # "running"
    /\ flow' = [state |-> "running", version |-> v, backup |-> backup,
                step |-> IF backup THEN "backup" ELSE "trigger", before |-> Archived]
    /\ IF backup
       THEN /\ nextBackup <= MaxBackups /\ Cardinality(backups) < MaxOverlap
            /\ backups' = backups \cup {BackupOf("flow")}
            /\ nextBackup' = nextBackup + 1
       ELSE UNCHANGED <<backups, nextBackup>>
    /\ UNCHANGED <<updateMode, panelRuns, tag, updater, spoilt, archives, updateFaults>>

\* applyUpdate: a running updater answers 409.  A call that fails may have
\* started the update all the same.
Begun == [step |-> IF updateMode = "hub" THEN "write-tag" ELSE "fetch",
          version |-> flow.version, previous |-> tag]

Trigger ==
    /\ flow.state = "running" /\ flow.step = "trigger"
    /\ \/ /\ updater.step = "idle"
          /\ updater' = Begun /\ flow' = [state |-> "done"] /\ UNCHANGED updateFaults
       \/ /\ updater.step # "idle"
          /\ flow' = [state |-> "error"] /\ UNCHANGED <<updater, updateFaults>>
       \/ /\ UpdateFault
          /\ flow' = [state |-> "error"]
          /\ updater' \in {updater, IF updater.step = "idle" THEN Begun ELSE updater}
    /\ UNCHANGED <<updateMode, panelRuns, tag, spoilt, backups, archives, nextBackup>>

----------------------------------------------------------------------------
(* The updater.                                                            *)

UpdaterStep(from, to) ==
    /\ updater.step = from
    /\ updater' = [updater EXCEPT !.step = to]
    /\ UNCHANGED <<updateMode, panelRuns, flow, spoilt, backups, archives, nextBackup, updateFaults>>

WriteTag == UpdaterStep("write-tag", "pull") /\ tag' = updater.version
Fetch    == UpdaterStep("fetch", "checkout") /\ UNCHANGED tag
Checkout == UpdaterStep("checkout", "build") /\ tag' = updater.version
Fetched  == (UpdaterStep("pull", "recreate") \/ UpdaterStep("build", "recreate")) /\ UNCHANGED tag

\* What a failure at each step leaves: a failed pull or build puts the old tag
\* or tree back, and does not tell whether that worked.
TagAfterFailure == IF updater.step \in {"pull", "build"} THEN updater.previous ELSE tag

UpdateFails ==
    /\ updater.step \notin {"idle", "recreate"}
    /\ UpdateFault
    /\ updater' = NoUpdate
    /\ \/ tag' = TagAfterFailure /\ UNCHANGED spoilt
       \/ updater.step \in {"pull", "build"} /\ UNCHANGED tag /\ spoilt' = TRUE
    /\ UNCHANGED <<updateMode, panelRuns, flow, backups, archives, nextBackup>>

\* A panel that stops leaves broken the archives it was writing, and forgets
\* its flow.
PanelStopped ==
    /\ archives' = archives \o
          SetToSeq({[id |-> b.id, whole |-> FALSE] : b \in Writing})
    /\ backups' = {}
    /\ flow' = NoFlow

\* docker compose up -d
Recreate ==
    /\ updater.step = "recreate"
    /\ updater' = NoUpdate
    /\ panelRuns' = tag
    /\ PanelStopped
    /\ UNCHANGED <<updateMode, tag, spoilt, nextBackup, updateFaults>>

\* It fails with the old panel still up, or with none.
RecreateFails ==
    /\ updater.step = "recreate"
    /\ UpdateFault
    /\ updater' = NoUpdate
    /\ spoilt' = TRUE
    /\ \/ UNCHANGED <<panelRuns, backups, archives, flow>>
       \/ panelRuns' = "down" /\ PanelStopped
    /\ UNCHANGED <<updateMode, tag, nextBackup>>

\* The updater dies: it remembers only runs that ended.
UpdaterDies ==
    /\ updater.step # "idle"
    /\ UpdateFault
    /\ updater' = NoUpdate
    /\ spoilt' = TRUE
    /\ UNCHANGED <<updateMode, panelRuns, tag, flow, backups, archives, nextBackup>>

PanelDies ==
    /\ panelRuns # "down"
    /\ UpdateFault
    /\ PanelStopped
    /\ UNCHANGED <<updateMode, panelRuns, tag, updater, spoilt, nextBackup>>

UpdateNext ==
    \/ StartBackup
    \/ \E b \in backups : OpenArchive(b) \/ CloseArchive(b) \/ FinishBackup(b) \/ BackupFails(b)
    \/ \E v \in Version, backup \in BOOLEAN : StartUpdate(v, backup)
    \/ Trigger
    \/ WriteTag \/ Fetch \/ Checkout \/ Fetched \/ UpdateFails
    \/ Recreate \/ RecreateFails \/ UpdaterDies \/ PanelDies

UpdateSpec == UpdateInit /\ [][UpdateNext]_updateVars

----------------------------------------------------------------------------
\* An update asked for with a backup reaches the updater only when a whole
\* archive made since it was asked for is on disk, whatever other backups run,
\* fail and rotate in the meantime.
BackedUpFirst ==
    (flow.state = "running" /\ flow.step = "trigger" /\ flow.backup) =>
        \E i \in DOMAIN archives : archives[i].whole /\ archives[i].id \notin flow.before

\* No update that failed leaves a tag behind that some later start of the
\* containers would run: unless the updater died, could not put the tag back,
\* or failed to start the new panel.
TagMatchesPanel == (updater.step = "idle" /\ ~spoilt) => tag = panelRuns

\* A panel can be put back: the backup that was asked for exists before the
\* update begins, and what a restart would run is what runs.
UpdateIsSafe == BackedUpFirst /\ TagMatchesPanel

============================================================================
