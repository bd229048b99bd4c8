------------------------------ MODULE UserAccess ------------------------------
(***************************************************************************)
(* Who may use an Xray node: one user's document, the calls that carry its *)
(* changes to the agent of one node, the agent's own copies of the user    *)
(* list, and the full configuration push.  Calls are fire-and-forget: the  *)
(* panel writes the document first, never retries a call, and nothing      *)
(* orders two calls.  `user` is the HyUser document: `lapsed` stands for   *)
(* "expired or over the traffic limit", `member` for a group in common     *)
(* with the node.                                                          *)
(***************************************************************************)
EXTENDS Integers

CONSTANTS
    Call,           \* calls to the agent under way at once
    What            \* what an edit may be about: "on", "off", "renew", "other"

ASSUME WhatAssumption == What \subseteq {"on", "off", "renew", "other"}

VARIABLES
    user,           \* the document
    edit,           \* a request that read the document and has yet to write it
    expirer,        \* whether a sweep found the user and has yet to disable it
    calls,          \* what each call is up to
    store,          \* the user is in the agent's memory (UserStore.users) ...
    saved,          \* ... in its users.json ...
    disk,           \* ... in the clients of Xray's config.json ...
    xray,           \* ... and in the running Xray
    push,           \* updateXrayNodeConfig
    healing         \* ghost: a push nothing interferes with

accessVars == <<user, edit, expirer, calls, store, saved, disk, xray, push, healing>>

NoEdit == [pc |-> "idle", via |-> "rest", what |-> "other", form |-> FALSE,
           prev |-> FALSE]
NoCall == [pc |-> "idle", kind |-> "add"]
NoPush == [pc |-> "idle", has |-> FALSE, current |-> FALSE]

AccessInit ==
    /\ user = [exists |-> FALSE, enabled |-> FALSE, lapsed |-> FALSE, member |-> TRUE]
    /\ edit = NoEdit
    /\ expirer = FALSE
    /\ calls = [c \in Call |-> NoCall]
    /\ store = FALSE /\ saved = FALSE /\ disk = FALSE /\ xray = FALSE
    /\ push = NoPush
    /\ healing = "off"

Quiet == edit.pc = "idle" /\ ~expirer /\ \A c \in Call : calls[c].pc = "idle"

\* _getUsersForNode: enabled users with a group of the node.
Belongs == user.exists /\ user.enabled /\ user.member

\* removeUserFromAllXrayNodes and addUserToAllXrayNodes start here, and read the
\* nodes, and for an addition their users, before they call.
Start(kind) ==
    \E c \in Call : /\ calls[c].pc = "idle"
                    /\ calls' = [calls EXCEPT ![c] = [pc |-> "check", kind |-> kind]]

CallFor(was, now) ==
    IF was = now THEN UNCHANGED calls ELSE Start(IF now THEN "add" ELSE "remove")

Disturbs == healing' = "off"
NodeSame == UNCHANGED <<store, saved, disk, xray, push>>

-----------------------------------------------------------------------------
(* Requests and sweeps.                                                    *)

CreateUser ==
    /\ ~user.exists
    /\ \E e \in BOOLEAN :
        /\ user' = [user EXCEPT !.exists = TRUE, !.enabled = e, !.lapsed = FALSE]
        /\ CallFor(FALSE, e)
    /\ Disturbs /\ NodeSame /\ UNCHANGED <<edit, expirer>>

DeleteUser ==
    /\ user.exists
    /\ user' = [user EXCEPT !.exists = FALSE, !.enabled = FALSE]
    /\ Start("remove")
    /\ Disturbs /\ NodeSame /\ UNCHANGED <<edit, expirer>>

EnableUser ==
    /\ user.exists
    /\ user' = [user EXCEPT !.enabled = TRUE]
    /\ Start("add")
    /\ Disturbs /\ NodeSame /\ UNCHANGED <<edit, expirer>>

DisableUser ==
    /\ user.exists
    /\ user' = [user EXCEPT !.enabled = FALSE]
    /\ Start("remove")
    /\ Disturbs /\ NodeSame /\ UNCHANGED <<edit, expirer>>

\* reset_traffic: a user that no longer has a reason to be disabled is enabled.
ResetTraffic ==
    /\ user.exists /\ user.lapsed
    /\ user' = [user EXCEPT !.lapsed = FALSE, !.enabled = TRUE]
    /\ CallFor(user.enabled, TRUE)
    /\ Disturbs /\ NodeSame /\ UNCHANGED <<edit, expirer>>

\* Group changes of the REST API tell no node.
Regroup ==
    /\ user.exists
    /\ user' = [user EXCEPT !.member = ~@]
    /\ Disturbs /\ NodeSame /\ UNCHANGED <<edit, expirer, calls>>

\* The main panel's list: only what differs is written, and sent.
SyncFromMain ==
    /\ user.exists
    /\ \E e \in BOOLEAN : /\ user' = [user EXCEPT !.enabled = e]
                          /\ CallFor(user.enabled, e)
    /\ Disturbs /\ NodeSame /\ UNCHANGED <<edit, expirer>>

\* The panel's form is filled in long before it is sent, and always has a value
\* for the checkbox.
LoadForm ==
    /\ user.exists /\ edit.pc = "idle"
    /\ \E what \in What :
        edit' = [NoEdit EXCEPT !.pc = "form", !.via = "panel", !.what = what,
                     !.form = IF what \in {"on", "off"} THEN what = "on" ELSE user.enabled]
    /\ Disturbs /\ NodeSame /\ UNCHANGED <<user, expirer, calls>>

ReadUser ==
    /\ user.exists
    /\ \/ /\ edit.pc = "idle"
          /\ \E what \in What :
              edit' = [NoEdit EXCEPT !.pc = "read", !.what = what, !.prev = user.enabled]
       \/ /\ edit.pc = "form"
          /\ edit' = [edit EXCEPT !.pc = "read", !.prev = user.enabled]
    /\ Disturbs /\ NodeSame /\ UNCHANGED <<user, expirer, calls>>

\* recomputeEnabled, for an explicit value, a renewal, or neither.
RecomputeEnabled(prev, explicit) ==
    IF explicit # {} THEN TRUE \in explicit ELSE prev \/ edit.what = "renew"

\* Whatever the request changes, it writes `enabled` too.
WriteUser(explicit) ==
    LET now == RecomputeEnabled(edit.prev, explicit) IN
    /\ edit.pc = "read"
    /\ edit' = NoEdit
    /\ IF user.exists
       THEN user' = [user EXCEPT !.enabled = now, !.lapsed = @ /\ edit.what # "renew"]
       ELSE UNCHANGED user
    /\ CallFor(edit.prev, now)
    /\ Disturbs /\ NodeSame /\ UNCHANGED expirer

RestUpdate ==
    /\ edit.via = "rest"
    /\ WriteUser(IF edit.what \in {"on", "off"} THEN {edit.what = "on"} ELSE {})

\* The form's checkbox counts as explicit when it differs from the document.
PanelUpdate ==
    /\ edit.via = "panel"
    /\ WriteUser(IF edit.form # edit.prev THEN {edit.form} ELSE {})

\* Time passes, or traffic is counted.
Lapse ==
    /\ user.exists /\ ~user.lapsed
    /\ user' = [user EXCEPT !.lapsed = TRUE]
    /\ Disturbs /\ NodeSame /\ UNCHANGED <<edit, expirer, calls>>

\* processExpired and enforceTrafficLimit find the user ...
FindLapsed ==
    /\ user.exists /\ user.enabled /\ user.lapsed /\ ~expirer
    /\ expirer' = TRUE
    /\ Disturbs /\ NodeSame /\ UNCHANGED <<user, edit, calls>>

\* ... and disable it if it is still enabled, lapsed or not.
DisableLapsed ==
    /\ expirer
    /\ expirer' = FALSE
    /\ IF user.enabled
       THEN user' = [user EXCEPT !.enabled = FALSE] /\ Start("remove")
       ELSE UNCHANGED <<user, calls>>
    /\ Disturbs /\ NodeSame /\ UNCHANGED edit

-----------------------------------------------------------------------------
(* Calls to the agent.                                                     *)

At(c, kind, pc) == calls[c].kind = kind /\ calls[c].pc = pc
Go(c, pc) == calls' = [calls EXCEPT ![c].pc = pc]

SendAdd(c) ==
    /\ At(c, "add", "check")
    /\ Go(c, IF Belongs THEN "sent" ELSE "idle")
    /\ NodeSame /\ Disturbs /\ UNCHANGED <<user, edit, expirer>>

SendRemove(c) ==
    /\ At(c, "remove", "check")
    /\ Go(c, "sent")
    /\ NodeSame /\ Disturbs /\ UNCHANGED <<user, edit, expirer>>

\* A call may never arrive, and nobody tries again.
LoseCall(c) ==
    /\ calls[c].pc \in {"check", "sent"}
    /\ Go(c, "idle")
    /\ NodeSame /\ Disturbs /\ UNCHANGED <<user, edit, expirer>>

\* handleAddUser and handleRemoveUser: Xray first, then the agent's own list.
AlterXray(c) ==
    /\ calls[c].pc = "sent"
    /\ xray' = (calls[c].kind = "add")
    /\ Go(c, "altered")
    /\ Disturbs /\ UNCHANGED <<user, edit, expirer, store, saved, disk, push>>

AlterStore(c) ==
    /\ calls[c].pc = "altered"
    /\ store' = (calls[c].kind = "add")
    /\ Go(c, "idle")
    /\ Disturbs /\ UNCHANGED <<user, edit, expirer, saved, disk, xray, push>>

\* An addition that Xray refuses is not stored; a failed removal is.
AlterFails(c) ==
    /\ calls[c].pc = "sent"
    /\ Go(c, IF calls[c].kind = "add" THEN "idle" ELSE "altered")
    /\ Disturbs /\ NodeSame /\ UNCHANGED <<user, edit, expirer>>

-----------------------------------------------------------------------------
(* The agent and Xray.                                                     *)

PanelSame == UNCHANGED <<user, edit, expirer, calls, push>>

SaveStore == saved' = store /\ PanelSame /\ UNCHANGED <<store, disk, xray, healing>>

\* ConfigPersister.Flush.
FlushStore == disk' = store /\ PanelSame /\ UNCHANGED <<store, saved, xray, healing>>

CrashAgent ==
    /\ store' = saved /\ Disturbs
    /\ PanelSame /\ UNCHANGED <<saved, disk, xray>>

\* Also the agent's own healing restart after it found the file stale.
RestartXray ==
    /\ xray' = disk /\ Disturbs
    /\ PanelSame /\ UNCHANGED <<store, saved, disk>>

-----------------------------------------------------------------------------
(* updateXrayNodeConfig.                                                   *)

Push(pc) == push' = [push EXCEPT !.pc = pc]
RequestsSame == UNCHANGED <<user, edit, expirer, calls>>

BeginPush ==
    /\ push.pc = "idle"
    /\ push' = [pc |-> "upload", has |-> Belongs, current |-> FALSE]
    /\ healing' = IF Quiet THEN "on" ELSE "off"
    /\ RequestsSame /\ UNCHANGED <<store, saved, disk, xray>>

\* The configuration carries the users read, and goes over SSH ...
UploadConfig ==
    /\ push.pc = "upload" /\ Push("restart")
    /\ disk' = push.has
    /\ RequestsSame /\ UNCHANGED <<store, saved, xray, healing>>

\* Mutant of AgentRestart: Xray keeps running with what it has.
AgentRestartFlushOnly ==
    /\ push.pc = "restart" /\ Push("sync")
    /\ disk' = store
    /\ RequestsSame /\ UNCHANGED <<store, saved, xray, healing>>

\* ... the agent overwrites its clients with its own list and restarts Xray ...
AgentRestart ==
    /\ push.pc = "restart" /\ Push("sync")
    /\ disk' = store /\ xray' = store
    /\ RequestsSame /\ UNCHANGED <<store, saved, healing>>

\* ... handleSync takes the agent's list ...
SyncList ==
    /\ push.pc = "sync"
    /\ push' = [push EXCEPT !.pc = "diff", !.current = store]
    /\ RequestsSame /\ UNCHANGED <<store, saved, disk, xray, healing>>

\* ... alters Xray where that differs from the users pushed, errors or not ...
SyncDiff ==
    /\ push.pc = "diff" /\ Push("replace")
    /\ xray' = IF push.current = push.has THEN xray ELSE push.has
    /\ RequestsSame /\ UNCHANGED <<store, saved, disk, healing>>

\* ... and replaces the list.
SyncReplace ==
    /\ push.pc = "replace"
    /\ push' = NoPush
    /\ store' = push.has
    /\ healing' = IF healing = "on" THEN "healed" ELSE healing
    /\ RequestsSame /\ UNCHANGED <<saved, disk, xray>>

\* Each stage may fail, and the push goes on without it.
StageFails ==
    /\ \/ push.pc = "upload"  /\ Push("restart")
       \/ push.pc = "restart" /\ Push("sync")
       \/ push.pc = "sync"    /\ push' = NoPush
       \/ push.pc = "diff"    /\ Push("replace")
    /\ Disturbs
    /\ RequestsSame /\ UNCHANGED <<store, saved, disk, xray>>

AccessNext ==
    \/ CreateUser \/ DeleteUser \/ EnableUser \/ DisableUser \/ ResetTraffic
    \/ Regroup \/ SyncFromMain
    \/ LoadForm \/ ReadUser \/ RestUpdate \/ PanelUpdate
    \/ Lapse \/ FindLapsed \/ DisableLapsed
    \/ \E c \in Call : \/ SendAdd(c)   \/ SendRemove(c) \/ LoseCall(c)
                       \/ AlterXray(c) \/ AlterStore(c) \/ AlterFails(c)
    \/ SaveStore \/ FlushStore \/ CrashAgent \/ RestartXray
    \/ BeginPush \/ UploadConfig \/ AgentRestart
    \/ SyncList \/ SyncDiff \/ SyncReplace \/ StageFails

AccessSpec == AccessInit /\ [][AccessNext]_accessVars

-----------------------------------------------------------------------------
\* However calls were lost, reordered or cut short by crashes before, one full
\* push that nothing interferes with leaves Xray and the agent with the users of
\* the database: the incremental diff of /sync, which trusts the agent's list
\* rather than asking Xray, is enough after the restart that precedes it.
SyncHeals == healing = "healed" => xray = Belongs /\ store = Belongs

\* What the comment on recomputeEnabled promises: saving some other field does
\* not revive a user an admin disabled by hand.
NoSilentRevival ==
    [][(edit.pc = "read" /\ edit'.pc = "idle" /\ edit.what = "other")
           => (user'.enabled => user.enabled)]_accessVars
===============================================================================
