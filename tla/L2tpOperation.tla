---------------------------- MODULE L2tpOperation ----------------------------
(***************************************************************************)
(* L2TP on one relay node: the relay's desired state and its users, the    *)
(* operations that bring them to the node (install, sync_users), the       *)
(* worker that claims and executes those operations, and the artifact      *)
(* scripts on the node.                                                    *)
(*                                                                         *)
(* Worker is the set of panel processes; run[w] is the call of runOnce     *)
(* under way in w, one at a time.  Between two awaits the other workers,   *)
(* the requests of the panel's users, the node or a fault may step.        *)
(*                                                                         *)
(* A user stands for its desired revision: whatever changes about it       *)
(* changes that too.  Leases are live or over, as in TopologyOperation.    *)
(***************************************************************************)
EXTENDS Integers, Sequences, FiniteSets, FiniteSetsExt

CONSTANTS
    Worker,         \* panel processes
    User,           \* ids of L2TP users
    MaxOps,         \* bound on operations
    MaxSecret,      \* bound on RelayL2tpState.secretRevision
    MaxFaults,      \* bound on the faults below
    FaultKinds      \* the faults of a run: see Fault

ASSUME BoundAssumption ==
    /\ MaxOps \in Nat \ {0}
    /\ MaxSecret \in Nat \ {0}
    /\ MaxFaults \in Nat
ASSUME FaultAssumption ==
    FaultKinds \subseteq {"crash", "stall", "database", "timeout", "late"}
ASSUME NullAssumption  == "none" \notin Worker

VARIABLES
    relay,      \* RelayL2tpState of the relay
    user,       \* its L2tpUser documents
    doc,        \* the L2tpOperation documents, oldest first
    lock,       \* the relay's NodeOperationLock document
    run,        \* each worker's call of runOnce
    remote,     \* commands on their way to, or running on, the relay
    host,       \* the relay itself
    faults      \* faults so far

store == <<relay, user, doc, lock>>
vars  == <<relay, user, doc, lock, run, remote, host, faults>>

OpId == 1 .. MaxOps
Revision == 0 .. MaxSecret
Users    == [User -> Revision]              \* 0: there is no such user
Terminal == {"succeeded", "failed", "rolled_back"}
Gone     == {"none", "deleted"}

\* INSTALL_STEP_TYPES without the steps that change nothing a rollback or a
\* later operation sees (activate: activate_xray up to start_l2tp), and
\* SYNC_USERS_STEP_TYPES.
Steps == [install    |-> <<"backup", "stage", "activate", "sync_users",
                           "verify", "commit">>,
          sync_users |-> <<"backup", "sync_users", "verify_users">>]

Nobody == "none"
NoLock == [worker |-> Nobody, op |-> 0, live |-> FALSE]
NoSave == [kept |-> FALSE, users |-> [u \in User |-> 0], files |-> FALSE]
Idle   == [pc |-> "idle", op |-> 0, step |-> 1,
           snap |-> [u \in User |-> 0], call |-> "none"]

Document == [kind : DOMAIN Steps, rev : Revision, owner : Worker \cup {Nobody},
             live : BOOLEAN,
             status : Gone \cup {"queued", "running", "rolling_back"} \cup Terminal]
Run      == [pc : {"idle", "lock", "read", "users", "step", "settle", "succeed",
                   "fail", "revoke", "undo", "release"},
             op : 0 .. MaxOps, step : 1 .. 7, snap : Users,
             call : {"none", "sent", "ok", "error"}]

-----------------------------------------------------------------------------
(* A configured relay without users, L2TP installed on it or not yet.      *)

Init ==
    /\ relay  \in [status : {"not_installed", "installed"}, secret : {1}]
    /\ user   = [u \in User |-> [desired |-> 0, applied |-> 0]]
    /\ doc    = [o \in OpId |-> [kind |-> "sync_users", rev |-> 0, owner |-> Nobody,
                               live |-> FALSE, status |-> "none"]]
    /\ lock   = NoLock
    /\ run    = [w \in Worker |-> Idle]
    /\ remote = {}
    /\ host   = [users |-> [u \in User |-> 0],
                 files |-> relay.status = "installed",
                 save  |-> [o \in OpId |-> NoSave],
                 state |-> [o \in OpId |-> FALSE]]
    /\ faults = 0

\* Faults, as in TopologyOperation.
Fault(kind) ==
    /\ kind \in FaultKinds
    /\ faults < MaxFaults
    /\ faults' = faults + 1

Desired == [u \in User |-> user[u].desired]

-----------------------------------------------------------------------------
(* Requests of the panel's users, one transaction each.                    *)

\* The operation documents are created in the order of their ids.
NextOp(o) ==
    /\ doc[o].status = "none"
    /\ \A p \in OpId : p < o => doc[p].status # "none"

Queued(d, kind, rev) == [d EXCEPT !.kind = kind, !.rev = rev, !.status = "queued"]

\* createUserAndQueueSync, updateUserAndQueueSync and deleteUserAndQueueSync:
\* the next credential revision, the change, and an operation that brings it
\* to the node.
ChangeUser(u, o) ==
    LET rev == relay.secret + 1 IN
    /\ rev <= MaxSecret
    /\ relay' = [relay EXCEPT !.secret = rev]
    /\ \/ user' = [user EXCEPT ![u].desired = rev]
       \/ /\ user[u].desired # 0
          /\ user' = [user EXCEPT ![u] = [desired |-> 0, applied |-> 0]]
    /\ NextOp(o)
    /\ doc' = [doc EXCEPT ![o] = Queued(@, "sync_users", rev)]
    /\ UNCHANGED <<lock, run, remote, host, faults>>

\* configureRelay: a new pre-shared key or new addresses, no operation.
ConfigureRelay ==
    /\ relay.secret < MaxSecret
    /\ relay' = [relay EXCEPT !.secret = @ + 1]
    /\ UNCHANGED <<user, doc, lock, run, remote, host, faults>>

\* install.  Operations share an idempotency key (the topology revision stays
\* the same here): a queued or running one answers the request, any other is
\* deleted and created anew.  The plan carries the credential revision read
\* before the preflight.
Install(o, rev) ==
    LET same == {p \in OpId : doc[p].kind = "install" /\ doc[p].status \notin Gone} IN
    /\ rev \in 1 .. relay.secret
    /\ \A p \in same : doc[p].status \notin {"queued", "running"}
    /\ NextOp(o)
    /\ doc' = [p \in OpId |->
                  CASE p \in same -> [doc[p] EXCEPT !.status = "deleted"]
                    [] p = o      -> Queued(doc[p], "install", rev)
                    [] OTHER      -> doc[p]]
    /\ UNCHANGED <<relay, user, lock, run, remote, host, faults>>

-----------------------------------------------------------------------------
(* What a run may rely on, and what it writes.                             *)

\* The filter of renewLease and succeedClaimed.
OwnsOp(w) ==
    LET d == doc[run[w].op] IN
    d.status = "running" /\ d.owner = w /\ d.live

OwnsLock(w) == lock = [worker |-> w, op |-> run[w].op, live |-> TRUE]

\* What a successful renewal of the heartbeat tells.
Renewed(w) == OwnsOp(w) /\ OwnsLock(w)

Go(w, r) == run' = [run EXCEPT ![w] = r]

\* setStatus: whoever owns the document, and whatever has become of it.
SetStatus(o, status) ==
    doc' = IF doc[o].status = "deleted" THEN doc
           ELSE [doc EXCEPT ![o].status = status]

-----------------------------------------------------------------------------
(* Claim, lock, read.                                                      *)

\* Mutant of Claimable: nothing is taken over.
ClaimableQueued(o) == doc[o].status = "queued"

\* Mutant of Claimable: the lease is not looked at.
ClaimableHeld(o) == doc[o].status \in {"queued", "running"}

Claimable(o) ==
    \/ doc[o].status = "queued"
    \/ doc[o].status = "running" /\ ~doc[o].live

\* claimNext: the oldest operation that is queued or whose lease is over.  An
\* install may fail at once, on its plan or its Xray candidate.
Claim(w) ==
    /\ run[w].pc = "idle"
    /\ \E o \in OpId :
        /\ Claimable(o)
        /\ \A p \in OpId : Claimable(p) => o <= p
        /\ doc' = [doc EXCEPT ![o].status = "running", ![o].owner = w,
                              ![o].live = TRUE]
        /\ \E pc \in {"lock"} \cup (IF doc[o].kind = "install" THEN {"fail"} ELSE {}) :
              Go(w, [Idle EXCEPT !.pc = pc, !.op = o])
    /\ UNCHANGED <<relay, user, lock, remote, host, faults>>

\* Mutant of TakeLock: a live lock of someone else is taken over.
TakeLockByForce(w) ==
    /\ run[w].pc = "lock"
    /\ lock' = [worker |-> w, op |-> run[w].op, live |-> TRUE]
    /\ Go(w, [run[w] EXCEPT !.pc = "read"])
    /\ UNCHANGED <<relay, user, doc, remote, host, faults>>

\* A lock in someone else's hands fails the operation for good.
TakeLock(w) ==
    LET r == run[w]
        mine == lock.worker = w /\ lock.op = r.op
    IN
    /\ r.pc = "lock"
    /\ \/ /\ ~lock.live \/ mine
          /\ lock' = [worker |-> w, op |-> r.op, live |-> TRUE]
          /\ Go(w, [r EXCEPT !.pc = "read"])
       \/ /\ lock.live /\ ~mine
          /\ Go(w, [r EXCEPT !.pc = "fail"])
          /\ UNCHANGED lock
    /\ UNCHANGED <<relay, user, doc, remote, host, faults>>

\* resolveOperationSecrets refuses an install of another credential revision,
\* resolveSyncSnapshot users newer than the operation.
Readable(o) ==
    IF doc[o].kind = "install" THEN relay.secret = doc[o].rev
    ELSE \A u \in User : user[u].desired <= doc[o].rev

Read(w) ==
    LET r == run[w] IN
    /\ r.pc = "read"
    /\ Renewed(w)
    /\ \/ /\ Readable(r.op)
          /\ doc[r.op].kind = "install"
          /\ Go(w, [r EXCEPT !.pc = "users"])
          /\ UNCHANGED faults
       \/ /\ Readable(r.op)
          /\ doc[r.op].kind = "sync_users"
          /\ Go(w, [r EXCEPT !.pc = "step", !.snap = Desired])
          /\ UNCHANGED faults
       \/ /\ ~Readable(r.op)
          /\ Go(w, [r EXCEPT !.pc = "fail"])
          /\ UNCHANGED faults
       \/ /\ Fault("database")
          /\ Go(w, [r EXCEPT !.pc = "fail"])
    /\ UNCHANGED <<store, remote, host>>

\* The users of an install are a query of their own, of whatever revision.
ReadUsers(w) ==
    /\ run[w].pc = "users"
    /\ \/ Go(w, [run[w] EXCEPT !.pc = "step", !.snap = Desired]) /\ UNCHANGED faults
       \/ Go(w, [run[w] EXCEPT !.pc = "fail"]) /\ Fault("database")
    /\ UNCHANGED <<store, remote, host>>

-----------------------------------------------------------------------------
(* Commands to the relay.                                                  *)

CommandOf(r) == IF r.pc = "undo" THEN "rollback" ELSE Steps[doc[r.op].kind][r.step]

\* A step is renewed before it is sent, a rollback is not; the connection or
\* the upload before either may fail.
Send(w) ==
    LET r == run[w] IN
    /\ r.pc \in {"step", "undo"}
    /\ r.call = "none"
    /\ r.pc = "step" => Renewed(w)
    /\ \/ /\ remote' = remote \cup {[by |-> w, op |-> r.op, cmd |-> CommandOf(r),
                                     users |-> r.snap]}
          /\ Go(w, [r EXCEPT !.call = "sent"])
       \/ /\ Go(w, [r EXCEPT !.call = "error"])
          /\ UNCHANGED remote
    /\ UNCHANGED <<store, host, faults>>

Restored(o) == [host EXCEPT !.users = host.save[o].users,
                            !.files = host.save[o].files]

\* What a script of the relay leaves behind when it ends well.  backup keeps
\* what an earlier execution of the operation saved; the directory `state`
\* exists from the first activation on, and a rollback ends well only there.
ScriptOk(c) ==
    LET saved == host.save[c.op].kept IN
    CASE c.cmd = "backup" ->
            IF saved THEN {host}
            ELSE {[host EXCEPT !.save[c.op] = [kept  |-> TRUE,
                                               users |-> host.users,
                                               files |-> host.files]]}
      [] c.cmd = "stage" -> {[host EXCEPT !.files = TRUE]}
      [] c.cmd = "activate" ->
            IF saved THEN {[host EXCEPT !.state[c.op] = TRUE]} ELSE {}
      [] c.cmd = "sync_users" ->
            IF saved THEN {[host EXCEPT !.users = c.users]} ELSE {}
      [] c.cmd = "verify_users" -> IF host.users = c.users THEN {host} ELSE {}
      [] c.cmd \in {"verify", "commit"} ->
            IF host.state[c.op] /\ host.files THEN {host} ELSE {}
      [] c.cmd = "rollback" ->
            IF saved /\ host.state[c.op] THEN {Restored(c.op)} ELSE {}

\* ... and when it fails, or when its answer is lost: nothing, all of it, or,
\* for a rollback, the files back in place.
ScriptFails(c) ==
    {host} \cup ScriptOk(c) \cup
    (IF c.cmd = "rollback" /\ host.save[c.op].kept THEN {Restored(c.op)} ELSE {})

Execute(c) ==
    /\ c \in remote
    /\ remote' = remote \ {c}
    /\ \E how \in {"ok", "error"} :
        /\ host' \in IF how = "ok" THEN ScriptOk(c) ELSE ScriptFails(c)
        /\ run' = IF c.by = Nobody THEN run ELSE [run EXCEPT ![c.by].call = how]
    /\ UNCHANGED <<store, faults>>

\* The commands of w, whose answers nobody awaits any more.
Orphan(w) == {IF c.by = w THEN [c EXCEPT !.by = Nobody] ELSE c : c \in remote}

\* The transport gives up; the command goes on.
TimeOut(w) ==
    /\ Fault("timeout")
    /\ run[w].call = "sent"
    /\ Go(w, [run[w] EXCEPT !.call = "error"])
    /\ remote' = Orphan(w)
    /\ UNCHANGED <<store, host>>

-----------------------------------------------------------------------------
(* The end of a step, of the plan, of the operation.                       *)

StepDone(w) ==
    LET r == run[w] IN
    /\ r.pc = "step"
    /\ r.call = "ok"
    /\ Go(w, [r EXCEPT !.call = "none", !.step = @ + 1,
                       !.pc = IF r.step = Len(Steps[doc[r.op].kind])
                              THEN "settle" ELSE @])
    /\ UNCHANGED <<store, remote, host, faults>>

\* Mutant of StepFailed: the error is noted and the plan goes on.
StepFailedIgnored(w) ==
    LET r == run[w] IN
    /\ r.pc = "step"
    /\ r.call = "error"
    /\ Go(w, [r EXCEPT !.call = "none", !.step = @ + 1,
                       !.pc = IF r.step = Len(Steps[doc[r.op].kind])
                              THEN "settle" ELSE @])
    /\ UNCHANGED <<store, remote, host, faults>>

StepFailed(w) ==
    /\ run[w].pc = "step"
    /\ run[w].call = "error"
    /\ Go(w, [run[w] EXCEPT !.pc = "revoke", !.call = "none"])
    /\ UNCHANGED <<store, remote, host, faults>>

\* A settling update was applied: the run knows, or its answer was lost.
Settled(w) ==
    \/ Go(w, [run[w] EXCEPT !.pc = "succeed"]) /\ UNCHANGED faults
    \/ Go(w, [run[w] EXCEPT !.pc = "revoke"]) /\ Fault("database")

\* markInstalledAfterVerification.
Reconcile(w) ==
    LET d == doc[run[w].op] IN
    /\ run[w].pc = "settle"
    /\ d.kind = "install"
    /\ relay.secret = d.rev
    /\ relay' = [relay EXCEPT !.status = "installed"]
    /\ Settled(w)
    /\ UNCHANGED <<user, doc, lock, remote, host>>

\* The guards of finalizeVerifiedSync.
Final(w) ==
    LET r == run[w] IN
    /\ OwnsOp(w)
    /\ relay.status = "installed"
    /\ relay.secret = doc[r.op].rev
    /\ Desired = r.snap

\* Mutant of Finalize: what is there now is taken for what was sent.
FinalizeUnguarded(w) ==
    /\ run[w].pc = "settle"
    /\ doc[run[w].op].kind = "sync_users"
    /\ Renewed(w)
    /\ user' = [u \in User |-> [user[u] EXCEPT !.applied = user[u].desired]]
    /\ Settled(w)
    /\ UNCHANGED <<relay, doc, lock, remote, host>>

\* finalizeVerifiedSync, after one more renewal.
Finalize(w) ==
    /\ run[w].pc = "settle"
    /\ doc[run[w].op].kind = "sync_users"
    /\ Renewed(w)
    /\ Final(w)
    /\ user' = [u \in User |-> [user[u] EXCEPT !.applied = user[u].desired]]
    /\ Settled(w)
    /\ UNCHANGED <<relay, doc, lock, remote, host>>

\* The relay or its users have changed meanwhile, or the update failed.
SettleRejected(w) ==
    LET d == doc[run[w].op] IN
    /\ run[w].pc = "settle"
    /\ d.kind = "sync_users" => Renewed(w)
    /\ \/ /\ d.kind = "install" /\ relay.secret # d.rev
          /\ UNCHANGED faults
       \/ /\ d.kind = "sync_users" /\ ~Final(w)
          /\ UNCHANGED faults
       \/ Fault("database")
    /\ Go(w, [run[w] EXCEPT !.pc = "revoke"])
    /\ UNCHANGED <<store, remote, host>>

\* succeedClaimed, after one more renewal.
Succeed(w) ==
    /\ run[w].pc = "succeed"
    /\ Renewed(w)
    /\ SetStatus(run[w].op, "succeeded")
    /\ Go(w, [run[w] EXCEPT !.pc = "release"])
    /\ UNCHANGED <<relay, user, lock, remote, host, faults>>

Fail(w) ==
    /\ run[w].pc = "fail"
    /\ SetStatus(run[w].op, "failed")
    /\ Go(w, [run[w] EXCEPT !.pc = "release"])
    /\ UNCHANGED <<relay, user, lock, remote, host, faults>>

Revoke(w) ==
    /\ run[w].pc = "revoke"
    /\ SetStatus(run[w].op, "rolling_back")
    /\ Go(w, [run[w] EXCEPT !.pc = "undo"])
    /\ UNCHANGED <<relay, user, lock, remote, host, faults>>

Undone(w) ==
    LET r == run[w] IN
    /\ r.pc = "undo"
    /\ r.call \in {"ok", "error"}
    /\ SetStatus(r.op, IF r.call = "ok" THEN "rolled_back" ELSE "failed")
    /\ Go(w, [r EXCEPT !.pc = "release", !.call = "none"])
    /\ UNCHANGED <<relay, user, lock, remote, host, faults>>

\* leaseLostResult wherever a renewal is awaited; a database error ends the
\* run anywhere.
Abort(w) ==
    LET r == run[w] IN
    /\ r.pc \notin {"idle", "lock", "release"}
    /\ r.call # "sent"
    /\ \/ r.pc \in {"read", "users", "step", "settle", "succeed"} /\ ~Renewed(w)
          /\ UNCHANGED faults
       \/ Fault("database")
    /\ Go(w, [r EXCEPT !.pc = "release", !.call = "none"])
    /\ UNCHANGED <<store, remote, host>>

\* The acquisition itself fails, perhaps after it was applied: nothing is
\* released.
LoseLock(w) ==
    /\ run[w].pc = "lock"
    /\ Fault("database")
    /\ \/ UNCHANGED lock
       \/ ~lock.live /\ lock' = [worker |-> w, op |-> run[w].op, live |-> TRUE]
    /\ Go(w, Idle)
    /\ UNCHANGED <<relay, user, doc, remote, host>>

\* The finally block; a failed delete leaves the lock to its lease.
Release(w) ==
    LET r == run[w] IN
    /\ r.pc = "release"
    /\ \/ /\ lock' = IF lock.worker = w /\ lock.op = r.op THEN NoLock ELSE lock
          /\ UNCHANGED faults
       \/ Fault("database") /\ UNCHANGED lock
    /\ Go(w, Idle)
    /\ UNCHANGED <<relay, user, doc, remote, host>>

-----------------------------------------------------------------------------
(* Crashes and clocks.                                                     *)

Crash(w) ==
    /\ Fault("crash")
    /\ Go(w, Idle)
    /\ remote' = Orphan(w)
    /\ UNCHANGED <<store, host>>

\* The heartbeat runs from the lock to the outcome; the awaits before and
\* after are too short for a lease to run out in unless the process stalls.
\* Nothing renews during a rollback: one that is late outlives the lock.
Held(w, o) ==
    /\ w # Nobody
    /\ run[w].op = o
    /\ run[w].pc \notin {"idle", "release"}
    /\ "late" \in FaultKinds => run[w].pc # "undo"

\* Unless commands may be late, none outlives the lease it was sent under.
InTime(o) == "late" \in FaultKinds \/ \A c \in remote : c.op # o

RunsOut(held) ==
    \/ ~held /\ UNCHANGED faults
    \/ held /\ Fault("stall")

\* Only the lease of a running operation is ever looked at.
ExpireOp(o) ==
    /\ doc[o].status = "running"
    /\ doc[o].live
    /\ InTime(o)
    /\ RunsOut(Held(doc[o].owner, o))
    /\ doc' = [doc EXCEPT ![o].live = FALSE]
    /\ UNCHANGED <<relay, user, lock, run, remote, host>>

ExpireLock ==
    /\ lock.live
    /\ InTime(lock.op)
    /\ RunsOut(Held(lock.worker, lock.op))
    /\ lock' = [lock EXCEPT !.live = FALSE]
    /\ UNCHANGED <<relay, user, doc, run, remote, host>>

-----------------------------------------------------------------------------
Step(w) ==
    \/ TakeLock(w) \/ Read(w) \/ ReadUsers(w)
    \/ Send(w) \/ StepDone(w) \/ StepFailed(w)
    \/ Reconcile(w) \/ Finalize(w) \/ SettleRejected(w)
    \/ Succeed(w) \/ Fail(w) \/ Revoke(w) \/ Undone(w)
    \/ Abort(w) \/ LoseLock(w) \/ Release(w)

Next ==
    \/ \E u \in User, o \in OpId : ChangeUser(u, o)
    \/ ConfigureRelay
    \/ \E o \in OpId, rev \in Revision : Install(o, rev)
    \/ \E w \in Worker : Claim(w) \/ Step(w) \/ TimeOut(w) \/ Crash(w)
    \/ \E c \in remote : Execute(c)
    \/ \E o \in OpId : ExpireOp(o)
    \/ ExpireLock

Spec == Init /\ [][Next]_vars

(***************************************************************************)
(* What the event loop, the worker's interval and the clock guarantee: a   *)
(* run goes on, a script ends, a lease nobody renews runs out, and every   *)
(* tick claims what it can.                                                *)
(***************************************************************************)
Fairness ==
    /\ \A w \in Worker : WF_vars(Step(w)) /\ WF_vars(Claim(w))
    /\ WF_vars(\E c \in remote : Execute(c))
    /\ \A o \in OpId : WF_vars(ExpireOp(o) /\ UNCHANGED faults)
    /\ WF_vars(ExpireLock /\ UNCHANGED faults)

FairSpec == Spec /\ Fairness

-----------------------------------------------------------------------------
(***************************************************************************)
(* Properties                                                              *)
(***************************************************************************)

\* Types, and that a command that is not an orphan is the one its run awaits.
TypeOK ==
    /\ relay \in [status : {"not_installed", "installed"}, secret : Revision]
    /\ user \in [User -> [desired : Revision, applied : Revision]]
    /\ doc \in [OpId -> Document]
    /\ lock \in [worker : Worker \cup {Nobody}, op : 0 .. MaxOps, live : BOOLEAN]
    /\ run \in [Worker -> Run]
    /\ \A c \in remote : c.by # Nobody => run[c.by].call = "sent" /\ run[c.by].op = c.op
    /\ host.users \in Users
    /\ faults \in 0 .. MaxFaults

\* Nothing is queued, running or on its way.
Quiet ==
    /\ remote = {}
    /\ \A o \in OpId : doc[o].status \in Gone \cup Terminal

\* A user on record as synced is on the relay as recorded, whatever failed
\* and was rolled back since (without a crash or a lost answer: see README).
SyncedIsOnNode ==
    Quiet => \A u \in User :
        user[u].desired # 0 /\ user[u].applied = user[u].desired
            => host.users[u] = user[u].desired

\* Once the operation of the latest credential revision has succeeded, the
\* relay serves exactly the current users: no deleted one, no older password.
UpToDate ==
    Quiet => \A o \in OpId :
        doc[o].status = "succeeded" /\ doc[o].rev = relay.secret
            => host.users = Desired

\* Both, of a relay nothing has failed at so far but its scripts: a process that
\* dies between recording users and finishing breaks them.
SyncedWithoutFaults   == faults = 0 => SyncedIsOnNode
UpToDateWithoutFaults == faults = 0 => UpToDate

\* Panel and relay agree on the users: on each one recorded as synced, and on
\* all of them once the latest revision has succeeded.
UsersAgreeWithoutFaults == SyncedWithoutFaults /\ UpToDateWithoutFaults

\* "success is persisted only after verify and before releasing the lock": an
\* operation becomes succeeded only while the relay serves the users its run
\* read, with L2TP configured if it was an install.
SuccessIsReal ==
    [][\A o \in OpId :
          doc[o].status # "succeeded" /\ doc'[o].status = "succeeded"
          => \E w \in Worker :
                /\ run[w].op = o
                /\ host.users = run[w].snap
                /\ doc[o].kind = "install" => host.files]_vars

\* An operation that ended does not end differently later, although setStatus
\* asks for no lease (unless the process stalls: see README).
FinalIsFinal ==
    [][\A o \in OpId : doc[o].status \in Terminal
          => doc'[o].status \in {doc[o].status, "deleted"}]_vars

\* "Active duplicates stay idempotent; terminal ones are replaced": a request
\* to install deletes no operation that is under way.
ActiveKept ==
    [][\A o \in OpId : doc[o].status \in {"queued", "running", "rolling_back"}
          => doc'[o].status # "deleted"]_vars

\* "rolls back and never succeeds", ending as rolled_back: a sync_users whose
\* backup was taken can be rolled back to a good end on the relay.
CanRollBack ==
    \A w \in Worker :
        LET o == run[w].op IN
        run[w].pc = "undo" /\ doc[o].kind = "sync_users" /\ host.save[o].kept
            => ScriptOk([by |-> w, op |-> o, cmd |-> "rollback",
                         users |-> run[w].snap]) # {}

\* Every queued operation ends, or is left in the middle of a rollback that no
\* process carries on.
Abandoned(o) ==
    /\ doc[o].status = "rolling_back"
    /\ \A w \in Worker : run[w].op # o

Completion ==
    \A o \in OpId :
        doc[o].status = "queued"
            ~> doc[o].status \in Terminal \cup {"deleted"} \/ Abandoned(o)

=============================================================================
