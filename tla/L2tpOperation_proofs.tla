------------------------ MODULE L2tpOperation_proofs ------------------------
(***************************************************************************)
(* An operation of a relay ends once, its success is real, and without     *)
(* faults the records of the users agree with the relay.                   *)
(*                                                                         *)
(* setStatus asks for no lease.  That it never hits an operation that      *)
(* ended rests on Owned: as long as no process stalls past its lease, an   *)
(* operation that somebody works on cannot be claimed by anyone else.      *)
(* What a run knows of the relay when it succeeds rests on Real: nobody    *)
(* but the holder of the lock has a command under way.  That the records   *)
(* are true rests on Calm: every list of users on its way to the relay     *)
(* agrees with them.                                                       *)
(***************************************************************************)
EXTENDS L2tpOperation, TLAPS

RunRecord == [pc : {"idle", "lock", "read", "users", "step", "settle", "succeed",
                    "fail", "revoke", "undo", "release"},
              op : 0 .. MaxOps, step : Nat, snap : Users,
              call : {"none", "sent", "ok", "error"}]

LockRecord == [worker : Worker \cup {Nobody}, op : 0 .. MaxOps, live : BOOLEAN]

SoundCommand(c) ==
    /\ c.by \in Worker \cup {Nobody} /\ c.op \in OpId /\ c.users \in Users
    /\ c = [by |-> c.by, op |-> c.op, cmd |-> c.cmd, users |-> c.users]

Types ==
    /\ relay \in [status : {"not_installed", "installed"}, secret : Revision]
    /\ user \in [User -> [desired : Revision, applied : Revision]]
    /\ doc \in [OpId -> Document]
    /\ lock \in LockRecord
    /\ run \in [Worker -> RunRecord]
    /\ \A c \in remote : SoundCommand(c)

Active(w) == run[w].pc \notin {"idle", "release"}

\* What a worker works on is its own, and stays so until the worker ends it.
Owned ==
    \A w \in Worker : Active(w) =>
        /\ run[w].op \in OpId
        /\ doc[run[w].op].owner = w
        /\ run[w].pc = "undo" => doc[run[w].op].status \in {"rolling_back", "deleted"}
        /\ run[w].pc # "undo" => doc[run[w].op].status = "running" /\ doc[run[w].op].live

OInv == Types /\ Owned

-----------------------------------------------------------------------------
(* Types.                                                                    *)

LEMMA InitTypes == Init => Types /\ Owned
  <1> USE BoundAssumption DEF Revision, OpId
  <1> SUFFICES ASSUME Init PROVE Types /\ Owned
    OBVIOUS
  <1>1. relay \in [status : {"not_installed", "installed"}, secret : Revision]
    BY DEF Init
  <1>2. user \in [User -> [desired : Revision, applied : Revision]]
    BY DEF Init
  <1>3. doc \in [OpId -> Document]
    BY DEF Init, Document, Steps, Gone
  <1>4. lock \in LockRecord
    BY DEF Init, LockRecord, NoLock
  <1>5. run \in [Worker -> RunRecord]
    BY DEF Init, RunRecord, Idle, Users
  <1>6. \A w \in Worker : ~Active(w)
    BY DEF Init, Active, Idle
  <1> QED BY <1>1, <1>2, <1>3, <1>4, <1>5, <1>6 DEF Init, Types, Owned

LEMMA DesiredIsUsers == ASSUME Types PROVE Desired \in Users
  BY DEF Types, Desired, Users

\* A worker's step to another record.
LEMMA GoTypes ==
  ASSUME Types, NEW w \in Worker, NEW r \in RunRecord, Go(w, r)
  PROVE  run' \in [Worker -> RunRecord] /\ run'[w] = r /\ \A v \in Worker \ {w} : run'[v] = run[v]
  BY DEF Types, Go

\* The steps by which a run goes on or ends without a word in its document.
Move(w) ==
    \/ TakeLock(w) \/ Read(w) \/ ReadUsers(w) \/ Send(w) \/ StepDone(w) \/ StepFailed(w)
    \/ Reconcile(w) \/ Finalize(w) \/ SettleRejected(w) \/ Abort(w) \/ LoseLock(w)
    \/ Release(w) \/ TimeOut(w) \/ Crash(w)

\* A run that moves stays with its operation, and does not begin or leave the
\* undoing but to end.
LEMMA MoveRun ==
  ASSUME Types, NEW w \in Worker, Move(w)
  PROVE  /\ doc' = doc
         /\ \E r \in RunRecord :
               /\ Go(w, r)
               /\ r.pc \in {"idle", "release"}
                  \/ (r.op = run[w].op /\ Active(w) /\ (r.pc = "undo" <=> run[w].pc = "undo"))
  <1> DEFINE Good(r) == /\ r \in RunRecord /\ Go(w, r)
                        /\ r.pc \in {"idle", "release"}
                           \/ (r.op = run[w].op /\ Active(w) /\ (r.pc = "undo" <=> run[w].pc = "undo"))
  <1>0. run[w] \in RunRecord /\ Desired \in Users
    BY DesiredIsUsers DEF Types
  <1>00. Idle \in RunRecord /\ Idle.pc = "idle"
    BY BoundAssumption DEF Idle, RunRecord, Users, Revision
  <1> SUFFICES doc' = doc /\ \E r : Good(r)
    OBVIOUS
  <1>1. CASE TakeLock(w)
    <2>1. \E pc \in {"read", "fail"} : Good([run[w] EXCEPT !.pc = pc])
      BY <1>0, <1>1 DEF TakeLock, RunRecord, Active
    <2> QED BY <1>1, <2>1 DEF TakeLock
  <1>2. CASE Read(w)
    <2>1. \/ Good([run[w] EXCEPT !.pc = "users"])
          \/ Good([run[w] EXCEPT !.pc = "step", !.snap = Desired])
          \/ Good([run[w] EXCEPT !.pc = "fail"])
      BY <1>0, <1>2 DEF Read, RunRecord, Active
    <2> QED BY <1>2, <2>1 DEF Read, store
  <1>3. CASE ReadUsers(w)
    <2>1. \/ Good([run[w] EXCEPT !.pc = "step", !.snap = Desired])
          \/ Good([run[w] EXCEPT !.pc = "fail"])
      BY <1>0, <1>3 DEF ReadUsers, RunRecord, Active
    <2> QED BY <1>3, <2>1 DEF ReadUsers, store
  <1>4. CASE Send(w)
    <2>1. \E call \in {"sent", "error"} : Good([run[w] EXCEPT !.call = call])
      BY <1>0, <1>4 DEF Send, RunRecord, Active
    <2> QED BY <1>4, <2>1 DEF Send, store
  <1>5. CASE StepDone(w)
    <2>0. PICK pc \in {"settle", "step"} :
             Go(w, [run[w] EXCEPT !.call = "none", !.step = @ + 1, !.pc = pc])
      BY <1>5 DEF StepDone
    <2> DEFINE r == [run[w] EXCEPT !.call = "none", !.step = @ + 1, !.pc = pc]
    <2>2. r \in RunRecord /\ r.op = run[w].op /\ r.pc = pc
      <3>1. run[w].step + 1 \in Nat
        BY <1>0 DEF RunRecord
      <3> QED BY <1>0, <3>1 DEF RunRecord
    <2>1. Good(r)
      BY <1>5, <2>0, <2>2 DEF StepDone, Active
    <2> QED BY <1>5, <2>1 DEF StepDone, store
  <1>6. CASE StepFailed(w)
    <2>1. Good([run[w] EXCEPT !.pc = "revoke", !.call = "none"])
      BY <1>0, <1>6 DEF StepFailed, RunRecord, Active
    <2> QED BY <1>6, <2>1 DEF StepFailed, store
  <1>7. CASE Reconcile(w)
    <2>1. \E pc \in {"succeed", "revoke"} : Good([run[w] EXCEPT !.pc = pc])
      BY <1>0, <1>7 DEF Reconcile, Settled, RunRecord, Active
    <2> QED BY <1>7, <2>1 DEF Reconcile
  <1>8. CASE Finalize(w)
    <2>1. \E pc \in {"succeed", "revoke"} : Good([run[w] EXCEPT !.pc = pc])
      BY <1>0, <1>8 DEF Finalize, Settled, RunRecord, Active
    <2> QED BY <1>8, <2>1 DEF Finalize
  <1>9. CASE SettleRejected(w)
    <2>1. Good([run[w] EXCEPT !.pc = "revoke"])
      BY <1>0, <1>9 DEF SettleRejected, RunRecord, Active
    <2> QED BY <1>9, <2>1 DEF SettleRejected, store
  <1>10. CASE Abort(w)
    <2>1. Good([run[w] EXCEPT !.pc = "release", !.call = "none"])
      BY <1>0, <1>10 DEF Abort, RunRecord
    <2> QED BY <1>10, <2>1 DEF Abort, store
  <1>11. CASE LoseLock(w)
    BY <1>00, <1>11 DEF LoseLock
  <1>12. CASE Release(w)
    BY <1>00, <1>12 DEF Release
  <1>13. CASE TimeOut(w)
    <2>1. Good([run[w] EXCEPT !.call = "error"]) \/ run[w].pc \in {"idle", "release"}
      BY <1>0, <1>13 DEF TimeOut, RunRecord, Active
    <2> QED BY <1>0, <1>13, <2>1 DEF TimeOut, store, RunRecord
  <1>14. CASE Crash(w)
    BY <1>00, <1>14 DEF Crash, store
  <1> QED BY <1>1, <1>2, <1>3, <1>4, <1>5, <1>6, <1>7, <1>8, <1>9, <1>10, <1>11, <1>12,
             <1>13, <1>14 DEF Move

\* The steps that end an operation or turn to undoing it.
Ends(w, status) ==
    /\ Active(w)
    /\ SetStatus(run[w].op, status)
    /\ \E r \in RunRecord :
          Go(w, r) /\ (r.pc = "release" \/ (r.pc = "undo" /\ r.op = run[w].op /\ status = "rolling_back"))

LEMMA EndsRun ==
  ASSUME Types, NEW w \in Worker, Succeed(w) \/ Fail(w) \/ Revoke(w) \/ Undone(w)
  PROVE  /\ \E status \in Terminal \cup {"rolling_back"} : Ends(w, status)
         /\ UNCHANGED <<relay, user, lock, remote, host, faults>>
  <1>0. run[w] \in RunRecord
    BY DEF Types
  <1>1. CASE Succeed(w)
    <2>1. [run[w] EXCEPT !.pc = "release"] \in RunRecord /\ [run[w] EXCEPT !.pc = "release"].pc = "release"
      BY <1>0 DEF RunRecord
    <2>2. Ends(w, "succeeded")
      BY <1>1, <2>1 DEF Succeed, Ends, Active
    <2> QED BY <1>1, <2>2 DEF Succeed, Terminal
  <1>2. CASE Fail(w)
    <2>1. [run[w] EXCEPT !.pc = "release"] \in RunRecord /\ [run[w] EXCEPT !.pc = "release"].pc = "release"
      BY <1>0 DEF RunRecord
    <2>2. Ends(w, "failed")
      BY <1>2, <2>1 DEF Fail, Ends, Active
    <2> QED BY <1>2, <2>2 DEF Fail, Terminal
  <1>3. CASE Revoke(w)
    <2>1. /\ [run[w] EXCEPT !.pc = "undo"] \in RunRecord
          /\ [run[w] EXCEPT !.pc = "undo"].pc = "undo"
          /\ [run[w] EXCEPT !.pc = "undo"].op = run[w].op
      BY <1>0 DEF RunRecord
    <2>2. Ends(w, "rolling_back")
      BY <1>3, <2>1 DEF Revoke, Ends, Active
    <2> QED BY <1>3, <2>2 DEF Revoke
  <1>4. CASE Undone(w)
    <2> DEFINE r == [run[w] EXCEPT !.pc = "release", !.call = "none"]
    <2>1. r \in RunRecord /\ r.pc = "release"
      BY <1>0 DEF RunRecord
    <2>2. PICK status \in {"rolled_back", "failed"} : SetStatus(run[w].op, status)
      BY <1>4 DEF Undone
    <2>3. Ends(w, status)
      BY <1>4, <2>1, <2>2 DEF Undone, Ends, Active
    <2> QED BY <1>4, <2>3 DEF Undone, Terminal
  <1> QED BY <1>1, <1>2, <1>3, <1>4

LEMMA SetStatusTypes ==
  ASSUME Types, NEW o \in OpId, NEW status \in Terminal \cup {"rolling_back"}, SetStatus(o, status)
  PROVE  /\ doc' \in [OpId -> Document]
         /\ \A p \in OpId \ {o} : doc'[p] = doc[p]
         /\ doc'[o].owner = doc[o].owner /\ doc'[o].kind = doc[o].kind
         /\ doc[o].status = "deleted" => doc'[o].status = "deleted"
         /\ doc[o].status # "deleted" => doc'[o].status = status
  BY DEF Types, SetStatus, Document, Terminal

-----------------------------------------------------------------------------
(* Owned.                                                                    *)

LEMMA MoveOwned ==
  ASSUME OInv, NEW w \in Worker, Move(w) PROVE Owned'
  <1>1. PICK r \in RunRecord :
          /\ Go(w, r)
          /\ r.pc \in {"idle", "release"}
             \/ (r.op = run[w].op /\ Active(w) /\ (r.pc = "undo" <=> run[w].pc = "undo"))
    BY MoveRun DEF OInv
  <1>2. run'[w] = r /\ (\A v \in Worker \ {w} : run'[v] = run[v]) /\ doc' = doc
    BY <1>1, GoTypes, MoveRun DEF OInv
  <1> QED BY <1>1, <1>2 DEF OInv, Owned, Active

LEMMA EndsOwned ==
  ASSUME OInv, NEW w \in Worker, NEW status \in Terminal \cup {"rolling_back"}, Ends(w, status)
  PROVE  Owned'
  <1>1. PICK r \in RunRecord :
          Go(w, r) /\ (r.pc = "release" \/ (r.pc = "undo" /\ r.op = run[w].op /\ status = "rolling_back"))
    BY DEF Ends
  <1>2. run'[w] = r /\ (\A v \in Worker \ {w} : run'[v] = run[v])
    BY <1>1, GoTypes DEF OInv
  <1> DEFINE o == run[w].op
  <1>3. o \in OpId /\ doc[o].owner = w
    BY DEF OInv, Owned, Ends
  <1>4. /\ \A p \in OpId \ {o} : doc'[p] = doc[p]
        /\ doc'[o].owner = w
        /\ doc[o].status = "deleted" => doc'[o].status = "deleted"
        /\ doc[o].status # "deleted" => doc'[o].status = status
    BY <1>3, SetStatusTypes DEF OInv, Ends
  <1>5. \A v \in Worker \ {w} : Active(v) => run[v].op # o
    BY <1>3 DEF OInv, Owned
  <1> QED BY <1>1, <1>2, <1>3, <1>4, <1>5 DEF OInv, Owned, Active

\* Who may claim finds nobody at work.
LEMMA ClaimOwned ==
  ASSUME OInv, NEW w \in Worker, Claim(w) PROVE Owned' /\ doc' \in [OpId -> Document]
         /\ run' \in [Worker -> RunRecord]
  <1>1. PICK o \in OpId, pc \in {"lock", "fail"} :
          /\ Claimable(o)
          /\ doc' = [doc EXCEPT ![o].status = "running", ![o].owner = w, ![o].live = TRUE]
          /\ Go(w, [Idle EXCEPT !.pc = pc, !.op = o])
    BY DEF Claim
  <1> DEFINE r == [Idle EXCEPT !.pc = pc, !.op = o]
  <1>2. r \in RunRecord /\ r.pc = pc /\ r.op = o
    <2>1. Idle \in RunRecord
      BY BoundAssumption DEF Idle, RunRecord, Users, Revision
    <2>2. o \in 0 .. MaxOps
      BY BoundAssumption DEF OpId
    <2> QED BY <2>1, <2>2 DEF RunRecord
  <1>3. run'[w] = r /\ (\A v \in Worker \ {w} : run'[v] = run[v]) /\ run' \in [Worker -> RunRecord]
    BY <1>1, <1>2, GoTypes DEF OInv
  <1>4. /\ doc'[o].status = "running" /\ doc'[o].owner = w /\ doc'[o].live
        /\ \A p \in OpId \ {o} : doc'[p] = doc[p]
        /\ doc' \in [OpId -> Document]
    <2>1. doc \in [OpId -> Document] /\ doc[o] \in Document
      BY DEF OInv, Types
    <2>2. [doc[o] EXCEPT !.status = "running", !.owner = w, !.live = TRUE] \in Document
      BY <2>1 DEF Document
    <2>3. doc' = [doc EXCEPT ![o] = [doc[o] EXCEPT !.status = "running", !.owner = w, !.live = TRUE]]
      BY <1>1, <2>1
    <2> QED BY <2>1, <2>2, <2>3 DEF Document
  <1>5. \A v \in Worker : Active(v) => run[v].op # o
    BY <1>1 DEF OInv, Owned, Claimable
  <1>6. Owned'
    <2>1. ASSUME NEW v \in Worker \ {w}, Active(v)'
          PROVE  Active(v) /\ run'[v] = run[v] /\ run[v].op \in OpId \ {o}
      BY <2>1, <1>3, <1>5 DEF OInv, Owned, Active
    <2> HIDE DEF r
    <2> QED BY <1>2, <1>3, <1>4, <2>1 DEF OInv, Owned, Active
  <1> QED BY <1>3, <1>4, <1>6

\* Requests touch no operation under way but to delete one being rolled back.
LEMMA RequestOwned ==
  ASSUME OInv, run' = run,
         \A o \in OpId : \/ doc'[o] = doc[o]
                       \/ doc[o].status = "none"
                       \/ /\ doc[o].status # "running" /\ doc'[o].owner = doc[o].owner
                          /\ doc'[o].status = "deleted"
  PROVE  Owned'
  BY DEF OInv, Owned, Active

\* A lease that somebody renews does not run out.
LEMMA ExpireOpOwned ==
  ASSUME OInv, "stall" \notin FaultKinds, NEW o \in OpId, ExpireOp(o) PROVE Owned'
  <1>1. ~Held(doc[o].owner, o) /\ doc[o].status = "running"
    BY DEF ExpireOp, RunsOut, Fault
  <1>2. \A v \in Worker : Active(v) => run[v].op # o
    BY <1>1, NullAssumption DEF OInv, Owned, Active, Held, Nobody
  <1>3. run' = run /\ \A p \in OpId \ {o} : doc'[p] = doc[p]
    BY DEF ExpireOp, OInv, Types
  <1> QED BY <1>2, <1>3 DEF OInv, Owned, Active

-----------------------------------------------------------------------------
(* Types of the store and of the relay under every step.                     *)

LEMMA QueuedDocument ==
  ASSUME Types, NEW o \in OpId, NEW kind \in {"install", "sync_users"}, NEW rev \in Revision
  PROVE  /\ Queued(doc[o], kind, rev) \in Document
         /\ Queued(doc[o], kind, rev).status = "queued" /\ Queued(doc[o], kind, rev).rev = rev
  BY DEF Queued, Types, Document, Steps

LEMMA RequestTypes ==
  ASSUME Types,
         \/ \E u \in User, o \in OpId : ChangeUser(u, o)
         \/ ConfigureRelay
         \/ \E o \in OpId, rev \in Revision : Install(o, rev)
  PROVE  /\ relay' \in [status : {"not_installed", "installed"}, secret : Revision]
         /\ user' \in [User -> [desired : Revision, applied : Revision]]
         /\ doc' \in [OpId -> Document]
         /\ UNCHANGED <<lock, run, remote, host>>
         /\ \A p \in OpId : \/ doc'[p] = doc[p]
                         \/ doc[p].status = "none"
                         \/ /\ doc[p].status # "running" /\ doc'[p].owner = doc[p].owner
                            /\ doc'[p].status = "deleted"
         /\ \A p \in OpId : doc'[p].status = "deleted" \/ doc'[p].status = "queued" \/ doc'[p] = doc[p]
         /\ \A p \in OpId : doc[p].status # "none" => doc'[p].kind = doc[p].kind
  <1> USE BoundAssumption DEF Revision
  <1>1. CASE \E u \in User, o \in OpId : ChangeUser(u, o)
    <2>1. PICK u \in User, o \in OpId : ChangeUser(u, o)
      BY <1>1
    <2>2. relay.secret + 1 \in Revision
      BY <2>1 DEF ChangeUser, Types
    <2>3. user' \in [User -> [desired : Revision, applied : Revision]]
      BY <2>1, <2>2 DEF ChangeUser, Types
    <2>4. relay' \in [status : {"not_installed", "installed"}, secret : Revision]
      BY <2>1, <2>2 DEF ChangeUser, Types
    <2>5. doc' = [doc EXCEPT ![o] = Queued(doc[o], "sync_users", relay.secret + 1)] /\ doc[o].status = "none"
      BY <2>1 DEF ChangeUser, NextOp, Types
    <2>6. /\ Queued(doc[o], "sync_users", relay.secret + 1) \in Document
          /\ Queued(doc[o], "sync_users", relay.secret + 1).status = "queued"
      BY <2>2, QueuedDocument
    <2>7. /\ doc' \in [OpId -> Document] /\ doc'[o].status = "queued"
          /\ \A p \in OpId \ {o} : doc'[p] = doc[p]
      BY <2>5, <2>6 DEF Types
    <2>8. UNCHANGED <<lock, run, remote, host>>
      BY <2>1 DEF ChangeUser
    <2> QED BY <2>3, <2>4, <2>5, <2>7, <2>8
  <1>2. CASE ConfigureRelay
    <2>1. relay' \in [status : {"not_installed", "installed"}, secret : Revision]
      BY <1>2 DEF ConfigureRelay, Types
    <2> QED BY <1>2, <2>1 DEF ConfigureRelay, Types
  <1>3. CASE \E o \in OpId, rev \in Revision : Install(o, rev)
    <2>1. PICK o \in OpId, rev \in Revision : Install(o, rev)
      BY <1>3
    <2> DEFINE same == {p \in OpId : doc[p].kind = "install" /\ doc[p].status \notin Gone}
    <2>2. \A p \in same : doc[p].status \notin {"queued", "running"}
      BY <2>1 DEF Install
    <2>3. doc[o].status = "none" /\ o \notin same
      BY <2>1 DEF Install, NextOp, Gone
    <2>4. /\ \A p \in same : doc'[p] = [doc[p] EXCEPT !.status = "deleted"]
          /\ doc'[o] = Queued(doc[o], "install", rev)
          /\ \A p \in OpId \ (same \cup {o}) : doc'[p] = doc[p]
          /\ doc' = [p \in OpId |-> doc'[p]]
      BY <2>1, <2>3 DEF Install
    <2>5. Queued(doc[o], "install", rev) \in Document /\ Queued(doc[o], "install", rev).status = "queued"
      BY QueuedDocument
    <2>6. \A p \in OpId : [doc[p] EXCEPT !.status = "deleted"] \in Document
      BY DEF Types, Document, Gone
    <2>7. doc' \in [OpId -> Document]
      BY <2>4, <2>5, <2>6 DEF Types
    <2>8. \A p \in same : /\ doc[p].status # "running" /\ doc'[p].owner = doc[p].owner
                           /\ doc'[p].status = "deleted" /\ doc'[p].kind = doc[p].kind
      BY <2>2, <2>4 DEF Types, Document
    <2>9. UNCHANGED <<relay, user, lock, run, remote, host>>
      BY <2>1 DEF Install
    <2> HIDE DEF same
    <2> QED BY <2>3, <2>4, <2>5, <2>7, <2>8, <2>9 DEF Types
  <1> QED BY <1>1, <1>2, <1>3

LEMMA MoveTypes ==
  ASSUME OInv, NEW w \in Worker, Move(w) PROVE Types'
  <1>0. Types /\ Owned
    BY DEF OInv
  <1>1. run[w] \in RunRecord
    BY <1>0 DEF Types
  <1>2. doc' = doc /\ run' \in [Worker -> RunRecord]
    BY <1>0, MoveRun, GoTypes
  <1>3. relay' \in [status : {"not_installed", "installed"}, secret : Revision]
    BY DEF Move, TakeLock, Read, ReadUsers, Send, StepDone, StepFailed, Reconcile, Finalize,
           SettleRejected, Abort, LoseLock, Release, TimeOut, Crash, store, OInv, Types
  <1>4. user' \in [User -> [desired : Revision, applied : Revision]]
    <2>1. CASE Finalize(w)
      BY <1>0, <2>1 DEF Finalize, Types
    <2>2. CASE ~Finalize(w)
      BY <2>2 DEF Move, TakeLock, Read, ReadUsers, Send, StepDone, StepFailed, Reconcile,
             SettleRejected, Abort, LoseLock, Release, TimeOut, Crash, store, OInv, Types
    <2> QED BY <2>1, <2>2
  <1>5. lock' \in LockRecord
    <2>1. [worker |-> w, op |-> run[w].op, live |-> TRUE] \in LockRecord /\ NoLock \in LockRecord
      BY <1>1, BoundAssumption DEF LockRecord, NoLock, RunRecord
    <2>2. \/ lock' = lock \/ lock' = NoLock
          \/ lock' = [worker |-> w, op |-> run[w].op, live |-> TRUE]
      BY DEF Move, TakeLock, Read, ReadUsers, Send, StepDone, StepFailed, Reconcile, Finalize,
             SettleRejected, Abort, LoseLock, Release, TimeOut, Crash, store
    <2> QED BY <1>0, <2>1, <2>2 DEF Types
  <1>7. \A c \in remote' : SoundCommand(c)
    <2> SUFFICES ASSUME NEW c \in remote' PROVE SoundCommand(c)
      OBVIOUS
    <2>1. CASE remote' = remote
      BY <1>0, <2>1 DEF Types
    <2>2. CASE Send(w)
      BY <1>0, <1>1, <2>2 DEF Send, Types, SoundCommand, Owned, Active, RunRecord
    <2>3. CASE remote' = Orphan(w)
      <3>1. PICK d \in remote : c = IF d.by = w THEN [d EXCEPT !.by = Nobody] ELSE d
        BY <2>3 DEF Orphan
      <3>2. SoundCommand(d)
        BY <1>0 DEF Types
      <3>3. CASE d.by = w
        <4>1. c = [by |-> Nobody, op |-> d.op, cmd |-> d.cmd, users |-> d.users]
          BY <3>1, <3>2, <3>3 DEF SoundCommand
        <4> QED BY <3>2, <4>1 DEF SoundCommand
      <3>4. CASE d.by # w
        BY <3>1, <3>2, <3>4
      <3> QED BY <3>3, <3>4
    <2> QED BY <2>1, <2>2, <2>3 DEF Move, TakeLock, Read, ReadUsers, StepDone, StepFailed,
               Reconcile, Finalize, SettleRejected, Abort, LoseLock, Release, TimeOut, Crash
  <1> QED BY <1>0, <1>2, <1>3, <1>4, <1>5, <1>7 DEF Types

LEMMA ExecuteInv ==
  ASSUME OInv, NEW c \in remote, Execute(c)
  PROVE  /\ Types' /\ Owned'
         /\ \A v \in Worker : /\ run'[v].pc = run[v].pc /\ run'[v].op = run[v].op
                              /\ run'[v].step = run[v].step /\ run'[v].snap = run[v].snap
                              /\ v # c.by => run'[v] = run[v]
                              /\ v = c.by => run'[v].call \in {"ok", "error"}
  <1>1. Types /\ SoundCommand(c)
    BY DEF OInv, Types
  <1>3. PICK how \in {"ok", "error"} :
           run' = IF c.by = Nobody THEN run ELSE [run EXCEPT ![c.by].call = how]
    BY DEF Execute
  <1>4. run' \in [Worker -> RunRecord]
    BY <1>1, <1>3 DEF Types, RunRecord, SoundCommand
  <1>5. \A v \in Worker : /\ run'[v].pc = run[v].pc /\ run'[v].op = run[v].op
                          /\ run'[v].step = run[v].step /\ run'[v].snap = run[v].snap
                          /\ v # c.by => run'[v] = run[v]
                          /\ v = c.by => run'[v].call \in {"ok", "error"}
    BY <1>1, <1>3, NullAssumption DEF Types, RunRecord, SoundCommand, Nobody
  <1>6. UNCHANGED <<relay, user, doc, lock>> /\ remote' \subseteq remote
    BY DEF Execute, store
  <1>7. Types'
    BY <1>1, <1>4, <1>6 DEF Types
  <1>8. Owned'
    BY <1>5, <1>6 DEF OInv, Owned, Active
  <1> QED BY <1>5, <1>7, <1>8

LEMMA ExpireTypes ==
  ASSUME Types, (\E o \in OpId : ExpireOp(o)) \/ ExpireLock PROVE Types'
  <1>1. CASE \E o \in OpId : ExpireOp(o)
    <2>1. PICK o \in OpId : ExpireOp(o)
      BY <1>1
    <2>2. doc \in [OpId -> Document] /\ [doc[o] EXCEPT !.live = FALSE] \in Document
      BY DEF Types, Document
    <2>3. doc' = [doc EXCEPT ![o] = [doc[o] EXCEPT !.live = FALSE]]
      BY <2>1, <2>2 DEF ExpireOp
    <2>4. doc' \in [OpId -> Document]
      BY <2>2, <2>3
    <2> QED BY <2>1, <2>4 DEF ExpireOp, Types
  <1>2. CASE ExpireLock
    BY <1>2 DEF ExpireLock, Types, LockRecord
  <1> QED BY <1>1, <1>2

LEMMA EndsTypes ==
  ASSUME OInv, NEW w \in Worker, NEW status \in Terminal \cup {"rolling_back"}, Ends(w, status),
         UNCHANGED <<relay, user, lock, remote, host>>
  PROVE  Types'
  <1>1. run[w].op \in OpId
    BY DEF OInv, Owned, Ends
  <1>2. doc' \in [OpId -> Document]
    BY <1>1, SetStatusTypes DEF OInv, Ends
  <1>3. run' \in [Worker -> RunRecord]
    BY GoTypes DEF OInv, Ends
  <1> QED BY <1>2, <1>3 DEF OInv, Types

LEMMA StepCases ==
  ASSUME NEW w \in Worker, Step(w) \/ TimeOut(w) \/ Crash(w)
  PROVE  Move(w) \/ Succeed(w) \/ Fail(w) \/ Revoke(w) \/ Undone(w)
  BY DEF Step, Move

LEMMA OwnedInv ==
  ASSUME "stall" \notin FaultKinds, OInv, [Next]_vars PROVE OInv'
  <1>1. CASE \/ \E u \in User, o \in OpId : ChangeUser(u, o)
             \/ ConfigureRelay
             \/ \E o \in OpId, rev \in Revision : Install(o, rev)
    <2>1. Types'
      BY <1>1, RequestTypes DEF OInv, Types
    <2>2. Owned'
      BY <1>1, RequestTypes, RequestOwned DEF OInv
    <2> QED BY <2>1, <2>2 DEF OInv
  <1>2. ASSUME NEW w \in Worker, Claim(w) PROVE OInv'
    <2>1. Types'
      BY <1>2, ClaimOwned DEF Claim, OInv, Types
    <2> QED BY <1>2, <2>1, ClaimOwned DEF OInv
  <1>3. ASSUME NEW w \in Worker, Step(w) \/ TimeOut(w) \/ Crash(w) PROVE OInv'
    <2>1. CASE Move(w)
      BY <2>1, MoveTypes, MoveOwned DEF OInv
    <2>2. CASE Succeed(w) \/ Fail(w) \/ Revoke(w) \/ Undone(w)
      BY <2>2, EndsRun, EndsTypes, EndsOwned DEF OInv
    <2> QED BY <1>3, <2>1, <2>2, StepCases
  <1>4. ASSUME NEW c \in remote, Execute(c) PROVE OInv'
    BY <1>4, ExecuteInv DEF OInv
  <1>5. ASSUME NEW o \in OpId, ExpireOp(o) PROVE OInv'
    BY <1>5, ExpireTypes, ExpireOpOwned DEF OInv
  <1>6. CASE ExpireLock
    <2>1. Owned'
      BY <1>6 DEF ExpireLock, OInv, Owned, Active
    <2> QED BY <1>6, <2>1, ExpireTypes DEF OInv
  <1>7. CASE UNCHANGED vars
    BY <1>7 DEF vars, OInv, Types, Owned, Active
  <1> QED BY <1>1, <1>2, <1>3, <1>4, <1>5, <1>6, <1>7 DEF Next

-----------------------------------------------------------------------------
\* What a step may do to an operation that has ended.
LEMMA EndedStays ==
  ASSUME OInv, [Next]_vars, NEW o \in OpId, doc[o].status \in Terminal
  PROVE  doc'[o].status \in {doc[o].status, "deleted"}
  <1>0. /\ doc[o].status \notin {"running", "queued", "rolling_back", "deleted", "none"}
        /\ \A v \in Worker : Active(v) => run[v].op # o
    BY DEF Terminal, OInv, Owned
  <1>1. CASE \/ \E u \in User, p \in OpId : ChangeUser(u, p)
             \/ ConfigureRelay
             \/ \E p \in OpId, rev \in Revision : Install(p, rev)
    BY <1>0, <1>1, RequestTypes DEF OInv
  <1>2. ASSUME NEW w \in Worker, Claim(w) PROVE doc'[o] = doc[o]
    BY <1>0, <1>2 DEF Claim, Claimable, OInv, Types
  <1>3. ASSUME NEW w \in Worker, Step(w) \/ TimeOut(w) \/ Crash(w) PROVE doc'[o] = doc[o]
    <2>1. CASE Move(w)
      BY <2>1, MoveRun DEF OInv
    <2>2. CASE Succeed(w) \/ Fail(w) \/ Revoke(w) \/ Undone(w)
      <3>1. PICK status \in Terminal \cup {"rolling_back"} : Ends(w, status)
        BY <2>2, EndsRun DEF OInv
      <3>2. run[w].op \in OpId \ {o}
        BY <1>0, <3>1 DEF Ends, OInv, Owned
      <3> QED BY <3>1, <3>2, SetStatusTypes DEF Ends, OInv
    <2> QED BY <1>3, <2>1, <2>2, StepCases
  <1>4. ASSUME NEW c \in remote, Execute(c) PROVE doc'[o] = doc[o]
    BY <1>4 DEF Execute, store
  <1>5. ASSUME NEW p \in OpId, ExpireOp(p) PROVE doc'[o] = doc[o]
    BY <1>0, <1>5 DEF ExpireOp, OInv, Types
  <1>6. CASE ExpireLock
    BY <1>6 DEF ExpireLock
  <1>7. CASE UNCHANGED vars
    BY <1>7 DEF vars
  <1> QED BY <1>1, <1>2, <1>3, <1>4, <1>5, <1>6, <1>7 DEF Next

(* Unless a process stalls past its lease, an operation that ended does not  *)
(* end differently later, whatever fails, is late or crashes, and however    *)
(* many workers there are, although setStatus asks for no lease.             *)
THEOREM FinalIsFinalHolds == ASSUME "stall" \notin FaultKinds PROVE Spec => FinalIsFinal
  <1>1. Init => OInv
    BY InitTypes DEF OInv
  <1>2. OInv /\ [Next]_vars => OInv'
    BY OwnedInv
  <1>3. OInv /\ [Next]_vars =>
          [\A o \in OpId : doc[o].status \in Terminal
              => doc'[o].status \in {doc[o].status, "deleted"}]_vars
    BY EndedStays
  <1> QED BY <1>1, <1>2, <1>3, PTL DEF Spec, FinalIsFinal

-----------------------------------------------------------------------------

(***************************************************************************)
(* Success is real.  A run may say what the relay serves because nobody    *)
(* else has touched it since its own steps: it holds the lock from its     *)
(* first read to its last word (LockHeld), and at most one command is      *)
(* under way, of the operation that has the lock (Alone).  A command whose *)
(* process died belongs to an operation nobody can take up before the      *)
(* command is over.                                                        *)
(***************************************************************************)
OnTime == FaultKinds \cap {"stall", "timeout", "late"} = {}

Holding == {"read", "users", "step", "settle", "succeed", "revoke", "undo"}

LockHeld == \A w \in Worker : run[w].pc \in Holding => OwnsLock(w)

\* c is the command the run of c.by waits for.
Awaited(c) ==
    /\ c.by \in Worker
    /\ run[c.by].pc \in {"step", "undo"}
    /\ run[c.by].call = "sent"
    /\ run[c.by].op = c.op
    /\ c.cmd = CommandOf(run[c.by])
    /\ c.users = run[c.by].snap

\* Nobody waits for c, and nobody is about to work on its operation.
Orphaned(c) ==
    /\ c.by = Nobody
    /\ doc[c.op].status # "none"
    /\ ~Claimable(c.op)
    /\ \A v \in Worker : run[v].op = c.op =>
          /\ ~Active(v)
          /\ run[v].pc = "release" => lock.worker # v

Alone ==
    /\ \A c \in remote : lock.live /\ lock.op = c.op /\ (Awaited(c) \/ Orphaned(c))
    /\ \A b \in remote, c \in remote : b = c

\* Step k of the plan has ended well.
Past(r, k) == r.step > k \/ (r.step = k /\ r.call = "ok")

\* What a run r of the operation d knows of the relay h.
Knows(h, d, r) ==
    /\ r.pc \in {"lock", "read", "users"} => r.step = 1
    /\ r.pc = "step" /\ d.kind = "install" =>
          /\ r.step \in 1 .. 6
          /\ Past(r, 2) => h.files
          /\ Past(r, 4) => h.users = r.snap
    /\ r.pc = "step" /\ d.kind = "sync_users" =>
          /\ r.step \in 1 .. 3
          /\ Past(r, 2) => h.users = r.snap
    /\ r.pc \in {"settle", "succeed"} =>
          h.users = r.snap /\ (d.kind = "install" => h.files)

Real ==
    /\ LockHeld
    /\ Alone
    /\ \A w \in Worker : Active(w) => Knows(host, doc[run[w].op], run[w])

\* What no step does to a document.
KindKept == \A p \in OpId : doc[p].status # "none" => doc'[p].kind = doc[p].kind

NotRevived ==
    \A p \in OpId :
        /\ doc[p].status # "none" /\ ~Claimable(p)
        /\ \A v \in Worker : Active(v) => run[v].op # p
        => doc'[p].status # "none" /\ ~Claimable(p)'

-----------------------------------------------------------------------------
\* What an active run knows of its document.
LEMMA ActiveFacts ==
  ASSUME OInv, NEW w \in Worker, Active(w)
  PROVE  run[w].op \in OpId /\ doc[run[w].op].status # "none" /\ ~Claimable(run[w].op)
  BY DEF OInv, Owned, Claimable

\* A command of w is the one it awaits.
LEMMA OwnCommand ==
  ASSUME OInv, Real, NEW w \in Worker, NEW c \in remote, c.by = w
  PROVE  Awaited(c)
  BY NullAssumption DEF Real, Alone, Orphaned, Nobody

\* A run that holds the lock and awaits nothing has the relay to itself.
LEMMA NothingUnderWay ==
  ASSUME OInv, Real, NEW w \in Worker, run[w].pc \in Holding,
         run[w].pc \notin {"step", "undo"} \/ run[w].call # "sent"
  PROVE  remote = {}
  <1> SUFFICES ASSUME NEW c \in remote PROVE FALSE
    OBVIOUS
  <1>1. OwnsLock(w) /\ lock.op = c.op
    BY DEF Real, LockHeld, Alone
  <1>2. CASE Awaited(c)
    <2>1. OwnsLock(c.by) /\ c.by \in Worker
      BY <1>2 DEF Real, LockHeld, Awaited, Holding
    <2>2. c.by = w
      BY <1>1, <2>1 DEF OwnsLock
    <2> QED BY <1>2, <2>2 DEF Awaited
  <1>3. CASE Orphaned(c)
    <2>1. run[w].op = c.op /\ Active(w)
      BY <1>1 DEF OwnsLock, Active, Holding
    <2> QED BY <1>3, <2>1 DEF Orphaned
  <1> QED BY <1>2, <1>3 DEF Real, Alone

\* A step of w that leaves the commands and the relay alone.
LEMMA AsideReal ==
  ASSUME OInv, Real, NEW w \in Worker,
         remote' = remote, host' = host, remote # {} => lock' = lock,
         \A v \in Worker \ {w} : run'[v] = run[v],
         run[w].pc \notin {"step", "undo"} \/ run[w].call # "sent",
         \/ run'[w].pc = "idle"
         \/ Active(w) /\ run'[w].op = run[w].op
         \/ Claimable(run'[w].op) /\ run'[w].pc # "release",
         KindKept, NotRevived, LockHeld',
         Active(w)' => Knows(host, doc'[run'[w].op], run'[w])
  PROVE  Real'
  <1>1. ASSUME NEW v \in Worker, Active(v)'
        PROVE  Knows(host', doc'[run'[v].op], run'[v])
    <2>1. CASE v = w
      BY <1>1, <2>1
    <2>2. CASE v # w
      <3>1. run'[v] = run[v] /\ Active(v)
        BY <1>1, <2>2 DEF Active
      <3>2. doc'[run[v].op].kind = doc[run[v].op].kind
        BY <3>1, ActiveFacts DEF KindKept
      <3>3. Knows(host, doc[run[v].op], run[v])
        BY <3>1 DEF Real
      <3> QED BY <3>1, <3>2, <3>3 DEF Knows
    <2> QED BY <2>1, <2>2
  <1>2. ASSUME NEW c \in remote
        PROVE  lock'.live /\ lock'.op = c.op /\ (Awaited(c)' \/ Orphaned(c)')
    <2>1. lock' = lock /\ lock.live /\ lock.op = c.op /\ c.op \in OpId
      BY <1>2 DEF Real, Alone, OInv, Types, SoundCommand
    <2>2. CASE Awaited(c)
      <3>1. c.by \in Worker \ {w} /\ Active(c.by)
        BY <2>2 DEF Awaited, Active
      <3>2. run'[c.by] = run[c.by] /\ doc'[c.op].kind = doc[c.op].kind
        BY <2>2, <3>1, ActiveFacts DEF KindKept, Awaited
      <3>3. Awaited(c)'
        BY <2>2, <3>1, <3>2 DEF Awaited, CommandOf
      <3> QED BY <2>1, <3>3
    <2>3. CASE Orphaned(c)
      <3>1. doc'[c.op].status # "none" /\ ~Claimable(c.op)'
        BY <2>1, <2>3 DEF NotRevived, Orphaned
      <3>2. ASSUME NEW v \in Worker, run'[v].op = c.op
            PROVE  ~Active(v)' /\ (run'[v].pc = "release" => lock'.worker # v)
        <4>1. CASE v # w
          BY <2>1, <2>3, <3>2, <4>1 DEF Orphaned, Active
        <4>2. CASE v = w
          BY <2>3, <3>2, <4>2 DEF Orphaned, Active
        <4> QED BY <4>1, <4>2
      <3>3. Orphaned(c)'
        BY <2>3, <3>1, <3>2 DEF Orphaned
      <3> QED BY <2>1, <3>3
    <2> QED BY <1>2, <2>2, <2>3 DEF Real, Alone
  <1>3. Alone'
    BY <1>2 DEF Real, Alone
  <1> QED BY <1>1, <1>3 DEF Real

\* The lock of a holder stays where it is when w goes on under it, or goes.
LEMMA LockKept ==
  ASSUME LockHeld, NEW w \in Worker, lock' = lock,
         \A v \in Worker \ {w} : run'[v] = run[v],
         run'[w].pc \in Holding =>
            run[w].pc \in Holding /\ run'[w].op = run[w].op
  PROVE  LockHeld'
  BY DEF LockHeld, OwnsLock

LEMMA SameDoc == doc' = doc => KindKept /\ NotRevived
  BY DEF KindKept, NotRevived, Claimable

\* A step of w at work that changes neither the lock nor a command.
LEMMA GoReal ==
  ASSUME OInv, Real, NEW w \in Worker, NEW r \in RunRecord, Active(w), Go(w, r),
         UNCHANGED <<lock, remote, host>>, r.op = run[w].op,
         r.pc \in Holding => run[w].pc \in Holding,
         run[w].pc \notin {"step", "undo"} \/ run[w].call # "sent",
         KindKept, NotRevived, Knows(host, doc[r.op], r)
  PROVE  Real'
  <1>1. run'[w] = r /\ \A v \in Worker \ {w} : run'[v] = run[v]
    BY GoTypes DEF OInv
  <1>2. LockHeld'
    BY <1>1, LockKept DEF Real
  <1>3. doc'[r.op].kind = doc[r.op].kind
    BY ActiveFacts DEF KindKept
  <1>4. Knows(host, doc'[r.op], r)
    BY <1>3 DEF Knows
  <1> QED BY <1>1, <1>2, <1>4, AsideReal

\* Reading, and the last words of a run: what is known is not forgotten.
LEMMA WorkReal ==
  ASSUME OInv, Real, NEW w \in Worker,
         \/ Read(w) \/ ReadUsers(w) \/ StepDone(w) \/ StepFailed(w)
         \/ Reconcile(w) \/ Finalize(w) \/ SettleRejected(w)
  PROVE  Real'
  <1> DEFINE s == run[w]
             d == doc[s.op]
  <1>0. /\ s \in RunRecord /\ Desired \in Users
        /\ doc \in [OpId -> Document]
    BY DesiredIsUsers DEF OInv, Types
  <1>1. /\ UNCHANGED <<doc, lock, remote, host>>
        /\ s.pc \in Holding /\ Active(w)
        /\ s.pc \notin {"step", "undo"} \/ s.call # "sent"
    BY DEF Read, ReadUsers, StepDone, StepFailed, Reconcile, Finalize, SettleRejected,
           Holding, Active, store
  <1>2. /\ KindKept /\ NotRevived /\ Knows(host, d, s)
        /\ s.op \in OpId /\ d.kind \in {"install", "sync_users"}
    <2>1. s.op \in OpId
      BY <1>1, ActiveFacts
    <2>2. d.kind \in {"install", "sync_users"}
      BY <1>0, <2>1 DEF Document, Steps
    <2> QED BY <1>1, <2>1, <2>2, SameDoc DEF Real
  <1>3. ASSUME NEW r \in RunRecord, Go(w, r), r.op = s.op, Knows(host, d, r)
        PROVE  Real'
    BY <1>1, <1>2, <1>3, GoReal
  <1>4. ASSUME NEW pc \in {"fail", "users", "succeed", "revoke"}, NEW call \in {s.call, "none"},
               Go(w, [s EXCEPT !.pc = pc, !.call = call]),
               pc = "users" => s.pc = "read", pc = "succeed" => s.pc = "settle"
        PROVE  Real'
    <2> DEFINE r == [s EXCEPT !.pc = pc, !.call = call]
    <2>1. /\ r \in RunRecord /\ r.pc = pc /\ r.op = s.op /\ r.step = s.step
          /\ r.snap = s.snap
      BY <1>0 DEF RunRecord
    <2> HIDE DEF r
    <2>2. Knows(host, d, r)
      BY <1>2, <1>4, <2>1 DEF Knows
    <2> QED BY <1>3, <1>4, <2>1, <2>2 DEF r
  <1>5. ASSUME NEW pc \in {"fail", "users", "succeed", "revoke"},
               Go(w, [s EXCEPT !.pc = pc]),
               pc = "users" => s.pc = "read", pc = "succeed" => s.pc = "settle"
        PROVE  Real'
    <2>1. [s EXCEPT !.pc = pc] = [s EXCEPT !.pc = pc, !.call = s.call]
      BY <1>0 DEF RunRecord
    <2> QED BY <1>4, <1>5, <2>1
  <1>6. ASSUME s.pc \in {"read", "users"}, Go(w, [s EXCEPT !.pc = "step", !.snap = Desired])
        PROVE  Real'
    <2> DEFINE r == [s EXCEPT !.pc = "step", !.snap = Desired]
    <2>1. r \in RunRecord /\ r.pc = "step" /\ r.op = s.op /\ r.step = 1
      BY <1>0, <1>2, <1>6 DEF RunRecord, Knows
    <2> HIDE DEF r
    <2>2. Knows(host, d, r)
      BY <2>1 DEF Knows, Past
    <2> QED BY <1>3, <1>6, <2>1, <2>2 DEF r
  <1>7. CASE StepDone(w)
    <2> DEFINE r == [s EXCEPT !.call = "none", !.step = @ + 1,
                              !.pc = IF s.step = Len(Steps[d.kind]) THEN "settle" ELSE @]
    <2>1. s.pc = "step" /\ s.call = "ok" /\ Go(w, r)
      BY <1>7 DEF StepDone
    <2>0. s.step \in Nat /\ s.step + 1 \in Nat
      BY <1>0 DEF RunRecord
    <2>2. /\ r \in RunRecord /\ r.op = s.op /\ r.step = s.step + 1 /\ r.snap = s.snap
          /\ r.call = "none" /\ s.step \in Nat
          /\ r.pc = IF s.step = Len(Steps[d.kind]) THEN "settle" ELSE "step"
      <3> DEFINE pc == IF s.step = Len(Steps[d.kind]) THEN "settle" ELSE s.pc
      <3>1. pc \in {"settle", "step"} /\ r = [s EXCEPT !.call = "none", !.step = @ + 1, !.pc = pc]
        BY <2>1
      <3> HIDE DEF pc
      <3>2. [s EXCEPT !.call = "none", !.step = @ + 1, !.pc = pc] \in RunRecord
        BY <1>0, <2>0, <3>1 DEF RunRecord
      <3>3. r.pc = pc /\ r.op = s.op /\ r.step = s.step + 1 /\ r.snap = s.snap /\ r.call = "none"
        BY <1>0 DEF RunRecord, pc
      <3> QED BY <2>0, <2>1, <3>1, <3>2, <3>3 DEF pc
    <2> HIDE DEF r
    <2>3. CASE d.kind = "install"
      <3>1. Len(Steps[d.kind]) = 6
        BY <2>3 DEF Steps
      <3>2. Knows(host, d, r)
        BY <1>2, <2>1, <2>2, <2>3, <3>1 DEF Knows, Past
      <3> QED BY <1>3, <2>1, <2>2, <3>2
    <2>4. CASE d.kind = "sync_users"
      <3>1. Len(Steps[d.kind]) = 3
        BY <2>4 DEF Steps
      <3>2. Knows(host, d, r)
        BY <1>2, <2>1, <2>2, <2>4, <3>1 DEF Knows, Past
      <3> QED BY <1>3, <2>1, <2>2, <3>2
    <2> QED BY <1>2, <2>3, <2>4
  <1>8. CASE Read(w)
    BY <1>5, <1>6, <1>8 DEF Read
  <1>9. CASE ReadUsers(w)
    BY <1>5, <1>6, <1>9 DEF ReadUsers
  <1>10. CASE StepFailed(w)
    BY <1>4, <1>10 DEF StepFailed
  <1>11. CASE Reconcile(w) \/ Finalize(w) \/ SettleRejected(w)
    BY <1>5, <1>11 DEF Reconcile, Finalize, SettleRejected, Settled
  <1> QED BY <1>7, <1>8, <1>9, <1>10, <1>11

\* The last words: nobody else works on the operation.
LEMMA EndsReal ==
  ASSUME OInv, Real, NEW w \in Worker, Succeed(w) \/ Fail(w) \/ Revoke(w) \/ Undone(w)
  PROVE  Real'
  <1> DEFINE s == run[w]
  <1>1. PICK status \in Terminal \cup {"rolling_back"} : Ends(w, status)
    BY EndsRun DEF OInv
  <1>2. /\ UNCHANGED <<lock, remote, host>> /\ Active(w) /\ s \in RunRecord
        /\ s.op \in OpId /\ SetStatus(s.op, status)
        /\ s.pc \notin {"step", "undo"} \/ s.call # "sent"
    BY <1>1, EndsRun, ActiveFacts
       DEF Ends, Succeed, Fail, Revoke, Undone, OInv, Types
  <1>3. /\ \A p \in OpId \ {s.op} : doc'[p] = doc[p]
        /\ doc'[s.op].kind = doc[s.op].kind
    BY <1>1, <1>2, SetStatusTypes DEF OInv
  <1>4. KindKept /\ NotRevived
    BY <1>2, <1>3 DEF KindKept, NotRevived, Claimable
  <1>5. CASE Revoke(w)
    <2> DEFINE r == [s EXCEPT !.pc = "undo"]
    <2>1. Go(w, r) /\ s.pc = "revoke"
      BY <1>5 DEF Revoke
    <2>2. r \in RunRecord /\ r.pc = "undo" /\ r.op = s.op
      BY <1>2 DEF RunRecord
    <2> HIDE DEF r
    <2>3. Knows(host, doc[r.op], r)
      BY <2>2 DEF Knows
    <2> QED BY <1>2, <1>4, <2>1, <2>2, <2>3, GoReal DEF Holding
  <1>6. CASE Succeed(w) \/ Fail(w) \/ Undone(w)
    <2>1. PICK r \in {[s EXCEPT !.pc = "release"], [s EXCEPT !.pc = "release", !.call = "none"]} :
             Go(w, r)
      BY <1>6 DEF Succeed, Fail, Undone
    <2>2. r \in RunRecord /\ r.pc = "release" /\ r.op = s.op
      BY <1>2 DEF RunRecord
    <2>3. Knows(host, doc[r.op], r)
      BY <2>2 DEF Knows
    <2> QED BY <1>2, <1>4, <2>1, <2>2, <2>3, GoReal DEF Holding
  <1> QED BY <1>5, <1>6

-----------------------------------------------------------------------------
(* The lock, the commands, and what comes from outside.                    *)

LEMMA TakeLockReal ==
  ASSUME OInv, Real, NEW w \in Worker, TakeLock(w)
  PROVE  Real'
  <1> DEFINE s == run[w]
  <1>1. /\ UNCHANGED <<doc, remote, host>> /\ s.pc = "lock" /\ Active(w) /\ s \in RunRecord
        /\ lock \in LockRecord
    BY DEF TakeLock, Active, OInv, Types
  <1>2. PICK pc \in {"read", "fail"} :
          /\ Go(w, [s EXCEPT !.pc = pc])
          /\ \/ /\ pc = "read" /\ lock' = [worker |-> w, op |-> s.op, live |-> TRUE]
                /\ ~lock.live \/ (lock.worker = w /\ lock.op = s.op)
             \/ pc = "fail" /\ lock' = lock
    BY DEF TakeLock
  <1> DEFINE r == [s EXCEPT !.pc = pc]
  <1>3. r \in RunRecord /\ r.pc = pc /\ r.op = s.op /\ r.step = s.step
    BY <1>1 DEF RunRecord
  <1> HIDE DEF r
  <1>4. run'[w] = r /\ \A v \in Worker \ {w} : run'[v] = run[v]
    BY <1>2, <1>3, GoTypes DEF OInv, r
  <1>5. ASSUME lock.live, lock.worker = w, lock.op = s.op
        PROVE  lock = [worker |-> w, op |-> s.op, live |-> TRUE]
    BY <1>1, <1>5 DEF LockRecord
  <1>6. remote # {} => lock' = lock
    BY <1>2, <1>5 DEF Real, Alone
  <1>7. LockHeld'
    <2>1. ASSUME NEW v \in Worker \ {w}, run[v].pc \in Holding PROVE lock' = lock
      <3>1. lock.live /\ lock.worker = v
        BY <2>1 DEF Real, LockHeld, OwnsLock
      <3> QED BY <1>2, <3>1
    <2> QED BY <1>2, <1>3, <1>4, <2>1 DEF Real, LockHeld, OwnsLock, Holding
  <1>8. Knows(host, doc'[run'[w].op], run'[w])
    BY <1>1, <1>2, <1>3, <1>4 DEF Knows, Real
  <1>9. run'[w].op = s.op
    BY <1>3, <1>4
  <1> QED BY <1>1, <1>4, <1>6, <1>7, <1>8, <1>9, SameDoc, AsideReal

\* A run that gives up while it awaits nothing.
LEMMA AbortReal ==
  ASSUME OInv, Real, NEW w \in Worker, Abort(w)
  PROVE  Real'
  <1> DEFINE s == run[w]
             r == [s EXCEPT !.pc = "release", !.call = "none"]
  <1>1. /\ UNCHANGED <<doc, lock, remote, host>> /\ Active(w) /\ s.call # "sent" /\ Go(w, r)
        /\ s \in RunRecord
    BY DEF Abort, Active, store, OInv, Types
  <1>2. r \in RunRecord /\ r.pc = "release" /\ r.op = s.op
    BY <1>1 DEF RunRecord
  <1> HIDE DEF r
  <1>3. Knows(host, doc[r.op], r) /\ r.pc \notin Holding
    BY <1>2 DEF Knows, Holding
  <1> QED BY <1>1, <1>2, <1>3, SameDoc, GoReal

LEMMA LeaveReal ==
  ASSUME OInv, Real, NEW w \in Worker, LoseLock(w) \/ Release(w)
  PROVE  Real'
  <1> DEFINE s == run[w]
  <1>1. /\ UNCHANGED <<doc, remote, host>> /\ s.pc \in {"lock", "release"} /\ Go(w, Idle)
    BY DEF LoseLock, Release
  <1>2. Idle \in RunRecord /\ Idle.pc = "idle"
    BY BoundAssumption DEF Idle, RunRecord, Users, Revision
  <1>3. run'[w].pc = "idle" /\ \A v \in Worker \ {w} : run'[v] = run[v]
    BY <1>1, <1>2, GoTypes DEF OInv
  <1>4. ASSUME lock' # lock
        PROVE  \/ ~lock.live
               \/ s.pc = "release" /\ lock.worker = w /\ lock.op = s.op
    BY <1>4 DEF LoseLock, Release
  <1>5. remote # {} => lock' = lock
    <2> SUFFICES ASSUME NEW c \in remote, lock' # lock PROVE FALSE
      OBVIOUS
    <2>1. lock.live /\ lock.op = c.op
      BY DEF Real, Alone
    <2>2. s.pc = "release" /\ lock.worker = w /\ lock.op = s.op
      BY <1>4, <2>1
    <2>3. CASE Awaited(c)
      <3>1. OwnsLock(c.by)
        BY <2>3 DEF Real, LockHeld, Awaited, Holding
      <3>2. c.by = w
        BY <2>2, <3>1 DEF OwnsLock
      <3> QED BY <2>2, <2>3, <3>2 DEF Awaited
    <2>4. CASE Orphaned(c)
      BY <2>1, <2>2, <2>4 DEF Orphaned
    <2> QED BY <2>3, <2>4 DEF Real, Alone
  <1>6. LockHeld'
    <2> SUFFICES ASSUME NEW v \in Worker, run'[v].pc \in Holding PROVE OwnsLock(v)'
      BY DEF LockHeld
    <2>1. v # w /\ run'[v] = run[v]
      BY <1>3 DEF Holding
    <2>2. OwnsLock(v)
      BY <2>1 DEF Real, LockHeld
    <2>3. lock' = lock
      BY <1>4, <2>1, <2>2 DEF OwnsLock
    <2> QED BY <2>1, <2>2, <2>3 DEF OwnsLock
  <1>7. ~Active(w)'
    BY <1>3 DEF Active
  <1> QED BY <1>1, <1>3, <1>5, <1>6, <1>7, SameDoc, AsideReal

LEMMA ClaimReal ==
  ASSUME OInv, Real, NEW w \in Worker, Claim(w)
  PROVE  Real'
  <1>1. PICK o \in OpId, pc \in {"lock", "fail"} :
          /\ Claimable(o)
          /\ doc' = [doc EXCEPT ![o].status = "running", ![o].owner = w, ![o].live = TRUE]
          /\ Go(w, [Idle EXCEPT !.pc = pc, !.op = o])
    BY DEF Claim
  <1>2. UNCHANGED <<lock, remote, host>> /\ run[w].pc = "idle" /\ doc \in [OpId -> Document]
    BY DEF Claim, OInv, Types
  <1> DEFINE r == [Idle EXCEPT !.pc = pc, !.op = o]
  <1>3. r \in RunRecord /\ r.pc = pc /\ r.op = o /\ r.step = 1
    <2>1. Idle \in RunRecord /\ Idle.step = 1
      BY BoundAssumption DEF Idle, RunRecord, Users, Revision
    <2>2. o \in 0 .. MaxOps
      BY BoundAssumption DEF OpId
    <2> QED BY <2>1, <2>2 DEF RunRecord
  <1> HIDE DEF r
  <1>4. run'[w] = r /\ \A v \in Worker \ {w} : run'[v] = run[v]
    BY <1>1, <1>3, GoTypes DEF OInv, r
  <1>5. /\ \A p \in OpId \ {o} : doc'[p] = doc[p]
        /\ doc'[o].kind = doc[o].kind
    <2>1. doc[o] \in Document
      BY <1>2
    <2> QED BY <1>1, <1>2, <2>1 DEF Document
  <1>6. KindKept /\ NotRevived
    BY <1>1, <1>5 DEF KindKept, NotRevived, Claimable
  <1>7. LockHeld'
    BY <1>2, <1>3, <1>4, LockKept DEF Real, Holding
  <1>8. Knows(host, doc'[run'[w].op], run'[w])
    BY <1>3, <1>4 DEF Knows
  <1>9. Claimable(run'[w].op) /\ run'[w].pc # "release"
    BY <1>1, <1>3, <1>4
  <1> QED BY <1>2, <1>4, <1>6, <1>7, <1>8, <1>9, AsideReal


\* A command is sent where there is none.
LEMMA SendReal ==
  ASSUME OInv, Real, NEW w \in Worker, Send(w)
  PROVE  Real'
  <1> DEFINE s == run[w]
             sent == [by |-> w, op |-> s.op, cmd |-> CommandOf(s), users |-> s.snap]
  <1>1. /\ UNCHANGED <<doc, lock, host>> /\ s.pc \in {"step", "undo"} /\ s.call = "none"
        /\ s \in RunRecord /\ Active(w) /\ s.pc \in Holding
    BY DEF Send, Active, store, OInv, Types, Holding
  <1>2. remote = {}
    BY <1>1, NothingUnderWay
  <1>3. PICK call \in {"sent", "error"} :
          /\ Go(w, [s EXCEPT !.call = call])
          /\ remote' = IF call = "sent" THEN {sent} ELSE {}
    BY <1>2 DEF Send
  <1> DEFINE r == [s EXCEPT !.call = call]
  <1>4. /\ r \in RunRecord /\ r.pc = s.pc /\ r.op = s.op /\ r.step = s.step
        /\ r.snap = s.snap /\ r.call = call
    BY <1>1 DEF RunRecord
  <1> HIDE DEF r
  <1>5. run'[w] = r /\ \A v \in Worker \ {w} : run'[v] = run[v]
    BY <1>3, <1>4, GoTypes DEF OInv, r
  <1>6. \A v \in Worker : run'[v].pc = run[v].pc /\ run'[v].op = run[v].op
    BY <1>4, <1>5
  <1>7. LockHeld'
    BY <1>1, <1>6 DEF Real, LockHeld, OwnsLock
  <1>8. Alone'
    <2>1. ASSUME NEW c, c = sent, call = "sent"
          PROVE  lock'.live /\ lock'.op = c.op /\ Awaited(c)'
      <3>1. OwnsLock(w)
        BY <1>1 DEF Real, LockHeld
      <3>2. CommandOf(run[w])' = CommandOf(run[w])
        BY <1>1, <1>4, <1>5 DEF CommandOf
      <3>3. Awaited(c)'
        BY <1>1, <1>4, <1>5, <2>1, <3>2 DEF Awaited
      <3> QED BY <1>1, <2>1, <3>1, <3>3 DEF OwnsLock
    <2> HIDE DEF sent
    <2>2. \A c \in remote' : c = sent /\ call = "sent"
      BY <1>3
    <2> QED BY <2>1, <2>2 DEF Alone
  <1>9. ASSUME NEW v \in Worker, Active(v)'
        PROVE  Knows(host', doc'[run'[v].op], run'[v])
    <2>1. Knows(host, doc[run[v].op], run[v])
      BY <1>6, <1>9 DEF Real, Active
    <2>2. CASE v = w
      BY <1>1, <1>3, <1>4, <1>5, <2>1, <2>2 DEF Knows, Past
    <2>3. CASE v # w
      BY <1>1, <1>5, <2>1, <2>3
    <2> QED BY <2>2, <2>3
  <1> QED BY <1>7, <1>8, <1>9 DEF Real

\* A process dies: its command goes on, and nobody takes up its operation yet.
LEMMA CrashReal ==
  ASSUME OInv, Real, NEW w \in Worker, Crash(w)
  PROVE  Real'
  <1>1. UNCHANGED <<doc, lock, host>> /\ Go(w, Idle) /\ remote' = Orphan(w)
    BY DEF Crash, store
  <1>2. Idle \in RunRecord /\ Idle.pc = "idle"
    BY BoundAssumption DEF Idle, RunRecord, Users, Revision
  <1>3. run'[w].pc = "idle" /\ \A v \in Worker \ {w} : run'[v] = run[v]
    BY <1>1, <1>2, GoTypes DEF OInv
  <1>4. LockHeld'
    BY <1>1, <1>3 DEF Real, LockHeld, OwnsLock, Holding
  <1>5. ASSUME NEW c \in remote, c.by = w
        PROVE  lock'.live /\ lock'.op = c.op /\ Orphaned([c EXCEPT !.by = Nobody])'
    <2>1. Awaited(c) /\ lock.live /\ lock.op = c.op /\ SoundCommand(c)
      BY <1>5, OwnCommand DEF Real, Alone, OInv, Types
    <2>2. run[w].op = c.op /\ Active(w) /\ OwnsLock(w)
      BY <1>5, <2>1 DEF Awaited, Active, Real, LockHeld, Holding
    <2>3. doc[c.op].status # "none" /\ ~Claimable(c.op)
      BY <2>2, ActiveFacts
    <2>4. ASSUME NEW v \in Worker, run'[v].op = c.op
          PROVE  ~Active(v)' /\ (run'[v].pc = "release" => lock'.worker # v)
      <3>1. CASE v = w
        BY <1>3, <3>1 DEF Active
      <3>2. CASE v # w
        <4>1. ~Active(v)
          BY <1>3, <2>2, <2>4, <3>2 DEF OInv, Owned
        <4> QED BY <1>1, <1>3, <2>2, <3>2, <4>1 DEF Active, OwnsLock
      <3> QED BY <3>1, <3>2
    <2>5. /\ [c EXCEPT !.by = Nobody].by = Nobody
          /\ [c EXCEPT !.by = Nobody].op = c.op
      BY <2>1 DEF SoundCommand
    <2> QED BY <1>1, <2>1, <2>3, <2>4, <2>5 DEF Orphaned, Claimable
  <1>6. ASSUME NEW c \in remote, c.by # w
        PROVE  lock'.live /\ lock'.op = c.op /\ (Awaited(c)' \/ Orphaned(c)')
    <2>1. lock.live /\ lock.op = c.op
      BY DEF Real, Alone
    <2>2. CASE Awaited(c)
      <3>1. run'[c.by] = run[c.by]
        BY <1>3, <1>6, <2>2 DEF Awaited
      <3> QED BY <1>1, <2>1, <2>2, <3>1 DEF Awaited, CommandOf
    <2>3. CASE Orphaned(c)
      <3>1. ASSUME NEW v \in Worker, run'[v].op = c.op
            PROVE  ~Active(v)' /\ (run'[v].pc = "release" => lock'.worker # v)
        BY <1>1, <1>3, <2>3, <3>1 DEF Orphaned, Active
      <3> QED BY <1>1, <2>1, <2>3, <3>1 DEF Orphaned, Claimable
    <2> QED BY <2>2, <2>3 DEF Real, Alone
  <1>7. Alone'
    <2>1. \A b \in remote', c \in remote' : b = c
      BY <1>1 DEF Orphan, Real, Alone
    <2>2. ASSUME NEW c \in remote'
          PROVE  lock'.live /\ lock'.op = c.op /\ (Awaited(c)' \/ Orphaned(c)')
      <3>1. PICK b \in remote : c = IF b.by = w THEN [b EXCEPT !.by = Nobody] ELSE b
        BY <1>1 DEF Orphan
      <3>2. SoundCommand(b)
        BY DEF OInv, Types
      <3>3. CASE b.by = w
        <4>1. c.op = b.op
          BY <3>1, <3>2, <3>3 DEF SoundCommand
        <4> QED BY <1>5, <3>1, <3>3, <4>1
      <3>4. CASE b.by # w
        BY <1>6, <3>1, <3>4
      <3> QED BY <3>3, <3>4
    <2> QED BY <2>1, <2>2 DEF Alone
  <1>8. \A v \in Worker : Active(v)' => Active(v) /\ run'[v] = run[v]
    BY <1>3 DEF Active
  <1> QED BY <1>1, <1>4, <1>7, <1>8 DEF Real

\* Requests, and leases that nobody needs.
LEMMA StillReal ==
  ASSUME OInv, Real, UNCHANGED <<lock, run, remote, host>>, KindKept,
         \A c \in remote : Orphaned(c) => doc'[c.op].status # "none" /\ ~Claimable(c.op)'
  PROVE  Real'
  <1>1. LockHeld'
    BY DEF Real, LockHeld, OwnsLock
  <1>2. ASSUME NEW w \in Worker, Active(w)
        PROVE  doc'[run[w].op].kind = doc[run[w].op].kind
    BY <1>2, ActiveFacts DEF KindKept
  <1>3. ASSUME NEW c \in remote
        PROVE  lock'.live /\ lock'.op = c.op /\ (Awaited(c)' \/ Orphaned(c)')
    <2>1. CASE Awaited(c)
      <3>1. c.by \in Worker /\ Active(c.by)
        BY <2>1 DEF Awaited, Active
      <3>2. Awaited(c)'
        BY <1>2, <2>1, <3>1 DEF Awaited, CommandOf
      <3> QED BY <3>2 DEF Real, Alone
    <2>2. CASE Orphaned(c)
      <3>1. Orphaned(c)'
        BY <2>2 DEF Orphaned, Active
      <3> QED BY <3>1 DEF Real, Alone
    <2> QED BY <2>1, <2>2 DEF Real, Alone
  <1>4. Alone'
    BY <1>3 DEF Real, Alone
  <1>5. ASSUME NEW w \in Worker, Active(w)'
        PROVE  Knows(host', doc'[run'[w].op], run'[w])
    <2>1. Active(w) /\ Knows(host, doc[run[w].op], run[w])
      BY <1>5 DEF Real, Active
    <2> QED BY <1>2, <2>1 DEF Knows
  <1> QED BY <1>1, <1>4, <1>5 DEF Real


-----------------------------------------------------------------------------
(* A command ends.                                                         *)

\* What a script makes of the relay.
Outcome(c, how) == IF how = "ok" THEN ScriptOk(c) ELSE ScriptFails(c)

Scripts == {"backup", "stage", "activate", "sync_users", "verify", "verify_users",
            "commit", "rollback"}

\* The relay is a record and is asked for nothing but its scripts.
Whole ==
    /\ host = [users |-> host.users, files |-> host.files,
               save  |-> host.save,  state |-> host.state]
    /\ \A c \in remote : c.cmd \in Scripts

LEMMA OkEffect ==
  ASSUME Whole, NEW c \in remote, NEW h \in ScriptOk(c)
  PROVE  /\ h = [users |-> h.users, files |-> h.files, save |-> h.save, state |-> h.state]
         /\ c.cmd \in {"backup", "stage", "activate", "verify", "commit", "verify_users"} =>
               h.users = host.users /\ (host.files => h.files)
         /\ c.cmd = "stage" => h.files
         /\ c.cmd = "sync_users" => h.users = c.users /\ h.files = host.files
         /\ c.cmd = "verify_users" => h.users = c.users
  <1> DEFINE R(u, f, s, t) == [users |-> u, files |-> f, save |-> s, state |-> t]
  <1>1. host = R(host.users, host.files, host.save, host.state)
    BY DEF Whole
  <1>2. CASE c.cmd \in {"verify", "commit", "verify_users"}
    BY <1>1, <1>2 DEF ScriptOk
  <1>3. CASE c.cmd = "backup"
    <2>1. h = host \/ \E s : h = R(host.users, host.files, s, host.state)
      BY <1>1, <1>3 DEF ScriptOk
    <2> QED BY <1>1, <1>3, <2>1
  <1>4. CASE c.cmd = "stage"
    <2>1. h = R(host.users, TRUE, host.save, host.state)
      BY <1>1, <1>4 DEF ScriptOk
    <2> QED BY <1>4, <2>1
  <1>5. CASE c.cmd = "activate"
    <2>1. \E t : h = R(host.users, host.files, host.save, t)
      BY <1>1, <1>5 DEF ScriptOk
    <2> QED BY <1>5, <2>1
  <1>6. CASE c.cmd = "sync_users"
    <2>1. h = R(c.users, host.files, host.save, host.state)
      BY <1>1, <1>6 DEF ScriptOk
    <2> QED BY <1>6, <2>1
  <1>7. CASE c.cmd = "rollback"
    <2>1. h = R(host.save[c.op].users, host.save[c.op].files, host.save, host.state)
      BY <1>1, <1>7 DEF ScriptOk, Restored
    <2> QED BY <1>7, <2>1
  <1> QED BY <1>2, <1>3, <1>4, <1>5, <1>6, <1>7 DEF Whole, Scripts

\* Every end of a script, good or not.
LEMMA AnyEffect ==
  ASSUME Whole, NEW c \in remote, NEW how \in {"ok", "error"}, NEW h \in Outcome(c, how)
  PROVE  /\ h = [users |-> h.users, files |-> h.files, save |-> h.save, state |-> h.state]
         /\ c.cmd \in Scripts \ {"sync_users", "rollback"} => h.users = host.users
         /\ c.cmd # "rollback" /\ host.files => h.files
         /\ how = "ok" /\ c.cmd = "stage" => h.files
         /\ how = "ok" /\ c.cmd \in {"sync_users", "verify_users"} => h.users = c.users
  <1>1. CASE h \in ScriptOk(c)
    <2>1. c.cmd \in Scripts
      BY DEF Whole
    <2> QED BY <1>1, <2>1, OkEffect DEF Scripts
  <1>2. CASE h = host
    <2>1. how = "error" \/ h \in ScriptOk(c)
      BY DEF Outcome
    <2> QED BY <1>1, <1>2, <2>1 DEF Whole
  <1>3. CASE h = Restored(c.op) /\ c.cmd = "rollback" /\ how = "error"
    <2>1. h = [users |-> host.save[c.op].users, files |-> host.save[c.op].files,
               save |-> host.save, state |-> host.state]
      BY <1>3 DEF Restored, Whole
    <2> QED BY <1>3, <2>1
  <1> QED BY <1>1, <1>2, <1>3 DEF Outcome, ScriptFails
LEMMA WholeKept ==
  ASSUME OInv, Real, Whole, [Next]_vars PROVE Whole'
  <1>1. CASE UNCHANGED <<remote, host>>
    BY <1>1 DEF Whole
  <1>2. ASSUME NEW w \in Worker, Send(w) PROVE Whole'
    <2>1. CommandOf(run[w]) \in Scripts
      <3>1. CASE run[w].pc = "undo"
        BY <3>1 DEF CommandOf, Scripts
      <3>2. CASE run[w].pc = "step"
        <4>1. Active(w) /\ Knows(host, doc[run[w].op], run[w])
          BY <3>2 DEF Active, Real
        <4>2. doc[run[w].op].kind \in {"install", "sync_users"}
          BY <4>1, ActiveFacts DEF OInv, Types, Document, Steps
        <4>3. CASE doc[run[w].op].kind = "install"
          BY <3>2, <4>1, <4>3 DEF Knows, CommandOf, Steps, Scripts
        <4>4. CASE doc[run[w].op].kind = "sync_users"
          BY <3>2, <4>1, <4>4 DEF Knows, CommandOf, Steps, Scripts
        <4> QED BY <4>2, <4>3, <4>4
      <3> QED BY <1>2, <3>1, <3>2 DEF Send
    <2>2. \A c \in remote' : c \in remote \/ c.cmd = CommandOf(run[w])
      BY <1>2 DEF Send
    <2>3. host' = host
      BY <1>2 DEF Send
    <2> QED BY <2>1, <2>2, <2>3 DEF Whole
  <1>3. ASSUME NEW w \in Worker, remote' = Orphan(w), host' = host PROVE Whole'
    <2>1. \A c \in remote : c.cmd \in Scripts /\ SoundCommand(c)
      BY DEF Whole, OInv, Types
    <2>2. \A c \in remote : [c EXCEPT !.by = Nobody].cmd = c.cmd
      BY <2>1 DEF SoundCommand
    <2>3. \A c \in remote' : c.cmd \in Scripts
      BY <1>3, <2>1, <2>2 DEF Orphan
    <2> QED BY <1>3, <2>3 DEF Whole
  <1>4. ASSUME NEW c \in remote, Execute(c) PROVE Whole'
    <2>1. PICK how \in {"ok", "error"} : host' \in Outcome(c, how)
      BY <1>4 DEF Execute, Outcome
    <2>2. remote' \subseteq remote
      BY <1>4 DEF Execute
    <2> QED BY <2>1, <2>2, AnyEffect DEF Whole
  <1>5. ASSUME NEW w \in Worker, Step(w) PROVE Send(w) \/ UNCHANGED <<remote, host>>
    BY <1>5 DEF Step, TakeLock, Read, ReadUsers, StepDone, StepFailed, Reconcile, Finalize,
       SettleRejected, Succeed, Fail, Revoke, Undone, Abort, LoseLock, Release
  <1>6. \/ UNCHANGED <<remote, host>>
        \/ \E w \in Worker : Send(w) \/ (remote' = Orphan(w) /\ host' = host)
        \/ \E c \in remote : Execute(c)
    BY <1>5 DEF Next, vars, ChangeUser, ConfigureRelay, Install, Claim, TimeOut, Crash,
       ExpireOp, ExpireLock
  <1> QED BY <1>1, <1>2, <1>3, <1>4, <1>6

\* The relay after a step of the run that awaited it; nobody else knows
\* anything of it.
LEMMA ExecuteReal ==
  ASSUME OInv, Real, Whole, NEW c \in remote, Execute(c)
  PROVE  Real'
  <1>1. PICK how \in {"ok", "error"} :
          /\ host' \in Outcome(c, how)
          /\ run' = IF c.by = Nobody THEN run ELSE [run EXCEPT ![c.by].call = how]
    BY DEF Execute, Outcome
  <1>2. /\ UNCHANGED <<doc, lock>>
        /\ \A v \in Worker : /\ run'[v].pc = run[v].pc /\ run'[v].op = run[v].op
                             /\ run'[v].step = run[v].step /\ run'[v].snap = run[v].snap
                             /\ v # c.by => run'[v] = run[v]
    BY ExecuteInv DEF Execute, store
  <1>3. LockHeld'
    BY <1>2 DEF Real, LockHeld, OwnsLock
  <1>4. Alone'
    <2>1. remote' = {}
      BY DEF Execute, Real, Alone
    <2> QED BY <2>1 DEF Alone
  <1>5. ASSUME NEW v \in Worker, Active(v), v # c.by
        PROVE  Knows(host', doc[run[v].op], run'[v])
    <2>1. run[v].pc \notin Holding
      <3> SUFFICES ASSUME run[v].pc \in Holding PROVE FALSE
        OBVIOUS
      <3>1. OwnsLock(v) /\ lock.op = c.op
        BY DEF Real, LockHeld, Alone
      <3>2. CASE Awaited(c)
        <4>1. OwnsLock(c.by)
          BY <3>2 DEF Real, LockHeld, Awaited, Holding
        <4> QED BY <1>5, <3>1, <4>1 DEF OwnsLock
      <3>3. CASE Orphaned(c)
        BY <1>5, <3>1, <3>3 DEF Orphaned, OwnsLock
      <3> QED BY <3>2, <3>3 DEF Real, Alone
    <2>2. Knows(host, doc[run[v].op], run[v])
      BY <1>5 DEF Real
    <2> QED BY <1>2, <2>1, <2>2 DEF Knows, Holding
  <1>6. ASSUME NEW v \in Worker, Active(v), v = c.by
        PROVE  Knows(host', doc[run[v].op], run'[v])
    <2> DEFINE s == run[v]
               d == doc[s.op]
    <2>1. Awaited(c) /\ Knows(host, d, s) /\ s \in RunRecord
      BY <1>6, OwnCommand DEF Real, OInv, Types
    <2>2. /\ s.pc \in {"step", "undo"} /\ s.call = "sent"
          /\ c.cmd = CommandOf(s) /\ c.users = s.snap
      BY <1>6, <2>1 DEF Awaited
    <2>3. /\ run'[v].pc = s.pc /\ run'[v].step = s.step /\ run'[v].snap = s.snap
          /\ run'[v].call = how
      BY <1>1, <1>2, <1>6, <2>1, NullAssumption DEF RunRecord, OInv, Types, Nobody
    <2>4. /\ c.cmd \in Scripts \ {"sync_users", "rollback"} => host'.users = host.users
          /\ c.cmd # "rollback" /\ host.files => host'.files
          /\ how = "ok" /\ c.cmd = "stage" => host'.files
          /\ how = "ok" /\ c.cmd \in {"sync_users", "verify_users"} => host'.users = s.snap
      BY <1>1, <2>2, AnyEffect
    <2>5. d.kind \in {"install", "sync_users"}
      BY <1>6, ActiveFacts DEF OInv, Types, Document, Steps
    <2>6. CASE s.pc = "undo"
      BY <2>3, <2>6 DEF Knows
    <2>7. CASE s.pc = "step" /\ d.kind = "install"
      <3>1. /\ s.step \in 1 .. 6
            /\ s.step > 2 => host.files
            /\ s.step > 4 => host.users = s.snap
        BY <2>1, <2>7 DEF Knows, Past
      <3>2. /\ c.cmd \in Scripts \ {"rollback", "verify_users"}
            /\ s.step = 2 <=> c.cmd = "stage"
            /\ s.step = 4 <=> c.cmd = "sync_users"
        BY <2>2, <2>7, <3>1 DEF CommandOf, Steps, Scripts
      <3>3. /\ s.step > 2 \/ (s.step = 2 /\ how = "ok") => host'.files
            /\ s.step > 4 \/ (s.step = 4 /\ how = "ok") => host'.users = s.snap
        BY <2>4, <3>1, <3>2
      <3> QED BY <2>3, <2>7, <3>1, <3>3 DEF Knows, Past
    <2>8. CASE s.pc = "step" /\ d.kind = "sync_users"
      <3>1. s.step \in 1 .. 3 /\ (s.step > 2 => host.users = s.snap)
        BY <2>1, <2>8 DEF Knows, Past
      <3>2. /\ c.cmd \in Scripts \ {"rollback"}
            /\ s.step = 2 <=> c.cmd = "sync_users"
        BY <2>2, <2>8, <3>1 DEF CommandOf, Steps, Scripts
      <3>3. s.step > 2 \/ (s.step = 2 /\ how = "ok") => host'.users = s.snap
        BY <2>4, <3>1, <3>2
      <3> QED BY <2>3, <2>8, <3>1, <3>3 DEF Knows, Past
    <2> QED BY <2>2, <2>5, <2>6, <2>7, <2>8
  <1>7. ASSUME NEW v \in Worker, Active(v)'
        PROVE  Knows(host', doc'[run'[v].op], run'[v])
    BY <1>2, <1>5, <1>6, <1>7 DEF Active
  <1> QED BY <1>3, <1>4, <1>7 DEF Real

LEMMA RequestReal ==
  ASSUME OInv, Real,
         \/ \E u \in User, o \in OpId : ChangeUser(u, o)
         \/ ConfigureRelay
         \/ \E o \in OpId, rev \in Revision : Install(o, rev)
  PROVE  Real'
  <1>1. /\ UNCHANGED <<lock, run, remote, host>> /\ KindKept
        /\ \A p \in OpId : doc[p].status # "none" =>
              doc'[p] = doc[p] \/ doc'[p].status = "deleted"
    BY RequestTypes DEF OInv, KindKept
  <1>2. \A c \in remote : c.op \in OpId
    BY DEF OInv, Types, SoundCommand
  <1> QED BY <1>1, <1>2, StillReal DEF Orphaned, Claimable

\* No lease runs out while its command is under way or its owner at work.
LEMMA ExpireReal ==
  ASSUME OInv, Real, OnTime, (\E o \in OpId : ExpireOp(o)) \/ ExpireLock
  PROVE  Real'
  <1>0. "late" \notin FaultKinds /\ "stall" \notin FaultKinds
    BY DEF OnTime
  <1>1. CASE \E o \in OpId : ExpireOp(o)
    <2>1. PICK o \in OpId : ExpireOp(o)
      BY <1>1
    <2>2. /\ UNCHANGED <<lock, run, remote, host>> /\ \A c \in remote : c.op # o
          /\ doc' = [doc EXCEPT ![o].live = FALSE] /\ doc \in [OpId -> Document]
      BY <1>0, <2>1 DEF ExpireOp, InTime, OInv, Types
    <2>3. \A p \in OpId : doc'[p].kind = doc[p].kind /\ (p # o => doc'[p] = doc[p])
      BY <2>2 DEF Document
    <2>4. \A c \in remote : c.op \in OpId
      BY DEF OInv, Types, SoundCommand
    <2> QED BY <2>2, <2>3, <2>4, StillReal DEF KindKept, Orphaned, Claimable
  <1>2. CASE ExpireLock
    <2>1. /\ UNCHANGED <<doc, run, remote, host>>
          /\ ~Held(lock.worker, lock.op)
      BY <1>0, <1>2 DEF ExpireLock, RunsOut, Fault
    <2>2. remote = {}
      BY <1>0, <1>2 DEF ExpireLock, InTime, Real, Alone
    <2>3. \A w \in Worker : run[w].pc \notin Holding
      BY <1>0, <2>1, NullAssumption DEF Real, LockHeld, OwnsLock, Held, Holding, Nobody
    <2>4. LockHeld' /\ Alone'
      BY <2>1, <2>2, <2>3 DEF LockHeld, Alone
    <2> QED BY <2>1, <2>4 DEF Real, Active
  <1> QED BY <1>1, <1>2

LEMMA NextReal ==
  ASSUME OnTime, OInv, Real, Whole, [Next]_vars PROVE Real'
  <1>1. ASSUME NEW w \in Worker, Step(w) PROVE Real'
    BY <1>1, TakeLockReal, WorkReal, SendReal, EndsReal, AbortReal, LeaveReal DEF Step
  <1>2. ASSUME NEW w \in Worker, TimeOut(w) PROVE FALSE
    BY <1>2 DEF TimeOut, Fault, OnTime
  <1>3. CASE UNCHANGED vars
    <2>1. UNCHANGED <<doc, lock, run, remote, host>>
      BY <1>3 DEF vars
    <2> QED BY <2>1, StillReal DEF KindKept, Orphaned, Claimable
  <1> QED BY <1>1, <1>2, <1>3, RequestReal, ExpireReal, ClaimReal, CrashReal, ExecuteReal DEF Next

LEMMA InitReal == Init => Real /\ Whole
  <1> SUFFICES ASSUME Init PROVE Real /\ Whole
    OBVIOUS
  <1>1. remote = {} /\ \A w \in Worker : run[w].pc = "idle"
    BY DEF Init, Idle
  <1>2. Whole
    BY <1>1 DEF Init, Whole
  <1> QED BY <1>1, <1>2 DEF Real, LockHeld, Alone, Active, Holding

\* Only the run that knows it makes an operation a success.
LEMMA SuccessStep ==
  ASSUME OInv, Real, [Next]_vars, NEW o \in OpId,
         doc[o].status # "succeeded", doc'[o].status = "succeeded"
  PROVE  \E w \in Worker :
            /\ run[w].op = o
            /\ host.users = run[w].snap
            /\ doc[o].kind = "install" => host.files
  <1>1. ASSUME NEW w \in Worker, Succeed(w)
        PROVE  /\ run[w].op = o
               /\ host.users = run[w].snap
               /\ doc[o].kind = "install" => host.files
    <2>1. run[w].pc = "succeed" /\ SetStatus(run[w].op, "succeeded") /\ Active(w)
      BY <1>1 DEF Succeed, Active
    <2>2. run[w].op \in OpId
      BY <2>1, ActiveFacts
    <2>3. run[w].op = o
      BY <2>1, <2>2, SetStatusTypes DEF OInv, Terminal
    <2> QED BY <2>1, <2>3 DEF Real, Knows
  <1>2. ASSUME NEW w \in Worker, Fail(w) \/ Revoke(w) \/ Undone(w) PROVE FALSE
    <2>1. PICK status \in {"failed", "rolling_back", "rolled_back"} : SetStatus(run[w].op, status)
      BY <1>2 DEF Fail, Revoke, Undone
    <2>2. doc'[o].status \in {doc[o].status, status}
      BY <2>1 DEF SetStatus, OInv, Types, Document
    <2> QED BY <2>2
  <1>3. ASSUME NEW w \in Worker, Move(w) PROVE FALSE
    BY <1>3, MoveRun DEF OInv
  <1>4. CASE \/ \E u \in User, p \in OpId : ChangeUser(u, p)
             \/ ConfigureRelay
             \/ \E p \in OpId, rev \in Revision : Install(p, rev)
    BY <1>4, RequestTypes DEF OInv
  <1>5. ASSUME NEW w \in Worker, Claim(w) PROVE FALSE
    <2>1. PICK p \in OpId :
             doc' = [doc EXCEPT ![p].status = "running", ![p].owner = w, ![p].live = TRUE]
      BY <1>5 DEF Claim
    <2>2. doc'[o].status \in {doc[o].status, "running"}
      BY <2>1 DEF OInv, Types, Document
    <2> QED BY <2>2
  <1>6. ASSUME NEW p \in OpId, ExpireOp(p) PROVE FALSE
    BY <1>6 DEF ExpireOp, OInv, Types, Document
  <1>7. CASE (\E c \in remote : Execute(c)) \/ ExpireLock \/ UNCHANGED vars
    BY <1>7 DEF Execute, ExpireLock, vars, store
  <1> QED BY <1>1, <1>2, <1>3, <1>4, <1>5, <1>6, <1>7, StepCases DEF Next

(* Where no process stalls past its lease and no command outlives its own, an *)
(* operation becomes succeeded only while the relay serves the users its run  *)
(* read, with L2TP configured if it was an install: however many processes    *)
(* claim, crash, fail or are refused a lease, and whatever the panel's users  *)
(* change meanwhile.                                                          *)
THEOREM SuccessIsRealHolds == ASSUME OnTime PROVE Spec => SuccessIsReal
  <1> DEFINE Inv == OInv /\ Real /\ Whole
  <1>1. Init => Inv
    BY InitTypes, InitReal DEF OInv
  <1>2. Inv /\ [Next]_vars => Inv'
    <2>1. "stall" \notin FaultKinds
      BY DEF OnTime
    <2> QED BY <2>1, OwnedInv, NextReal, WholeKept
  <1>3. Inv /\ [Next]_vars =>
          [\A o \in OpId :
              doc[o].status # "succeeded" /\ doc'[o].status = "succeeded"
              => \E w \in Worker :
                    /\ run[w].op = o
                    /\ host.users = run[w].snap
                    /\ doc[o].kind = "install" => host.files]_vars
    BY SuccessStep
  <1> QED BY <1>1, <1>2, <1>3, PTL DEF Spec, SuccessIsReal

-----------------------------------------------------------------------------
(***************************************************************************)
(* What the database says of the users is what the relay serves, as long   *)
(* as nothing fails but scripts.  It is inductive only for every list of   *)
(* users that may yet come to the relay: the one it serves, the one a run  *)
(* has read and the one a backup keeps must all agree with the records     *)
(* (Truthful).  An operation runs once (Fresh, Manned), so its backup is   *)
(* of its own time; and whoever finds the credential revision unchanged at *)
(* the end finds the users unchanged, as no user is newer (Dated).         *)
(***************************************************************************)
Recorded(u) == user[u].desired # 0 /\ user[u].applied = user[u].desired

Confirmed == \E o \in OpId : doc[o].status = "succeeded" /\ doc[o].rev = relay.secret

\* The lists of users that contradict no record.
Truthful ==
    {f \in Users : /\ \A u \in User : Recorded(u) => f[u] = user[u].desired
                   /\ Confirmed => f = Desired}

Dated ==
    /\ \A u \in User : user[u].applied <= relay.secret /\ user[u].desired <= relay.secret
    /\ \A o \in OpId : doc[o].rev <= relay.secret

\* A running operation has its worker, and a command its run.
Manned ==
    /\ \A o \in OpId : doc[o].status = "running" => \E w \in Worker : Active(w) /\ run[w].op = o
    /\ \A c \in remote : c.by # Nobody

\* An operation nobody has taken up yet has no backup.
Fresh ==
    /\ host.save = [o \in OpId |-> host.save[o]]
    /\ \A o \in OpId : doc[o].status \in {"none", "queued"} => ~host.save[o].kept

\* What a run has read and may have to put back.
RunTruthful(w) ==
    LET r == run[w] IN
    /\ r.pc \in {"lock", "read", "users"} => ~host.save[r.op].kept
    /\ r.pc = "step" => r.snap \in Truthful
    /\ r.pc \in {"step", "settle", "revoke", "undo"} /\ host.save[r.op].kept
          => host.save[r.op].users \in Truthful
    /\ r.pc \in {"step", "settle", "succeed"} /\ doc[r.op].rev = relay.secret
          => r.snap = Desired

Calm ==
    /\ host.users \in Truthful
    /\ Dated /\ Manned /\ Fresh
    /\ \A w \in Worker : RunTruthful(w)

-----------------------------------------------------------------------------
LEMMA DesiredTruthful == ASSUME OInv PROVE Desired \in Truthful
  BY DesiredIsUsers DEF OInv, Truthful, Desired

\* Two workers work on different operations, and only one of them holds the lock.
LEMMA Apart ==
  ASSUME OInv, Real, NEW w \in Worker, NEW v \in Worker \ {w}
  PROVE  /\ Active(w) /\ Active(v) => run[w].op # run[v].op
         /\ run[w].pc \in Holding => run[v].pc \notin Holding
  <1>1. Active(w) /\ Active(v) => run[w].op # run[v].op
    BY DEF OInv, Owned
  <1>2. run[w].pc \in Holding => run[v].pc \notin Holding
    BY DEF Real, LockHeld, OwnsLock
  <1> QED BY <1>1, <1>2

\* Where fewer things are on record, nothing that was true becomes false.
LEMMA TruthfulKept ==
  ASSUME \A u \in User : Recorded(u)' => Recorded(u) /\ user'[u].desired = user[u].desired,
         Confirmed' => Confirmed /\ Desired' = Desired
  PROVE  Truthful \subseteq Truthful'
  BY DEF Truthful

\* A step that touches neither the runs nor the relay.
LEMMA CalmOutside ==
  ASSUME OInv, Calm, UNCHANGED <<run, host, remote>>,
         \A u \in User : Recorded(u)' => Recorded(u) /\ user'[u].desired = user[u].desired,
         Confirmed' => Confirmed /\ Desired' = Desired,
         Dated',
         \A p \in OpId :
            /\ doc'[p].status \in {"none", "queued"} => doc[p].status \in {"none", "queued"}
            /\ doc'[p].status = "running" => doc[p].status = "running"
            /\ doc[p].status # "none" /\ doc'[p].rev = relay'.secret
                  => doc[p].rev = relay.secret /\ Desired' = Desired
  PROVE  Calm'
  <1>1. Truthful \subseteq Truthful'
    BY TruthfulKept
  <1>2. host'.users \in Truthful' /\ Manned' /\ Fresh'
    BY <1>1 DEF Calm, Manned, Fresh, Active
  <1>3. ASSUME NEW w \in Worker PROVE RunTruthful(w)'
    <2>1. RunTruthful(w) /\ run'[w] = run[w] /\ host' = host
      BY DEF Calm
    <2>2. Active(w) => run[w].op \in OpId /\ doc[run[w].op].status # "none"
      BY ActiveFacts
    <2>3. run[w].pc \in {"step", "settle", "succeed"} /\ doc'[run[w].op].rev = relay'.secret
             => run[w].snap = Desired'
      BY <2>1, <2>2 DEF RunTruthful, Active
    <2> QED BY <1>1, <2>1, <2>3 DEF RunTruthful
  <1> QED BY <1>2, <1>3 DEF Calm

LEMMA ChangeCalm ==
  ASSUME OInv, Calm, \/ \E u \in User, o \in OpId : ChangeUser(u, o)
                     \/ ConfigureRelay
  PROVE  Calm'
  <1>1. /\ relay.secret \in Nat /\ relay'.secret = relay.secret + 1
        /\ UNCHANGED <<run, host, remote>>
    BY DEF ChangeUser, ConfigureRelay, OInv, Types, Revision
  <1>2. \A p \in OpId : \/ doc'[p] = doc[p]
                     \/ /\ doc[p].status = "none" /\ doc'[p].status = "queued"
                        /\ doc'[p].rev = relay.secret + 1
    <2>1. ASSUME NEW u \in User, NEW o \in OpId, ChangeUser(u, o)
          PROVE  \A p \in OpId : \/ doc'[p] = doc[p]
                              \/ /\ doc[p].status = "none" /\ doc'[p].status = "queued"
                                 /\ doc'[p].rev = relay.secret + 1
      <3>1. /\ doc' = [doc EXCEPT ![o] = Queued(doc[o], "sync_users", relay.secret + 1)]
            /\ doc[o].status = "none" /\ relay.secret + 1 \in Revision
        BY <2>1, BoundAssumption DEF ChangeUser, NextOp, OInv, Types, Revision
      <3>2. /\ Queued(doc[o], "sync_users", relay.secret + 1).status = "queued"
            /\ Queued(doc[o], "sync_users", relay.secret + 1).rev = relay.secret + 1
        BY <3>1, QueuedDocument DEF OInv
      <3> QED BY <3>1, <3>2 DEF OInv, Types
    <2> QED BY <2>1 DEF ConfigureRelay
  <1>3. \A u \in User :
           \/ user'[u] = user[u]
           \/ user'[u].desired = 0 /\ user'[u].applied = 0
           \/ user'[u].desired = relay.secret + 1 /\ user'[u].applied = user[u].applied
    BY DEF ChangeUser, ConfigureRelay, OInv, Types
  <1>4. /\ \A u \in User : user[u].applied <= relay.secret /\ user[u].desired <= relay.secret
                           /\ user[u].applied \in Nat /\ user[u].desired \in Nat
        /\ \A p \in OpId : doc[p].rev <= relay.secret /\ doc[p].rev \in Nat
    BY DEF Calm, Dated, OInv, Types, Revision, Document
  <1>5. \A u \in User : Recorded(u)' => Recorded(u) /\ user'[u].desired = user[u].desired
    BY <1>1, <1>3, <1>4 DEF Recorded
  <1>6. ~Confirmed'
    BY <1>1, <1>2, <1>4 DEF Confirmed
  <1>7. Dated'
    BY <1>1, <1>2, <1>3, <1>4 DEF Dated
  <1>8. \A p \in OpId : doc[p].status # "none" => doc'[p].rev # relay'.secret
    BY <1>1, <1>2, <1>4
  <1> QED BY <1>1, <1>2, <1>5, <1>6, <1>7, <1>8, CalmOutside

LEMMA InstallCalm ==
  ASSUME OInv, Calm, NEW o \in OpId, NEW rev \in Revision, Install(o, rev)
  PROVE  Calm'
  <1> DEFINE same == {p \in OpId : doc[p].kind = "install" /\ doc[p].status \notin Gone}
  <1>1. /\ UNCHANGED <<relay, user, run, host, remote>>
        /\ rev \in 1 .. relay.secret
        /\ \A p \in same : doc[p].status \notin {"queued", "running"}
        /\ doc[o].status = "none" /\ o \notin same
        /\ \A p \in OpId : doc'[p] = IF p \in same THEN [doc[p] EXCEPT !.status = "deleted"]
                                     ELSE IF p = o THEN Queued(doc[p], "install", rev) ELSE doc[p]
    BY DEF Install, NextOp, Gone
  <1>2. \A p \in OpId :
           \/ doc'[p] = doc[p]
           \/ doc'[p].status = "deleted" /\ doc'[p].rev = doc[p].rev
           \/ doc[p].status = "none" /\ doc'[p].status = "queued" /\ doc'[p].rev = rev
    <2> SUFFICES ASSUME NEW p \in OpId
                 PROVE  \/ doc'[p] = doc[p]
                        \/ doc'[p].status = "deleted" /\ doc'[p].rev = doc[p].rev
                        \/ doc[p].status = "none" /\ doc'[p].status = "queued" /\ doc'[p].rev = rev
      OBVIOUS
    <2>1. doc[p] \in Document
      BY DEF OInv, Types
    <2>2. CASE p \in same
      BY <1>1, <2>1, <2>2 DEF Document
    <2>3. CASE p = o
      <3>1. doc'[p] = Queued(doc[o], "install", rev) /\ doc[p].status = "none"
        BY <1>1, <2>3 DEF Queued
      <3>2. Queued(doc[o], "install", rev).status = "queued" /\ Queued(doc[o], "install", rev).rev = rev
        BY QueuedDocument DEF OInv
      <3> QED BY <3>1, <3>2
    <2> QED BY <1>1, <2>2, <2>3
  <1> HIDE DEF same
  <1>3. rev <= relay.secret
    BY <1>1
  <1>4. Desired' = Desired /\ \A u \in User : user'[u] = user[u]
    BY <1>1 DEF Desired
  <1>5. Confirmed' => Confirmed
    BY <1>1, <1>2 DEF Confirmed
  <1>6. Dated'
    BY <1>1, <1>2, <1>3 DEF Dated, Calm
  <1> QED BY <1>1, <1>2, <1>4, <1>5, <1>6, CalmOutside DEF Recorded

LEMMA ExpireCalm ==
  ASSUME OInv, Calm, (\E o \in OpId : ExpireOp(o)) \/ ExpireLock \/ UNCHANGED vars
  PROVE  Calm'
  <1>1. /\ UNCHANGED <<relay, user, run, host, remote>>
        /\ \A p \in OpId : doc'[p].status = doc[p].status /\ doc'[p].rev = doc[p].rev
    BY DEF ExpireOp, ExpireLock, vars, OInv, Types, Document
  <1>2. Desired' = Desired /\ (Confirmed' => Confirmed) /\ Dated'
    BY <1>1 DEF Desired, Confirmed, Dated, Calm
  <1> QED BY <1>1, <1>2, CalmOutside DEF Recorded

-----------------------------------------------------------------------------
\* A run goes on, or leaves what it has ended, and the records stay as they are.
LEMMA CalmGo ==
  ASSUME OInv, Real, Calm, NEW w \in Worker, NEW r \in RunRecord, Go(w, r),
         UNCHANGED <<user, doc, host>>, relay'.secret = relay.secret,
         \A c \in remote' : c.by # Nobody,
         Active(w) => r.op = run[w].op /\ r.pc \notin {"idle", "release"},
         r.pc \in {"lock", "read", "users"} => run[w].pc \in {"lock", "read", "users"},
         r.pc = "step" => r.snap \in Truthful,
         r.pc \in {"step", "settle", "revoke", "undo"} =>
            run[w].pc \in {"step", "settle", "revoke", "undo"} \/ ~host.save[r.op].kept,
         r.pc \in {"step", "settle", "succeed"} /\ doc[r.op].rev = relay.secret => r.snap = Desired,
         ~Active(w) => r.pc = "idle"
  PROVE  Calm'
  <1>1. run'[w] = r /\ \A v \in Worker \ {w} : run'[v] = run[v]
    BY GoTypes DEF OInv
  <1>2. Desired' = Desired /\ Truthful' = Truthful
    BY DEF Desired, Truthful, Recorded, Confirmed
  <1>3. host'.users \in Truthful' /\ Dated' /\ Fresh'
    BY <1>2 DEF Calm, Dated, Fresh
  <1>4. Manned'
    <2> SUFFICES ASSUME NEW o \in OpId, doc[o].status = "running"
                 PROVE  \E v \in Worker : Active(v)' /\ run'[v].op = o
      BY DEF Manned
    <2>1. PICK v \in Worker : Active(v) /\ run[v].op = o
      BY DEF Calm, Manned
    <2>2. Active(v)' /\ run'[v].op = o
      BY <1>1, <2>1 DEF Active
    <2> QED BY <2>2
  <1>5. ASSUME NEW v \in Worker PROVE RunTruthful(v)'
    <2>1. CASE v # w
      BY <1>1, <1>2, <2>1 DEF RunTruthful, Calm
    <2>2. CASE v = w
      <3>1. r.pc # "idle" => r.op = run[w].op
        OBVIOUS
      <3>2. RunTruthful(w)
        BY DEF Calm
      <3>3. /\ r.pc \in {"lock", "read", "users"} => ~host.save[r.op].kept
            /\ r.pc \in {"step", "settle", "revoke", "undo"} /\ host.save[r.op].kept
                  => host.save[r.op].users \in Truthful
        BY <3>1, <3>2 DEF RunTruthful
      <3> QED BY <1>1, <1>2, <2>2, <3>3 DEF RunTruthful
    <2> QED BY <2>1, <2>2
  <1> QED BY <1>3, <1>4, <1>5 DEF Calm

\* Nothing fails in this step.
Smooth == OnTime /\ faults = 0 /\ faults' = 0

LEMMA NoFault == ASSUME Smooth, NEW kind, Fault(kind) PROVE FALSE
  BY DEF Smooth, Fault

LEMMA WorkCalm ==
  ASSUME OInv, Real, Calm, Smooth, NEW w \in Worker,
         \/ TakeLock(w) \/ Read(w) \/ ReadUsers(w) \/ Send(w) \/ StepDone(w) \/ StepFailed(w)
         \/ Reconcile(w) \/ SettleRejected(w) \/ Release(w)
  PROVE  Calm'
  <1> DEFINE s == run[w]
  <1>0. s \in RunRecord /\ Desired \in Users /\ Desired \in Truthful /\ RunTruthful(w)
    BY DesiredIsUsers, DesiredTruthful DEF OInv, Types, Calm
  <1>1. UNCHANGED <<user, doc, host>> /\ relay'.secret = relay.secret
    BY DEF TakeLock, Read, ReadUsers, Send, StepDone, StepFailed, Reconcile, SettleRejected,
           Release, store, OInv, Types
  <1>2. \A c \in remote' : c.by # Nobody
    BY NullAssumption DEF TakeLock, Read, ReadUsers, Send, StepDone, StepFailed, Reconcile,
       SettleRejected, Release, Calm, Manned, Nobody
  <1>3. ASSUME NEW r \in RunRecord, Go(w, r), Active(w),
               r.op = s.op, r.pc \notin {"idle", "release"},
               r.pc \in {"lock", "read", "users"} => s.pc \in {"lock", "read", "users"},
               r.pc = "step" => r.snap \in Truthful,
               r.pc \in {"step", "settle", "revoke", "undo"} =>
                  s.pc \in {"step", "settle", "revoke", "undo"} \/ ~host.save[s.op].kept,
               r.pc \in {"step", "settle", "succeed"} /\ doc[s.op].rev = relay.secret => r.snap = Desired
        PROVE  Calm'
    BY <1>1, <1>2, <1>3, CalmGo
  \* The position changes and nothing else the records know of.
  <1>4. ASSUME NEW pc \in {"read", "users", "fail", "settle", "revoke", "succeed", "step", "undo"},
               NEW call \in {"none", "sent", "ok", "error"}, NEW step \in Nat,
               Go(w, [s EXCEPT !.pc = pc, !.call = call, !.step = step]), Active(w),
               \/ pc = "fail"
               \/ s.pc = "lock" /\ pc = "read"
               \/ s.pc = "read" /\ pc = "users"
               \/ s.pc \in {"step", "settle"} /\ pc \in {"settle", "revoke"}
               \/ s.pc = "settle" /\ pc = "succeed"
               \/ s.pc \in {"step", "undo"} /\ pc = s.pc
        PROVE  Calm'
    <2> DEFINE r == [s EXCEPT !.pc = pc, !.call = call, !.step = step]
    <2>1. r \in RunRecord /\ r.pc = pc /\ r.op = s.op /\ r.snap = s.snap
      BY <1>0 DEF RunRecord
    <2> HIDE DEF r
    <2>2. /\ r.pc = "step" => r.snap \in Truthful
          /\ r.pc \in {"step", "settle", "succeed"} /\ doc[s.op].rev = relay.secret => r.snap = Desired
      BY <1>0, <1>4, <2>1 DEF RunTruthful
    <2> QED BY <1>3, <1>4, <2>1, <2>2 DEF r
  <1>5. \A pc : [s EXCEPT !.pc = pc] = [s EXCEPT !.pc = pc, !.call = s.call, !.step = s.step]
    BY <1>0 DEF RunRecord
  <1>6. \A call : [s EXCEPT !.call = call] = [s EXCEPT !.pc = s.pc, !.call = call, !.step = s.step]
    BY <1>0 DEF RunRecord
  <1>7. s.call \in {"none", "sent", "ok", "error"} /\ s.step \in Nat /\ s.step + 1 \in Nat
    BY <1>0 DEF RunRecord
  <1>8. ASSUME NEW pc \in {"read", "users", "fail", "succeed", "revoke"},
                Go(w, [s EXCEPT !.pc = pc]), Active(w),
                \/ pc = "fail"
                \/ s.pc = "lock" /\ pc = "read"
                \/ s.pc = "read" /\ pc = "users"
                \/ s.pc = "settle" /\ pc \in {"succeed", "revoke"}
         PROVE  Calm'
    <2>1. Go(w, [s EXCEPT !.pc = pc, !.call = s.call, !.step = s.step])
      BY <1>5, <1>8
    <2> QED BY <1>4, <1>7, <1>8, <2>1
  <1>9. CASE TakeLock(w)
    <2>1. PICK pc \in {"read", "fail"} : Go(w, [s EXCEPT !.pc = pc])
      BY <1>9 DEF TakeLock
    <2>2. s.pc = "lock" /\ Active(w)
      BY <1>9 DEF TakeLock, Active
    <2> QED BY <1>8, <2>1, <2>2
  <1>10. ASSUME s.pc \in {"read", "users"}, Go(w, [s EXCEPT !.pc = "step", !.snap = Desired])
        PROVE  Calm'
    <2> DEFINE r == [s EXCEPT !.pc = "step", !.snap = Desired]
    <2>1. r \in RunRecord /\ r.pc = "step" /\ r.op = s.op /\ r.snap = Desired
      BY <1>0 DEF RunRecord
    <2> HIDE DEF r
    <2>2. ~host.save[s.op].kept /\ Active(w)
      BY <1>0, <1>10 DEF RunTruthful, Active
    <2> QED BY <1>0, <1>3, <1>10, <2>1, <2>2 DEF r
  <1>11. CASE Read(w)
    <2>1. \/ Go(w, [s EXCEPT !.pc = "users"])
          \/ Go(w, [s EXCEPT !.pc = "step", !.snap = Desired])
          \/ Go(w, [s EXCEPT !.pc = "fail"])
      BY <1>11 DEF Read
    <2>2. s.pc = "read" /\ Active(w)
      BY <1>11 DEF Read, Active
    <2> QED BY <1>10, <1>8, <2>1, <2>2
  <1>12. CASE ReadUsers(w)
    <2>1. s.pc = "users" /\ Go(w, [s EXCEPT !.pc = "step", !.snap = Desired])
      BY <1>12, NoFault DEF ReadUsers
    <2> QED BY <1>10, <2>1
  <1>13. CASE Send(w)
    <2>1. PICK call \in {"sent", "error"} : Go(w, [s EXCEPT !.call = call])
      BY <1>13 DEF Send
    <2>2. s.pc \in {"step", "undo"} /\ Active(w)
      BY <1>13 DEF Send, Active
    <2>3. Go(w, [s EXCEPT !.pc = s.pc, !.call = call, !.step = s.step])
      BY <1>6, <2>1
    <2> QED BY <1>4, <1>7, <2>2, <2>3
  <1>14. CASE StepDone(w)
    <2>1. PICK pc \in {"settle", "step"} : Go(w, [s EXCEPT !.call = "none", !.step = s.step + 1, !.pc = pc])
      BY <1>14 DEF StepDone
    <2>2. s.pc = "step" /\ Active(w)
      BY <1>14 DEF StepDone, Active
    <2>3. [s EXCEPT !.call = "none", !.step = s.step + 1, !.pc = pc]
             = [s EXCEPT !.pc = pc, !.call = "none", !.step = s.step + 1]
      BY <1>0 DEF RunRecord
    <2> QED BY <1>4, <1>7, <2>1, <2>2, <2>3
  <1>15. CASE StepFailed(w)
    <2>1. /\ Go(w, [s EXCEPT !.pc = "revoke", !.call = "none"]) /\ s.pc = "step" /\ Active(w)
          /\ [s EXCEPT !.pc = "revoke", !.call = "none"]
                = [s EXCEPT !.pc = "revoke", !.call = "none", !.step = s.step]
      BY <1>0, <1>15 DEF StepFailed, Active, RunRecord
    <2> QED BY <1>4, <1>7, <2>1
  <1>16. CASE Reconcile(w) \/ SettleRejected(w)
    <2>1. PICK pc \in {"succeed", "revoke"} : Go(w, [s EXCEPT !.pc = pc])
      BY <1>16 DEF Reconcile, SettleRejected, Settled
    <2>2. s.pc = "settle" /\ Active(w)
      BY <1>16 DEF Reconcile, SettleRejected, Active
    <2> QED BY <1>8, <2>1, <2>2
  <1>17. CASE Release(w)
    <2>1. Idle \in RunRecord /\ Idle.pc = "idle"
      BY BoundAssumption DEF Idle, RunRecord, Users, Revision
    <2>2. Go(w, Idle) /\ ~Active(w)
      BY <1>17 DEF Release, Active
    <2> QED BY <1>1, <1>2, <2>1, <2>2, CalmGo
  <1> QED BY <1>9, <1>11, <1>12, <1>13, <1>14, <1>15, <1>16, <1>17

\* The users are on record as the run sent them, and nobody else is at work.
LEMMA FinalizeCalm ==
  ASSUME OInv, Real, Calm, Smooth, NEW w \in Worker, Finalize(w)
  PROVE  Calm'
  <1> DEFINE s == run[w]
             r == [s EXCEPT !.pc = "succeed"]
  <1>1. /\ UNCHANGED <<relay, doc, lock, remote, host>> /\ s.pc = "settle" /\ s.snap = Desired
        /\ user' = [u \in User |-> [user[u] EXCEPT !.applied = user[u].desired]]
        /\ Go(w, r) /\ s \in RunRecord
    BY NoFault DEF Finalize, Final, Settled, OInv, Types
  <1>2. r \in RunRecord /\ r.pc = "succeed" /\ r.op = s.op /\ r.snap = s.snap
    BY <1>1 DEF RunRecord
  <1> HIDE DEF r
  <1>3. run'[w] = r /\ \A v \in Worker \ {w} : run'[v] = run[v]
    BY <1>1, <1>2, GoTypes DEF OInv
  <1>4. /\ \A u \in User : user'[u].desired = user[u].desired /\ user'[u].applied = user[u].desired
        /\ Desired' = Desired /\ (Confirmed' <=> Confirmed)
    BY <1>1 DEF Desired, Confirmed, OInv, Types
  <1>5. host.users = Desired
    <2>1. Knows(host, doc[s.op], s)
      BY <1>1 DEF Real, Active
    <2> QED BY <1>1, <2>1 DEF Knows
  <1>6. Desired \in Truthful'
    BY <1>4, DesiredIsUsers DEF Truthful, Desired, OInv
  <1>7. Dated' /\ Fresh'
    BY <1>1, <1>4 DEF Dated, Fresh, Calm
  <1>8. Manned'
    BY <1>1, <1>2, <1>3 DEF Manned, Active, Calm
  <1>9. ASSUME NEW v \in Worker PROVE RunTruthful(v)'
    <2>1. CASE v = w
      BY <1>1, <1>2, <1>3, <1>4, <2>1 DEF RunTruthful
    <2>2. CASE v # w
      <3>1. run[v].pc \notin Holding /\ run'[v] = run[v] /\ host' = host /\ RunTruthful(v)
        BY <1>1, <1>3, <2>2, Apart DEF Holding, Calm
      <3> QED BY <3>1 DEF RunTruthful, Holding
    <2> QED BY <2>1, <2>2
  <1> QED BY <1>1, <1>5, <1>6, <1>7, <1>8, <1>9 DEF Calm

\* Success is recorded over the users of the run, which are those of the records
\* if the credential revision is still the operation's.
LEMMA EndsCalm ==
  ASSUME OInv, Real, Calm, Smooth, NEW w \in Worker, Succeed(w) \/ Fail(w) \/ Revoke(w) \/ Undone(w)
  PROVE  Calm'
  <1> DEFINE s == run[w]
             o == s.op
  <1>0. /\ UNCHANGED <<relay, user, lock, remote, host>> /\ s \in RunRecord
        /\ doc \in [OpId -> Document] /\ Active(w) /\ o \in OpId
    BY EndsRun, ActiveFacts DEF Ends, OInv, Types
  <1>1. PICK status \in Terminal \cup {"rolling_back"}, r \in RunRecord :
           /\ SetStatus(o, status) /\ Go(w, r)
           /\ r.pc = "release" \/ (r.pc = "undo" /\ r.op = o /\ s.pc = "revoke")
           /\ status = "succeeded" => s.pc = "succeed"
    <2>1. [s EXCEPT !.pc = "release"] \in RunRecord /\ [s EXCEPT !.pc = "release"].pc = "release"
      BY <1>0 DEF RunRecord
    <2>2. /\ [s EXCEPT !.pc = "release", !.call = "none"] \in RunRecord
          /\ [s EXCEPT !.pc = "release", !.call = "none"].pc = "release"
      BY <1>0 DEF RunRecord
    <2>3. /\ [s EXCEPT !.pc = "undo"] \in RunRecord /\ [s EXCEPT !.pc = "undo"].pc = "undo"
          /\ [s EXCEPT !.pc = "undo"].op = o
      BY <1>0 DEF RunRecord
    <2>4. CASE Succeed(w)
      BY <2>1, <2>4 DEF Succeed, Terminal
    <2>5. CASE Fail(w)
      <3>1. /\ SetStatus(o, "failed") /\ Go(w, [s EXCEPT !.pc = "release"])
            /\ "failed" \in Terminal \cup {"rolling_back"} /\ "failed" # "succeeded"
        BY <2>5 DEF Fail, Terminal
      <3> QED BY <2>1, <3>1
    <2>6. CASE Revoke(w)
      <3>1. /\ SetStatus(o, "rolling_back") /\ Go(w, [s EXCEPT !.pc = "undo"]) /\ s.pc = "revoke"
            /\ "rolling_back" \in Terminal \cup {"rolling_back"} /\ "rolling_back" # "succeeded"
        BY <2>6 DEF Revoke
      <3> QED BY <2>3, <3>1
    <2>7. CASE Undone(w)
      <3>1. PICK status \in {"rolled_back", "failed"} : SetStatus(o, status)
        BY <2>7 DEF Undone
      <3> QED BY <2>2, <2>7, <3>1 DEF Undone, Terminal
    <2> QED BY <2>4, <2>5, <2>6, <2>7
  <1>2. run'[w] = r /\ \A v \in Worker \ {w} : run'[v] = run[v]
    BY <1>1, GoTypes DEF OInv
  <1>3. /\ \A p \in OpId \ {o} : doc'[p] = doc[p]
        /\ \A p \in OpId : doc'[p].rev = doc[p].rev
        /\ doc'[o].status = "deleted" \/ doc'[o].status = status
    BY <1>0, <1>1 DEF SetStatus, Document
  <1>4. /\ Desired' = Desired /\ (\A u \in User : Recorded(u)' <=> Recorded(u))
        /\ user' = user /\ relay' = relay /\ host' = host
    BY <1>0 DEF Desired, Recorded
  <1>5. Truthful \subseteq Truthful'
        \/ (s.pc = "succeed" /\ host.users = Desired /\ Desired \in Truthful')
    <2>1. CASE Confirmed' => Confirmed
      BY <1>4, <2>1, TruthfulKept
    <2>2. CASE Confirmed' /\ ~Confirmed
      <3>1. doc'[o].status = "succeeded" /\ doc[o].rev = relay.secret
        BY <1>3, <1>4, <2>2 DEF Confirmed
      <3>2. s.pc = "succeed"
        BY <1>1, <1>3, <3>1
      <3>3. s.snap = Desired
        BY <3>1, <3>2 DEF Calm, RunTruthful
      <3>4. host.users = s.snap
        <4>1. Knows(host, doc[o], s)
          BY <1>0 DEF Real
        <4> QED BY <3>2, <4>1 DEF Knows
      <3>5. Desired \in Truthful'
        BY <1>4, DesiredIsUsers DEF Truthful, Desired, OInv
      <3> QED BY <3>2, <3>3, <3>4, <3>5
    <2> QED BY <2>1, <2>2
  <1>6. host'.users \in Truthful' /\ Dated'
    BY <1>3, <1>4, <1>5 DEF Calm, Dated
  <1>7. Fresh'
    BY <1>1, <1>3, <1>4 DEF Calm, Fresh, Terminal
  <1>8. Manned'
    <2>1. \A c \in remote' : c.by # Nobody
      BY <1>0 DEF Calm, Manned
    <2>2. ASSUME NEW p \in OpId, doc'[p].status = "running"
          PROVE  \E v \in Worker : Active(v)' /\ run'[v].op = p
      <3>1. p # o /\ doc[p].status = "running"
        BY <1>1, <1>3, <2>2 DEF Terminal
      <3>2. PICK v \in Worker : Active(v) /\ run[v].op = p
        BY <3>1 DEF Calm, Manned
      <3>3. Active(v)' /\ run'[v].op = p
        BY <1>2, <3>1, <3>2 DEF Active
      <3> QED BY <3>3
    <2> QED BY <2>1, <2>2 DEF Manned
  <1>9. ASSUME NEW v \in Worker PROVE RunTruthful(v)'
    <2>1. RunTruthful(v)
      BY DEF Calm
    <2>2. CASE v = w
      <3>1. CASE r.pc = "release"
        BY <1>2, <2>2, <3>1 DEF RunTruthful
      <3>2. CASE r.pc = "undo" /\ r.op = o /\ s.pc = "revoke"
        BY <1>2, <1>4, <1>5, <2>1, <2>2, <3>2 DEF RunTruthful
      <3> QED BY <1>1, <3>1, <3>2
    <2>3. CASE v # w /\ run[v].pc \in Holding
      <3>1. s.pc # "succeed"
        BY <2>3, Apart DEF Holding
      <3>2. doc'[run[v].op].rev = doc[run[v].op].rev
        BY <1>3, <2>3, ActiveFacts DEF Active, Holding
      <3> QED BY <1>2, <1>4, <1>5, <2>1, <2>3, <3>1, <3>2 DEF RunTruthful
    <2>4. CASE v # w /\ run[v].pc \notin Holding
      <3>1. run'[v] = run[v] /\ run[v].pc \notin {"read", "users", "step", "settle", "succeed", "revoke", "undo"}
        BY <1>2, <2>4 DEF Holding
      <3> QED BY <1>4, <2>1, <3>1 DEF RunTruthful
    <2> QED BY <2>2, <2>3, <2>4
  <1> QED BY <1>6, <1>7, <1>8, <1>9 DEF Calm

\* Whoever takes up an operation is the first to do so.
LEMMA ClaimCalm ==
  ASSUME OInv, Real, Calm, NEW w \in Worker, Claim(w)
  PROVE  Calm'
  <1>1. PICK o \in OpId, pc \in {"lock", "fail"} :
          /\ Claimable(o)
          /\ doc' = [doc EXCEPT ![o].status = "running", ![o].owner = w, ![o].live = TRUE]
          /\ Go(w, [Idle EXCEPT !.pc = pc, !.op = o])
    BY DEF Claim
  <1>2. /\ UNCHANGED <<relay, user, remote, host>> /\ run[w].pc = "idle"
        /\ doc \in [OpId -> Document]
    BY DEF Claim, OInv, Types
  <1> DEFINE r == [Idle EXCEPT !.pc = pc, !.op = o]
  <1>3. r \in RunRecord /\ r.pc = pc /\ r.op = o
    <2>1. Idle \in RunRecord
      BY BoundAssumption DEF Idle, RunRecord, Users, Revision
    <2>2. o \in 0 .. MaxOps
      BY BoundAssumption DEF OpId
    <2> QED BY <2>1, <2>2 DEF RunRecord
  <1> HIDE DEF r
  <1>4. run'[w] = r /\ \A v \in Worker \ {w} : run'[v] = run[v]
    BY <1>1, <1>3, GoTypes DEF OInv, r
  <1>5. doc[o].status = "queued"
    <2> SUFFICES ASSUME doc[o].status = "running", ~doc[o].live PROVE FALSE
      BY <1>1 DEF Claimable
    <2>1. PICK v \in Worker : Active(v) /\ run[v].op = o
      BY DEF Calm, Manned
    <2> QED BY <2>1 DEF OInv, Owned
  <1>6. /\ \A p \in OpId \ {o} : doc'[p] = doc[p]
        /\ doc'[o].status = "running" /\ doc'[o].rev = doc[o].rev
    <2>1. doc[o] \in Document
      BY <1>2
    <2> QED BY <1>1, <1>2, <2>1 DEF Document
  <1>7. /\ Desired' = Desired /\ (Confirmed' => Confirmed) /\ user' = user /\ relay' = relay
        /\ host' = host
    BY <1>2, <1>6 DEF Desired, Confirmed
  <1>8. Truthful \subseteq Truthful'
    BY <1>7, TruthfulKept DEF Recorded
  <1>9. host'.users \in Truthful' /\ Dated' /\ Fresh'
    BY <1>6, <1>7, <1>8 DEF Calm, Dated, Fresh
  <1>10. Manned'
    <2>1. Active(w)' /\ run'[w].op = o
      BY <1>3, <1>4 DEF Active
    <2>2. ASSUME NEW p \in OpId \ {o}, doc[p].status = "running"
          PROVE  \E v \in Worker : Active(v)' /\ run'[v].op = p
      <3>1. PICK v \in Worker : Active(v) /\ run[v].op = p
        BY <2>2 DEF Calm, Manned
      <3>2. Active(v)' /\ run'[v].op = p
        BY <1>2, <1>4, <3>1 DEF Active
      <3> QED BY <3>2
    <2> QED BY <1>2, <1>6, <2>1, <2>2 DEF Manned, Calm
  <1>11. ASSUME NEW v \in Worker PROVE RunTruthful(v)'
    <2>1. CASE v = w
      <3>1. ~host.save[o].kept
        BY <1>5 DEF Calm, Fresh
      <3> QED BY <1>3, <1>4, <1>7, <2>1, <3>1 DEF RunTruthful
    <2>2. CASE v # w /\ Active(v)
      <3>1. doc'[run[v].op].rev = doc[run[v].op].rev /\ run'[v] = run[v] /\ RunTruthful(v)
        BY <1>4, <1>6, <2>2, ActiveFacts DEF Calm
      <3> QED BY <1>7, <1>8, <3>1 DEF RunTruthful
    <2>3. CASE v # w /\ ~Active(v)
      <3>1. run'[v].pc \in {"idle", "release"}
        BY <1>4, <2>3 DEF Active
      <3> QED BY <3>1 DEF RunTruthful
    <2> QED BY <2>1, <2>2, <2>3
  <1> QED BY <1>9, <1>10, <1>11 DEF Calm

\* What a script may do to the users the relay serves and to its backups.
LEMMA SaveEffect ==
  ASSUME OInv, Whole, Fresh, NEW c \in remote, NEW how \in {"ok", "error"}, NEW h \in Outcome(c, how)
  PROVE  /\ \/ h.users = host.users
            \/ c.cmd = "sync_users" /\ h.users = c.users
            \/ c.cmd = "rollback" /\ host.save[c.op].kept /\ h.users = host.save[c.op].users
         /\ h.save = [o \in OpId |-> h.save[o]]
         /\ \A o \in OpId \ {c.op} : h.save[o] = host.save[o]
         /\ \/ h.save[c.op] = host.save[c.op]
            \/ h.save[c.op].kept /\ h.save[c.op].users = host.users
  <1> DEFINE R(u, f, s, t) == [users |-> u, files |-> f, save |-> s, state |-> t]
             Fine(g) == /\ \/ g.users = host.users
                           \/ c.cmd = "sync_users" /\ g.users = c.users
                           \/ c.cmd = "rollback" /\ host.save[c.op].kept /\ g.users = host.save[c.op].users
                        /\ g.save = [o \in OpId |-> g.save[o]]
                        /\ \A o \in OpId \ {c.op} : g.save[o] = host.save[o]
                        /\ \/ g.save[c.op] = host.save[c.op]
                           \/ g.save[c.op].kept /\ g.save[c.op].users = host.users
  <1>1. host = R(host.users, host.files, host.save, host.state) /\ c.op \in OpId /\ c.cmd \in Scripts
    BY DEF Whole, OInv, Types, SoundCommand
  <1>2. host.save = [o \in OpId |-> host.save[o]]
    BY DEF Fresh
  <1>3. Fine(host)
    BY <1>2
  <1>4. ASSUME NEW u, NEW f, NEW t, u = host.users \/ (c.cmd = "sync_users" /\ u = c.users)
               \/ (c.cmd = "rollback" /\ host.save[c.op].kept /\ u = host.save[c.op].users)
        PROVE  Fine(R(u, f, host.save, t))
    BY <1>2, <1>4
  <1>5. CASE h \in ScriptOk(c)
    <2>1. CASE c.cmd \in {"verify", "commit", "verify_users"}
      <3>1. h = host
        BY <1>5, <2>1 DEF ScriptOk
      <3> QED BY <1>3, <3>1
    <2>2. CASE c.cmd = "backup"
      <3> DEFINE kept == [kept |-> TRUE, users |-> host.users, files |-> host.files]
                 saves == [host.save EXCEPT ![c.op] = kept]
      <3>1. h = host \/ h = R(host.users, host.files, saves, host.state)
        BY <1>1, <1>5, <2>2 DEF ScriptOk
      <3>2. /\ saves = [o \in OpId |-> saves[o]] /\ saves[c.op] = kept
            /\ \A o \in OpId \ {c.op} : saves[o] = host.save[o]
        BY <1>1, <1>2
      <3>3. kept.kept /\ kept.users = host.users
        OBVIOUS
      <3> HIDE DEF saves, kept
      <3>4. Fine(R(host.users, host.files, saves, host.state))
        BY <3>2, <3>3
      <3> QED BY <1>3, <3>1, <3>4
    <2>3. CASE c.cmd = "stage"
      <3>1. h = R(host.users, TRUE, host.save, host.state)
        BY <1>1, <1>5, <2>3 DEF ScriptOk
      <3> QED BY <1>4, <3>1
    <2>4. CASE c.cmd = "activate"
      <3>1. \E t : h = R(host.users, host.files, host.save, t)
        BY <1>1, <1>5, <2>4 DEF ScriptOk
      <3> QED BY <1>4, <3>1
    <2>5. CASE c.cmd = "sync_users"
      <3>1. h = R(c.users, host.files, host.save, host.state)
        BY <1>1, <1>5, <2>5 DEF ScriptOk
      <3> QED BY <1>4, <2>5, <3>1
    <2>6. CASE c.cmd = "rollback"
      <3>1. h = R(host.save[c.op].users, host.save[c.op].files, host.save, host.state)
            /\ host.save[c.op].kept
        BY <1>1, <1>5, <2>6 DEF ScriptOk, Restored
      <3> QED BY <1>4, <2>6, <3>1
    <2> QED BY <1>1, <2>1, <2>2, <2>3, <2>4, <2>5, <2>6 DEF Scripts
  <1>6. CASE h = host
    BY <1>3, <1>6
  <1>7. CASE h = Restored(c.op) /\ c.cmd = "rollback" /\ host.save[c.op].kept
    <2>1. h = R(host.save[c.op].users, host.save[c.op].files, host.save, host.state)
      BY <1>1, <1>7 DEF Restored
    <2> QED BY <1>4, <1>7, <2>1
  <1>8. h \in ScriptOk(c) \/ h = host \/ (h = Restored(c.op) /\ c.cmd = "rollback" /\ host.save[c.op].kept)
    BY DEF Outcome, ScriptFails
  <1> QED BY <1>5, <1>6, <1>7, <1>8

\* A script leaves the users the run has read, those there were, or those of its
\* backup; and a backup keeps what the relay serves.
LEMMA ExecuteCalm ==
  ASSUME OInv, Real, Whole, Calm, NEW c \in remote, Execute(c)
  PROVE  Calm'
  <1>1. Awaited(c)
    BY DEF Calm, Manned, Real, Alone, Orphaned
  <1> DEFINE w == c.by
  <1>2. /\ w \in Worker /\ run[w].pc \in {"step", "undo"} /\ run[w].op = c.op
        /\ c.users = run[w].snap /\ (c.cmd = "sync_users" => run[w].pc = "step")
        /\ Active(w) /\ c.op \in OpId /\ RunTruthful(w)
    <2>1. c.cmd = "sync_users" => run[w].pc # "undo"
      BY <1>1 DEF Awaited, CommandOf
    <2> QED BY <1>1, <2>1, ActiveFacts DEF Awaited, Active, Calm
  <1>3. PICK how \in {"ok", "error"} : host' \in Outcome(c, how)
    BY DEF Execute, Outcome
  <1>4. /\ \/ host'.users = host.users
           \/ c.cmd = "sync_users" /\ host'.users = c.users
           \/ c.cmd = "rollback" /\ host.save[c.op].kept /\ host'.users = host.save[c.op].users
        /\ host'.save = [o \in OpId |-> host'.save[o]]
        /\ \A o \in OpId \ {c.op} : host'.save[o] = host.save[o]
        /\ \/ host'.save[c.op] = host.save[c.op]
           \/ host'.save[c.op].kept /\ host'.save[c.op].users = host.users
    BY <1>3, SaveEffect DEF Calm
  <1>5. /\ UNCHANGED <<relay, user, doc, lock>> /\ remote' \subseteq remote
        /\ \A v \in Worker : /\ run'[v].pc = run[v].pc /\ run'[v].op = run[v].op
                             /\ run'[v].snap = run[v].snap
    BY ExecuteInv DEF Execute, store
  <1>6. Desired' = Desired /\ Truthful' = Truthful
    BY <1>5 DEF Desired, Truthful, Recorded, Confirmed
  <1>7. host'.users \in Truthful'
    BY <1>2, <1>4, <1>6 DEF Calm, RunTruthful
  <1>8. Dated' /\ Manned'
    BY <1>5 DEF Calm, Dated, Manned, Active
  <1>9. Fresh'
    <2>1. doc[c.op].status \notin {"none", "queued"}
      BY <1>2 DEF OInv, Owned
    <2> QED BY <1>4, <1>5, <2>1 DEF Calm, Fresh
  <1>10. ASSUME NEW v \in Worker PROVE RunTruthful(v)'
    <2>1. RunTruthful(v)
      BY DEF Calm
    <2>2. CASE v = w
      <3>1. host'.save[c.op].kept => host'.save[c.op].users \in Truthful
        BY <1>2, <1>4 DEF Calm, RunTruthful
      <3> QED BY <1>2, <1>5, <1>6, <2>1, <2>2, <3>1 DEF RunTruthful
    <2>3. CASE v # w /\ Active(v)
      <3>1. run[v].op # c.op /\ run[v].op \in OpId
        BY <1>2, <2>3, Apart, ActiveFacts
      <3>2. host'.save[run[v].op] = host.save[run[v].op]
        BY <1>4, <3>1
      <3> QED BY <1>5, <1>6, <2>1, <3>2 DEF RunTruthful
    <2>4. CASE ~Active(v)
      <3>1. run'[v].pc \in {"idle", "release"}
        BY <1>5, <2>4 DEF Active
      <3> QED BY <3>1 DEF RunTruthful
    <2> QED BY <2>2, <2>3, <2>4
  <1> QED BY <1>7, <1>8, <1>9, <1>10 DEF Calm

\* A run that holds the lock can renew it.
LEMMA NoAbort ==
  ASSUME OInv, Real, Smooth, NEW w \in Worker, Abort(w)
  PROVE  FALSE
  <1>1. run[w].pc \in {"read", "users", "step", "settle", "succeed"} /\ ~Renewed(w)
    BY NoFault DEF Abort
  <1>2. OwnsOp(w) /\ OwnsLock(w)
    BY <1>1 DEF OInv, Owned, Active, OwnsOp, Real, LockHeld, Holding
  <1> QED BY <1>1, <1>2 DEF Renewed

LEMMA NextCalm ==
  ASSUME OInv, Real, Whole, Calm, Smooth, [Next]_vars
  PROVE  Calm'
  <1>1. ASSUME NEW w \in Worker, Step(w) PROVE Calm'
    <2>1. ~LoseLock(w)
      BY NoFault DEF LoseLock
    <2> QED BY <1>1, <2>1, WorkCalm, FinalizeCalm, EndsCalm, NoAbort DEF Step
  <1>2. ASSUME NEW w \in Worker, TimeOut(w) \/ Crash(w) PROVE FALSE
    BY <1>2, NoFault DEF TimeOut, Crash
  <1> QED BY <1>1, <1>2, ChangeCalm, InstallCalm, ClaimCalm, ExecuteCalm, ExpireCalm DEF Next

LEMMA InitCalm == Init => Calm
  <1> SUFFICES ASSUME Init PROVE Calm
    OBVIOUS
  <1>1. relay.secret = 1 /\ remote = {} /\ \A w \in Worker : run[w].pc = "idle"
    BY DEF Init, Idle
  <1>2. \A u \in User : user[u].desired = 0 /\ user[u].applied = 0
    BY DEF Init
  <1>3. \A o \in OpId : doc[o].status = "none" /\ doc[o].rev = 0
    BY DEF Init
  <1>4. /\ host.users = [u \in User |-> 0]
        /\ host.save = [o \in OpId |-> NoSave]
    BY DEF Init
  <1>5. host.users \in Truthful
    <2>1. host.users \in Users
      BY <1>4, BoundAssumption DEF Users, Revision
    <2>2. \A u \in User : ~Recorded(u)
      BY <1>2 DEF Recorded
    <2>3. ~Confirmed
      BY <1>3 DEF Confirmed
    <2> QED BY <2>1, <2>2, <2>3 DEF Truthful
  <1>6. Dated /\ Manned /\ Fresh
    BY <1>1, <1>2, <1>3, <1>4 DEF Dated, Manned, Fresh, NoSave
  <1>7. \A w \in Worker : RunTruthful(w)
    BY <1>1 DEF RunTruthful
  <1> QED BY <1>5, <1>6, <1>7 DEF Calm

\* The invariant of a relay nothing has failed at so far.
CalmSoFar == faults \in Nat /\ (faults = 0 => Calm)

LEMMA CalmSoFarHolds == ASSUME OnTime PROVE Spec => []CalmSoFar
  <1> DEFINE Inv == OInv /\ Real /\ Whole /\ CalmSoFar
  <1>1. Init => Inv
    BY InitTypes, InitReal, InitCalm DEF OInv, CalmSoFar, Init
  <1>2. Inv /\ [Next]_vars => Inv'
    <2> SUFFICES ASSUME Inv, [Next]_vars PROVE Inv'
      OBVIOUS
    <2>1. "stall" \notin FaultKinds
      BY DEF OnTime
    <2>2. OInv' /\ Real' /\ Whole'
      BY <2>1, OwnedInv, NextReal, WholeKept
    <2>3. faults' = faults \/ faults' = faults + 1
      <3>1. ASSUME NEW w \in Worker, Step(w) PROVE faults' = faults \/ faults' = faults + 1
        BY <3>1 DEF Step, TakeLock, Read, ReadUsers, Send, StepDone, StepFailed, Reconcile,
           Finalize, SettleRejected, Succeed, Fail, Revoke, Undone, Abort, LoseLock, Release,
           Settled, Fault
      <3> QED BY <3>1 DEF Next, vars, ChangeUser, ConfigureRelay, Install, Claim, TimeOut, Crash,
             Execute, ExpireOp, ExpireLock, RunsOut, Fault
    <2>4. faults' = 0 => faults = 0
      BY <2>3 DEF CalmSoFar
    <2>5. faults' = 0 => Calm'
      BY <2>4, NextCalm DEF CalmSoFar, Smooth
    <2>6. faults' \in Nat
      BY <2>3 DEF CalmSoFar
    <2> QED BY <2>2, <2>5, <2>6 DEF CalmSoFar
  <1>3. Inv => CalmSoFar
    OBVIOUS
  <1> QED BY <1>1, <1>2, <1>3, PTL DEF Spec

(* However many processes, users, operations and changes: where scripts are   *)
(* the only thing that fails, a user on record as synced is on the relay as   *)
(* recorded (finalizeVerifiedSync of l2tpUserSyncReconciler.js and what it    *)
(* writes against what rollback.sh puts back).                                *)
THEOREM SyncedHolds == ASSUME OnTime PROVE Spec => []SyncedWithoutFaults
  <1>1. CalmSoFar => SyncedWithoutFaults
    BY DEF CalmSoFar, Calm, Truthful, Recorded, SyncedWithoutFaults, SyncedIsOnNode
  <1> QED BY <1>1, CalmSoFarHolds, PTL

(* ... and once an operation of the latest credential revision has succeeded, *)
(* the relay serves exactly the users of the panel.                           *)
THEOREM UpToDateHolds == ASSUME OnTime PROVE Spec => []UpToDateWithoutFaults
  <1>1. CalmSoFar => UpToDateWithoutFaults
    BY DEF CalmSoFar, Calm, Truthful, Confirmed, UpToDateWithoutFaults, UpToDate
  <1> QED BY <1>1, CalmSoFarHolds, PTL

(* Panel and relay agree on the users as long as only scripts fail, for any   *)
(* number of processes, users, installs, syncs, rollbacks and edits.          *)
THEOREM UsersAgreeHold == ASSUME OnTime PROVE Spec => []UsersAgreeWithoutFaults
  BY SyncedHolds, UpToDateHolds, PTL DEF UsersAgreeWithoutFaults

=============================================================================
