-------------------------- MODULE TopologyOperation --------------------------
(***************************************************************************)
(* Deploying a cascade topology to its nodes: the coordinator that pins a  *)
(* revision and queues an operation, the worker that prepares every node,  *)
(* commits and verifies them one by one and undoes what it did on failure, *)
(* the recovery scan that picks up what a dead process left behind, the    *)
(* durable documents they share, and the runner script on each node.       *)
(*                                                                         *)
(* Worker is the set of panel processes.  run[w][o] is one call of         *)
(* TopologyOperationWorker.run: a process may have several operations under*)
(* way, never the same one twice (its `running` set).  Between two awaits  *)
(* any other run, the database, a node or a fault may step.                *)
(*                                                                         *)
(* Leases are live or over; how long they are is the subject of NodeLock.  *)
(* A command sent to a node is carried out some time later, whether or not *)
(* anyone still waits for its answer.                                      *)
(***************************************************************************)
EXTENDS Integers, Sequences, SequencesExt

CONSTANTS
    Worker,         \* panel processes
    Op,             \* operation ids
    Node,           \* node ids, ordered as their strings are
    Plan,           \* the nodes of each operation in deployment order
    MaxRevision,    \* bound on draft edits
    MaxFaults,      \* bound on the faults below
    FaultKinds      \* the faults of a run: see Fault

ASSUME NodeAssumption  == Node \subseteq Nat
ASSUME PlanAssumption  ==
    /\ Plan \in [Op -> Seq(Node)]
    /\ \A o \in Op : Plan[o] # <<>> /\ IsInjective(Plan[o])
ASSUME BoundAssumption == MaxRevision \in Nat \ {0} /\ MaxFaults \in Nat
ASSUME FaultAssumption ==
    FaultKinds \subseteq {"crash", "stall", "database", "timeout", "late"}
ASSUME NullAssumption  == "none" \notin Worker \cup Op

VARIABLES
    revision,   \* CascadeTopologyState.revision
    deployed,   \* CascadeTopologyState.deployedRevision
    doc,        \* the TopologyOperation documents
    lock,       \* the NodeOperationLock documents
    queuedAs,   \* each coordinator's operationsByIdempotencyKey
    run,        \* each worker's calls of run()
    remote,     \* commands on their way to, or running on, a node
    host,       \* the nodes: configuration and the runner's state
    faults      \* faults so far

store == <<revision, deployed, doc, lock>>
vars  == <<revision, deployed, doc, lock, queuedAs, run, remote, host, faults>>

Revision   == 0 .. MaxRevision
Active     == {"preparing", "committing", "rolling_back"}
Terminal   == {"succeeded", "failed", "rolled_back"}
NodeState  == {"pending", "prepared", "committed", "rolled_back", "failed"}
Dirty      == {"prepared", "committed", "failed"}
Command    == {"prepare", "commit", "verify", "rollback"}
Phase      == {"idle", "lock", "revoke", "undo", "prepare", "discard", "seal",
               "commit", "verify", "finalize", "release"}

Nobody == "none"
NoLock == [worker |-> Nobody, op |-> Nobody, live |-> FALSE]
Idle   == [pc |-> "idle", next |-> "idle", retry |-> FALSE, todo |-> <<>>,
           bad |-> FALSE, held |-> {}, call |-> "none"]

Document == [status : {"none", "queued"} \cup Active \cup Terminal,
             rev : Revision, prior : Revision,
             owner : Worker \cup {Nobody}, live : BOOLEAN,
             node : [Node -> NodeState]]
Lock     == [worker : Worker \cup {Nobody}, op : Op \cup {Nobody},
             live : BOOLEAN]
Run      == [pc : Phase, next : Phase, retry : BOOLEAN, todo : Seq(Node),
             bad : BOOLEAN, held : SUBSET Node,
             call : {"none", "unsent", "sent", "ok", "error"}]
Sent     == [by : Worker \cup {Nobody}, op : Op, node : Node, cmd : Command]
Host     == [config : Revision, state : [Op -> {"absent", "partial", "bound"}],
             backup : [Op -> Revision]]

PlanNodes(o) == Range(Plan[o])

-----------------------------------------------------------------------------
(* The state at the start: one draft edit, nothing deployed, no operation. *)

Init ==
    /\ revision = 1
    /\ deployed = 0
    /\ doc      = [o \in Op |-> [status |-> "none", rev |-> 0, prior |-> 0,
                                 owner |-> Nobody, live |-> FALSE,
                                 node |-> [n \in Node |-> "pending"]]]
    /\ lock     = [n \in Node |-> NoLock]
    /\ queuedAs = [w \in Worker |-> [r \in Revision |-> Nobody]]
    /\ run      = [w \in Worker |-> [o \in Op |-> Idle]]
    /\ remote   = {}
    /\ host     = [n \in Node |-> [config |-> 0,
                                   state  |-> [o \in Op |-> "absent"],
                                   backup |-> [o \in Op |-> 0]]]
    /\ faults   = 0

(***************************************************************************)
(* Faults, each at most MaxFaults times in all and only of the kinds a     *)
(* configuration enables: a process dies (crash), a lease runs out under a *)
(* live process (stall), a database call fails (database), the panel gives *)
(* up on an SSH command that goes on (timeout).  "late" is not counted: it *)
(* lets a command outlive the lease of the operation it belongs to.        *)
(***************************************************************************)
Fault(kind) ==
    /\ kind \in FaultKinds
    /\ faults < MaxFaults
    /\ faults' = faults + 1

-----------------------------------------------------------------------------
(* Draft and coordinator.                                                  *)

\* A draft edit commits with the next revision.
EditDraft ==
    /\ revision < MaxRevision
    /\ revision' = revision + 1
    /\ UNCHANGED <<deployed, doc, lock, queuedAs, run, remote, host, faults>>

\* queue: a live or successful operation of the same revision answers the
\* request, as far as this process remembers; else pin the topology and
\* create a frozen document under a fresh id.
Queue(w, o) ==
    LET known == queuedAs[w][revision] IN
    /\ doc[o].status = "none"
    /\ known # Nobody => doc[known].status \in {"failed", "rolled_back"}
    /\ doc' = [doc EXCEPT ![o].status = "queued",
                          ![o].rev    = revision,
                          ![o].prior  = deployed]
    /\ queuedAs' = [queuedAs EXCEPT ![w][revision] = o]
    /\ UNCHANGED <<revision, deployed, lock, run, remote, host, faults>>

-----------------------------------------------------------------------------
(* What a run may rely on.                                                 *)

\* Mutant of OwnsOp: the owner is checked, whether its lease is over is not.
OwnsOpForever(w, o) ==
    /\ doc[o].status \in Active
    /\ doc[o].owner = w

\* The filter every fenced update of the operation document shares.
OwnsOp(w, o) ==
    /\ doc[o].status \in Active
    /\ doc[o].owner = w
    /\ doc[o].live

OwnsLocks(w, o) ==
    \A n \in run[w][o].held :
        lock[n] = [worker |-> w, op |-> o, live |-> TRUE]

\* A run of w for o goes on as r.
Go(w, o, r) == run' = [run EXCEPT ![w][o] = r]

-----------------------------------------------------------------------------
(* Claim and locks.                                                        *)

\* What the claimed document calls for once the locks are held.
AfterLocks(o) ==
    LET with(next, todo) == [Idle EXCEPT !.pc = "lock", !.next = next,
                                         !.todo = todo]
        dirty == \E n \in PlanNodes(o) : doc[o].node[n] \in Dirty
    IN CASE doc[o].status = "committing"   -> with("revoke", Reverse(Plan[o]))
         [] doc[o].status = "rolling_back" -> with("undo", Reverse(Plan[o]))
         [] OTHER -> IF dirty
                     THEN [with("undo", Reverse(Plan[o])) EXCEPT !.retry = TRUE]
                     ELSE with("prepare", Plan[o])

\* Mutant of Claim: only queued operations, nothing is taken over.
ClaimQueued(w, o) ==
    /\ run[w][o].pc = "idle"
    /\ doc[o].status = "queued"
    /\ doc' = [doc EXCEPT ![o].owner = w, ![o].live = TRUE,
                          ![o].status = "preparing"]
    /\ Go(w, o, AfterLocks(o))
    /\ UNCHANGED <<revision, deployed, lock, queuedAs, remote, host, faults>>

\* claim: a queued operation starts preparing, one whose lease is over is
\* taken over as it stands.  The coordinator and the recovery scan both end
\* here; the claimed document is read once and used after the locks.
Claim(w, o) ==
    /\ run[w][o].pc = "idle"
    /\ \/ doc[o].status = "queued"
       \/ doc[o].status \in Active /\ ~doc[o].live
    /\ doc' = [doc EXCEPT ![o].owner = w,
                          ![o].live = TRUE,
                          ![o].status = IF @ = "queued" THEN "preparing" ELSE @]
    /\ Go(w, o, AfterLocks(o))
    /\ UNCHANGED <<revision, deployed, lock, queuedAs, remote, host, faults>>

\* Mutant of TakeLock: a live lock of someone else is taken over.
TakeLockByForce(w, o) ==
    LET r == run[w][o] IN
    /\ r.pc = "lock"
    /\ \E n \in PlanNodes(o) \ r.held :
        /\ \A m \in PlanNodes(o) \ r.held : n <= m
        /\ lock' = [lock EXCEPT ![n] = [worker |-> w, op |-> o, live |-> TRUE]]
        /\ Go(w, o, [r EXCEPT !.held = @ \cup {n}])
    /\ UNCHANGED <<revision, deployed, doc, queuedAs, remote, host, faults>>

\* The locks are taken in the order of the node ids; the first conflict ends
\* the run and leaves the operation to its lease.
TakeLock(w, o) ==
    LET r == run[w][o] IN
    /\ r.pc = "lock"
    /\ \E n \in PlanNodes(o) \ r.held :
        /\ \A m \in PlanNodes(o) \ r.held : n <= m
        /\ \/ /\ \/ ~lock[n].live
                 \/ lock[n].worker = w /\ lock[n].op = o
              /\ lock' = [lock EXCEPT ![n] = [worker |-> w, op |-> o,
                                              live |-> TRUE]]
              /\ Go(w, o, [r EXCEPT !.held = @ \cup {n}])
           \/ /\ lock[n].live
              /\ ~(lock[n].worker = w /\ lock[n].op = o)
              /\ Go(w, o, [r EXCEPT !.pc = "release"])
              /\ UNCHANGED lock
    /\ UNCHANGED <<revision, deployed, doc, queuedAs, remote, host, faults>>

LocksTaken(w, o) ==
    /\ run[w][o].pc = "lock"
    /\ run[w][o].held = PlanNodes(o)
    /\ Go(w, o, [run[w][o] EXCEPT !.pc = run[w][o].next])
    /\ UNCHANGED <<store, queuedAs, remote, host, faults>>

-----------------------------------------------------------------------------
(* Commands to the nodes.                                                  *)

CommandOf(pc) == CASE pc \in {"undo", "discard"} -> "rollback" [] OTHER -> pc

Busy == {"undo", "prepare", "discard", "commit", "verify"}

\* The run renews the operation and its locks, connects and sends the
\* command, or fails to connect.  The best-effort rollback of a failed
\* prepare belongs to the same executor call and renews nothing.
Send(w, o) ==
    LET r == run[w][o] IN
    /\ r.pc \in Busy
    /\ r.todo # <<>>
    /\ r.call = "none"
    /\ r.pc # "discard" => OwnsOp(w, o) /\ OwnsLocks(w, o)
    /\ r.pc = "undo" => doc[o].node[Head(r.todo)] \in Dirty
    /\ \/ /\ remote' = remote \cup {[by |-> w, op |-> o, node |-> Head(r.todo),
                                     cmd |-> CommandOf(r.pc)]}
          /\ Go(w, o, [r EXCEPT !.call = "sent"])
       \/ /\ Go(w, o, [r EXCEPT !.call = "unsent"])
          /\ UNCHANGED remote
    /\ UNCHANGED <<store, queuedAs, host, faults>>

\* runner.sh on host h for operation o: the hosts it may leave behind, with
\* and without a success receipt.  A receipt may be lost, so whatever ends
\* well may also be reported as an error.
RunnerOk(h, o, cmd) ==
    CASE cmd = "prepare"  -> IF h.state[o] = "absent"
                             THEN {[h EXCEPT !.state[o]  = "bound",
                                             !.backup[o] = h.config]}
                             ELSE {}
      [] cmd = "commit"   -> IF h.state[o] = "bound"
                             THEN {[h EXCEPT !.config = doc[o].rev]} ELSE {}
      [] cmd = "verify"   -> IF h.state[o] = "bound" /\ h.config = doc[o].rev
                             THEN {h} ELSE {}
      [] cmd = "rollback" -> IF h.state[o] = "bound"
                             THEN {[h EXCEPT !.config = h.backup[o]]} ELSE {}

RunnerFails(h, o, cmd) ==
    {h} \cup RunnerOk(h, o, cmd) \cup
    (IF cmd = "prepare" /\ h.state[o] = "absent"
     THEN {[h EXCEPT !.state[o] = "partial"]} ELSE {})

\* Hand the answer to the run that waits for it, if one still does.
Answer(c, how) ==
    run' = IF c.by = Nobody THEN run
           ELSE [run EXCEPT ![c.by][c.op].call = how]

Execute(c) ==
    /\ c \in remote
    /\ remote' = remote \ {c}
    /\ \E how \in {"ok", "error"} :
        /\ \E h \in IF how = "ok" THEN RunnerOk(host[c.node], c.op, c.cmd)
                                  ELSE RunnerFails(host[c.node], c.op, c.cmd) :
              host' = [host EXCEPT ![c.node] = h]
        /\ Answer(c, how)
    /\ UNCHANGED <<store, queuedAs, faults>>

Orphan(c) == [c EXCEPT !.by = Nobody]

\* The SSH pool gives up after 30 seconds; the command goes on.
TimeOut(w, o) ==
    /\ Fault("timeout")
    /\ run[w][o].call = "sent"
    /\ Go(w, o, [run[w][o] EXCEPT !.call = "error"])
    /\ remote' = {IF c.by = w /\ c.op = o THEN Orphan(c) ELSE c : c \in remote}
    /\ UNCHANGED <<store, queuedAs, host>>

-----------------------------------------------------------------------------
(* Forward: prepare every node, then commit and verify them one by one.    *)

\* recordNode.
RecordNode(o, n, state) == doc' = [doc EXCEPT ![o].node[n] = state]

\* Mutant of Prepared: the loop ends one node early.
PreparedAllButOne(w, o) ==
    LET r == run[w][o]  rest == Tail(r.todo) IN
    /\ r.pc = "prepare"
    /\ r.call = "ok"
    /\ OwnsOp(w, o)
    /\ RecordNode(o, Head(r.todo), "prepared")
    /\ Go(w, o, [r EXCEPT !.call = "none", !.todo = rest,
                          !.pc = IF Len(rest) <= 1 THEN "seal" ELSE @])
    /\ UNCHANGED <<revision, deployed, lock, queuedAs, remote, host, faults>>

Prepared(w, o) ==
    LET r == run[w][o]  rest == Tail(r.todo) IN
    /\ r.pc = "prepare"
    /\ r.call = "ok"
    /\ OwnsOp(w, o)
    /\ RecordNode(o, Head(r.todo), "prepared")
    /\ Go(w, o, [r EXCEPT !.call = "none", !.todo = rest,
                          !.pc = IF rest = <<>> THEN "seal" ELSE @])
    /\ UNCHANGED <<revision, deployed, lock, queuedAs, remote, host, faults>>

\* The executor answers a prepare it could not finish with one rollback of
\* the node, whatever that brings.
PrepareRejected(w, o) ==
    /\ run[w][o].pc = "prepare"
    /\ run[w][o].call = "error"
    /\ Go(w, o, [run[w][o] EXCEPT !.pc = "discard", !.call = "none"])
    /\ UNCHANGED <<store, queuedAs, remote, host, faults>>

\* Then the nodes prepared before it are undone, last first.  So they are when
\* the renewal before a prepare or the record after it fails, although that
\* record may have been written.
PrepareFailed(w, o) ==
    LET r == run[w][o]
        before == SubSeq(Plan[o], 1, Len(Plan[o]) - Len(r.todo))
    IN
    /\ \/ /\ \/ r.pc = "prepare" /\ r.call = "unsent"
             \/ r.pc = "discard" /\ r.call \in {"ok", "error", "unsent"}
          /\ UNCHANGED <<doc, faults>>
       \/ /\ r.pc = "prepare" /\ r.call \in {"none", "ok"}
          /\ Fault("database")
          /\ \/ UNCHANGED doc
             \/ /\ r.call = "ok"
                /\ OwnsOp(w, o)
                /\ RecordNode(o, Head(r.todo), "prepared")
    /\ Go(w, o, [r EXCEPT !.pc = "revoke", !.call = "none",
                          !.todo = Reverse(before)])
    /\ UNCHANGED <<revision, deployed, lock, queuedAs, remote, host>>

\* setPhase preparing -> committing.
Seal(w, o) ==
    /\ run[w][o].pc = "seal"
    /\ OwnsOp(w, o)
    /\ doc[o].status = "preparing"
    /\ doc' = [doc EXCEPT ![o].status = "committing"]
    /\ Go(w, o, [run[w][o] EXCEPT !.pc = "commit", !.todo = Plan[o]])
    /\ UNCHANGED <<revision, deployed, lock, queuedAs, remote, host, faults>>

Committed(w, o) ==
    LET r == run[w][o] IN
    /\ r.pc = "commit"
    /\ r.call = "ok"
    /\ OwnsOp(w, o)
    /\ RecordNode(o, Head(r.todo), "committed")
    /\ Go(w, o, [r EXCEPT !.pc = "verify", !.call = "none"])
    /\ UNCHANGED <<revision, deployed, lock, queuedAs, remote, host, faults>>

Verified(w, o) ==
    LET r == run[w][o]  rest == Tail(r.todo) IN
    /\ r.pc = "verify"
    /\ r.call = "ok"
    /\ Go(w, o, [r EXCEPT !.call = "none", !.todo = rest,
                          !.pc = IF rest = <<>> THEN "finalize" ELSE "commit"])
    /\ UNCHANGED <<store, queuedAs, remote, host, faults>>

\* Mutant of UndoOrder: first node first.
UndoInPlanOrder(o, untouched) == Plan[o]

\* The nodes a failed forward pass has to undo: those it changed, last
\* first, then those it only prepared, last first.
UndoOrder(o, untouched) ==
    LET changed == Len(Plan[o]) - untouched IN
    Reverse(SubSeq(Plan[o], 1, changed))
        \o Reverse(SubSeq(Plan[o], changed + 1, Len(Plan[o])))

CommitFailed(w, o) ==
    LET r == run[w][o] IN
    /\ r.pc \in {"commit", "verify"}
    /\ r.call \in {"error", "unsent"}
    /\ Go(w, o, [r EXCEPT !.pc = "revoke", !.call = "none",
                          !.todo = UndoOrder(o, Len(r.todo) - 1)])
    /\ UNCHANGED <<store, queuedAs, remote, host, faults>>

\* Mutant of Finalize: the pinned draft revision is not compared again.
FinalizeUnpinned(w, o) ==
    /\ run[w][o].pc = "finalize"
    /\ OwnsOp(w, o)
    /\ doc[o].status = "committing"
    /\ doc[o].prior = deployed
    /\ doc' = [doc EXCEPT ![o].status = "succeeded", ![o].live = FALSE]
    /\ deployed' = doc[o].rev
    /\ Go(w, o, [run[w][o] EXCEPT !.pc = "release"])
    /\ UNCHANGED <<revision, lock, queuedAs, remote, host, faults>>

\* finalizeSucceeded: one transaction over the operation and the topology
\* state.  Its acknowledgement may be lost.
Finalize(w, o) ==
    /\ run[w][o].pc = "finalize"
    /\ OwnsOp(w, o)
    /\ doc[o].status = "committing"
    /\ doc[o].rev = revision
    /\ doc[o].prior = deployed
    /\ doc' = [doc EXCEPT ![o].status = "succeeded", ![o].live = FALSE]
    /\ deployed' = doc[o].rev
    /\ \/ Go(w, o, [run[w][o] EXCEPT !.pc = "release"])
       \/ Go(w, o, [run[w][o] EXCEPT !.pc = "revoke", !.todo = UndoOrder(o, 0)])
    /\ UNCHANGED <<revision, lock, queuedAs, remote, host, faults>>

\* The filter does not match (an edited draft, another deployment, or merely
\* a heartbeat that moved leaseUntil in between), or the transaction failed.
FinalizeRejected(w, o) ==
    /\ run[w][o].pc = "finalize"
    /\ Go(w, o, [run[w][o] EXCEPT !.pc = "revoke", !.todo = UndoOrder(o, 0)])
    /\ UNCHANGED <<store, queuedAs, remote, host, faults>>

-----------------------------------------------------------------------------
(* Backward.                                                               *)

\* setPhase to rolling_back.
Revoke(w, o) ==
    /\ run[w][o].pc = "revoke"
    /\ OwnsOp(w, o)
    /\ doc[o].status \in {"preparing", "committing"}
    /\ doc' = [doc EXCEPT ![o].status = "rolling_back"]
    /\ Go(w, o, [run[w][o] EXCEPT !.pc = "undo"])
    /\ UNCHANGED <<revision, deployed, lock, queuedAs, remote, host, faults>>

\* One node undone or given up: a recovered preparation returns it to
\* pending, everything else records it as rolled back.
Undone(w, o) ==
    LET r == run[w][o]
        clean == IF r.retry THEN "pending" ELSE "rolled_back"
    IN
    /\ r.pc = "undo"
    /\ r.call \in {"ok", "error", "unsent"}
    /\ OwnsOp(w, o)
    /\ RecordNode(o, Head(r.todo), IF r.call = "ok" THEN clean ELSE "failed")
    /\ Go(w, o, [r EXCEPT !.call = "none", !.todo = Tail(@),
                          !.bad = @ \/ r.call # "ok"])
    /\ UNCHANGED <<revision, deployed, lock, queuedAs, remote, host, faults>>

\* A recovery passes over the entries it finds nothing to undo on.
Skip(w, o) ==
    LET r == run[w][o] IN
    /\ r.pc = "undo"
    /\ r.todo # <<>>
    /\ r.call = "none"
    /\ doc[o].node[Head(r.todo)] \notin Dirty
    /\ Go(w, o, [r EXCEPT !.todo = Tail(@)])
    /\ UNCHANGED <<store, queuedAs, remote, host, faults>>

\* A cleanly undone preparation starts over.
Retry(w, o) ==
    LET r == run[w][o] IN
    /\ r.pc = "undo"
    /\ r.todo = <<>>
    /\ r.retry /\ ~r.bad
    /\ Go(w, o, [r EXCEPT !.pc = "prepare", !.todo = Plan[o],
                          !.retry = FALSE])
    /\ UNCHANGED <<store, queuedAs, remote, host, faults>>

\* Mutant of Finish: what could not be undone is forgotten.
FinishAsRolledBack(w, o) ==
    LET r == run[w][o] IN
    /\ r.pc = "undo"
    /\ r.todo = <<>>
    /\ ~r.retry \/ r.bad
    /\ OwnsOp(w, o)
    /\ doc' = [doc EXCEPT ![o].status = "rolled_back", ![o].live = FALSE]
    /\ Go(w, o, [r EXCEPT !.pc = "release"])
    /\ UNCHANGED <<revision, deployed, lock, queuedAs, remote, host, faults>>

\* finishClaimed.
Finish(w, o) ==
    LET r == run[w][o] IN
    /\ r.pc = "undo"
    /\ r.todo = <<>>
    /\ ~r.retry \/ r.bad
    /\ OwnsOp(w, o)
    /\ doc' = [doc EXCEPT ![o].status = IF r.bad THEN "failed" ELSE "rolled_back",
                          ![o].live = FALSE]
    /\ Go(w, o, [r EXCEPT !.pc = "release"])
    /\ UNCHANGED <<revision, deployed, lock, queuedAs, remote, host, faults>>

-----------------------------------------------------------------------------
(* The end of a run, and what goes wrong around it.                        *)

\* A renewal, a fenced update or any other database call of the run fails:
\* the run stops, the document stays as it is.
Abort(w, o) ==
    LET r == run[w][o] IN
    /\ r.pc \notin {"idle", "release"}
    /\ r.call # "sent"
    /\ \/ (~OwnsOp(w, o) \/ ~OwnsLocks(w, o)) /\ UNCHANGED faults
       \/ Fault("database")
    /\ Go(w, o, [r EXCEPT !.pc = "release", !.call = "none"])
    /\ UNCHANGED <<store, queuedAs, remote, host>>

\* releaseLocks, last lock first; a failed delete leaves it to its lease.
ReleaseLock(w, o) ==
    LET r == run[w][o] IN
    /\ r.pc = "release"
    /\ \E n \in r.held :
        /\ \A m \in r.held : m <= n
        /\ \/ /\ lock' = IF lock[n].worker = w /\ lock[n].op = o
                         THEN [lock EXCEPT ![n] = NoLock] ELSE lock
              /\ UNCHANGED faults
           \/ Fault("database") /\ UNCHANGED lock
        /\ Go(w, o, [r EXCEPT !.held = @ \ {n}])
    /\ UNCHANGED <<revision, deployed, doc, queuedAs, remote, host>>

EndRun(w, o) ==
    /\ run[w][o].pc = "release"
    /\ run[w][o].held = {}
    /\ Go(w, o, Idle)
    /\ UNCHANGED <<store, queuedAs, remote, host, faults>>

\* A panel process dies and starts again with nothing in memory.
Crash(w) ==
    /\ Fault("crash")
    /\ run' = [run EXCEPT ![w] = [o \in Op |-> Idle]]
    /\ queuedAs' = [queuedAs EXCEPT ![w] = [r \in Revision |-> Nobody]]
    /\ remote' = {IF c.by = w THEN Orphan(c) ELSE c : c \in remote}
    /\ UNCHANGED <<store, host>>

\* A run renews the operation and the locks it took until it starts to
\* release; only a fault makes such a lease run out.
Renews(w, o) == run[w][o].pc \notin {"idle", "release"}

RunsOut(renewed) ==
    \/ ~renewed /\ UNCHANGED faults
    \/ renewed /\ Fault("stall")

\* Unless commands may be late, none outlives the lease it was sent under.
Settled(o) == "late" \in FaultKinds \/ \A c \in remote : c.op # o

ExpireOp(o) ==
    /\ doc[o].live
    /\ Settled(o)
    /\ RunsOut(Renews(doc[o].owner, o))
    /\ doc' = [doc EXCEPT ![o].live = FALSE]
    /\ UNCHANGED <<revision, deployed, lock, queuedAs, run, remote, host>>

\* Mutant of ExpireLock: a lock without an end.
ExpireLockNever(n) ==
    /\ FALSE
    /\ UNCHANGED vars

ExpireLock(n) ==
    /\ lock[n].live
    /\ Settled(lock[n].op)
    /\ LET w == lock[n].worker  o == lock[n].op IN
          RunsOut(Renews(w, o) /\ n \in run[w][o].held)
    /\ lock' = [lock EXCEPT ![n].live = FALSE]
    /\ UNCHANGED <<revision, deployed, doc, queuedAs, run, remote, host>>

-----------------------------------------------------------------------------
Step(w, o) ==
    \/ TakeLock(w, o) \/ LocksTaken(w, o) \/ Send(w, o)
    \/ Prepared(w, o) \/ PrepareRejected(w, o) \/ PrepareFailed(w, o)
    \/ Seal(w, o) \/ Committed(w, o) \/ Verified(w, o) \/ CommitFailed(w, o)
    \/ Finalize(w, o) \/ FinalizeRejected(w, o)
    \/ Revoke(w, o) \/ Undone(w, o) \/ Skip(w, o) \/ Retry(w, o) \/ Finish(w, o)
    \/ Abort(w, o) \/ ReleaseLock(w, o) \/ EndRun(w, o)

Next ==
    \/ EditDraft
    \/ \E w \in Worker, o \in Op : Queue(w, o) \/ Claim(w, o) \/ Step(w, o)
    \/ \E w \in Worker, o \in Op : TimeOut(w, o)
    \/ \E c \in remote : Execute(c)
    \/ \E w \in Worker : Crash(w)
    \/ \E o \in Op : ExpireOp(o)
    \/ \E n \in Node : ExpireLock(n)

Spec == Init /\ [][Next]_vars

(***************************************************************************)
(* What the event loop, the recovery interval and the clock guarantee: a   *)
(* run goes on, a node answers, a lease nobody renews runs out, and every  *)
(* scan claims what it can.  Nothing is assumed of edits, requests and     *)
(* faults.                                                                 *)
(***************************************************************************)
Fairness ==
    /\ \A w \in Worker, o \in Op :
          /\ WF_vars(Step(w, o))
          /\ WF_vars(Claim(w, o))
          /\ \A n \in Node, cmd \in Command :
                WF_vars(Execute([by |-> w, op |-> o, node |-> n, cmd |-> cmd]))
    /\ \A o \in Op : /\ WF_vars(ExpireOp(o) /\ UNCHANGED faults)
                     /\ \A n \in Node, cmd \in Command :
                           WF_vars(Execute([by |-> Nobody, op |-> o, node |-> n,
                                            cmd |-> cmd]))
    /\ \A n \in Node : WF_vars(ExpireLock(n) /\ UNCHANGED faults)

FairSpec == Spec /\ Fairness

-----------------------------------------------------------------------------
(***************************************************************************)
(* Properties                                                              *)
(***************************************************************************)

\* Types, and that a lease is live only while an operation is under way.
TypeOK ==
    /\ revision \in Revision
    /\ deployed \in Revision
    /\ doc \in [Op -> Document]
    /\ \A o \in Op : doc[o].live => doc[o].status \in Active
    /\ lock \in [Node -> Lock]
    /\ queuedAs \in [Worker -> [Revision -> Op \cup {Nobody}]]
    /\ run \in [Worker -> [Op -> Run]]
    /\ remote \subseteq Sent
    /\ host \in [Node -> Host]
    /\ faults \in 0 .. MaxFaults

\* A commit is on its way to a node only when every node of the operation
\* holds a bound backup, whatever crashed, expired or was taken over since:
\* "prepares every node before deterministic commit".
BackupsFirst ==
    \A o \in Op :
        \/ doc[o].status \in {"committing", "succeeded"}
        \/ \E c \in remote : c.op = o /\ c.cmd = "commit"
        => \A n \in PlanNodes(o) : host[n].state[o] = "bound"

\* The document tells the truth about how it ended: succeeded with every
\* node committed, rolled back with no node still changed on record (one may
\* be prepared: that only stages files), failed with a node on record that
\* could not be undone.
HonestOutcome ==
    \A o \in Op :
        LET states == {doc[o].node[n] : n \in PlanNodes(o)} IN
        /\ doc[o].status = "succeeded"   => states = {"committed"}
        /\ doc[o].status = "rolled_back" => states \cap {"committed", "failed"} = {}
        /\ doc[o].status = "failed"      => "failed" \in states

\* "rolls back ... in exact reverse deployment order": no node is on record
\* as rolled back while a later one is still on record as committed, also
\* when another process finishes the rollback.
ReverseOrder ==
    \A o \in Op : \A i, j \in DOMAIN Plan[o] :
        /\ i < j
        /\ doc[o].node[Plan[o][i]] = "rolled_back"
        => doc[o].node[Plan[o][j]] # "committed"

\* The order in which an operation works through its nodes, there and back: all
\* backups before the first commit, the last commit undone first.
NodesInOrder == BackupsFirst /\ ReverseOrder

\* Once nothing is under way, every node all operations deploy to runs the
\* deployed revision, or a failed operation has it on record as not undone.
Quiet ==
    /\ remote = {}
    /\ \A o \in Op : doc[o].status \in Terminal \cup {"none"}

DeployedIsRunning ==
    Quiet => \A n \in {m \in Node : \A o \in Op : m \in PlanNodes(o)} :
        \/ host[n].config = deployed
        \/ \E o \in Op : doc[o].status = "failed" /\ doc[o].node[n] = "failed"

\* A run that lost its operation to another one never activates a candidate
\* on a node: what a commit changes is changed while the operation commits.
NoLateActivation ==
    [][\A c \in remote \ remote' :
          /\ c.cmd = "commit"
          /\ host'[c.node].config # host[c.node].config
          => doc[c.op].status = "committing"]_vars

\* A recovered preparation that was cleaned up is "retried from fresh prepare
\* state": no node about to be prepared still has runner state of this
\* operation.
FreshRetry ==
    \A w \in Worker, o \in Op :
        LET r == run[w][o] IN
        r.pc = "prepare" /\ r.call = "none" /\ r.todo # <<>>
            => host[Head(r.todo)].state[o] = "absent"

\* The durable documents implement the deployment ledger.
LedgerOutcome ==
    [o \in Op |-> CASE doc[o].status \in Terminal -> doc[o].status
                    [] doc[o].status = "none"     -> "none"
                    [] OTHER                      -> "open"]
LedgerPin == [o \in Op |-> [rev |-> doc[o].rev, prior |-> doc[o].prior]]

Ledger == INSTANCE DeploymentLedger WITH outcome <- LedgerOutcome,
                                         pin     <- LedgerPin

LedgerSpec == Ledger!LSpec

\* Every queued operation ends, with faults bounded and its process restarted.
Completion ==
    \A o \in Op : doc[o].status = "queued" ~> doc[o].status \in Terminal

\* No node stays locked once nothing is under way.
LocksFreed ==
    \A n \in Node : [](Quiet => <>(~lock[n].live \/ ~Quiet))

=============================================================================
