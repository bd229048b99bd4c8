------------------------ MODULE TopologyRecord_proofs ------------------------
(***************************************************************************)
(* What the documents say, for every number of processes, operations,      *)
(* nodes and faults: a finished one tells the truth about how it ended     *)
(* (Record), one that is undone is undone backwards (Ordered), and a       *)
(* commit on its way has a committing one behind it (Pinned).  And, as     *)
(* long as no fault has happened, what the nodes run (Undisturbed).        *)
(*                                                                         *)
(* HonestOutcome compares an outcome with node entries that were written   *)
(* one by one, possibly by several processes in turn.  What carries it is  *)
(* that the run which owns a document (OwnsOp) agrees with its entries:    *)
(* the nodes that left its list are recorded as it remembers them.  Runs   *)
(* that lost the document may remember anything; the fencing of every      *)
(* update by OwnsOp keeps them from writing it down.                       *)
(***************************************************************************)
EXTENDS TopologyOperation_proofs

Changed == {"committed", "failed"}

Undoing(r) == r.pc \in Backward \/ (r.pc = "lock" /\ r.next \in Backward)

\* A run r of o agrees with the entries of the document d.
RunRecorded(o, d, r) ==
    /\ r.pc \in {"prepare", "discard", "seal"} \/ (r.pc = "lock" /\ r.next = "prepare")
          => \A n \in PlanNodes(o) : d.node[n] \notin Changed
    /\ r.pc \in {"commit", "verify", "finalize"}
          => \A n \in PlanNodes(o) \ Range(r.todo) : d.node[n] = "committed"
    /\ r.pc = "verify" => d.node[Head(r.todo)] = "committed"
    /\ Undoing(r) => \A n \in PlanNodes(o) \ Range(r.todo) :
                        \/ d.node[n] \notin Changed
                        \/ r.bad /\ d.node[n] = "failed"
    /\ Undoing(r) /\ r.bad
          => \E n \in PlanNodes(o) \ Range(r.todo) : d.node[n] = "failed"

Honest(o, d) ==
    LET states == {d.node[n] : n \in PlanNodes(o)} IN
    /\ d.status = "succeeded"   => states = {"committed"}
    /\ d.status = "rolled_back" => states \cap {"committed", "failed"} = {}
    /\ d.status = "failed"      => "failed" \in states

Record ==
    /\ \A w \in Worker, o \in Op : OwnsOp(w, o) => RunRecorded(o, doc[o], run[w][o])
    /\ \A o \in Op : Honest(o, doc[o])

-----------------------------------------------------------------------------
\* What an owning run may write: nothing, an entry, or a status.
LEMMA StepWrites ==
  ASSUME Shape, NEW w \in Worker, NEW o \in Op, Step(w, o)
  PROVE  \/ doc' = doc
         \/ /\ OwnsOp(w, o)
            /\ doc'[o].owner = doc[o].owner
            /\ \A p \in Op : p # o => doc'[p] = doc[p]
  <1>1. doc \in [Op -> Document]
    BY DEF Shape, TypeOK
  <1>2. CASE \/ TakeLock(w, o) \/ LocksTaken(w, o) \/ Send(w, o) \/ PrepareRejected(w, o)
             \/ Verified(w, o) \/ CommitFailed(w, o) \/ FinalizeRejected(w, o)
             \/ Skip(w, o) \/ Retry(w, o) \/ Abort(w, o) \/ ReleaseLock(w, o)
             \/ EndRun(w, o)
    BY <1>2 DEF TakeLock, LocksTaken, Send, PrepareRejected, Verified, CommitFailed,
                FinalizeRejected, Skip, Retry, Abort, ReleaseLock, EndRun, store
  <1>3. CASE Prepared(w, o) \/ Committed(w, o) \/ Undone(w, o) \/ PrepareFailed(w, o)
    <2>1. \/ doc' = doc
          \/ /\ OwnsOp(w, o)
             /\ \E n, state : state \in NodeState /\ RecordNode(o, n, state)
      BY <1>3 DEF Prepared, Committed, Undone, PrepareFailed, NodeState
    <2> QED BY <1>1, <2>1, RecordFacts
  <1>4. CASE Seal(w, o) \/ Revoke(w, o)
    <2>1. OwnsOp(w, o) /\ \E s : doc' = [doc EXCEPT ![o] = [doc[o] EXCEPT !.status = s]]
      BY <1>4 DEF Seal, Revoke
    <2> QED BY <1>1, <2>1 DEF Document
  <1>5. CASE Finalize(w, o) \/ Finish(w, o)
    <2>1. /\ OwnsOp(w, o)
          /\ \E s : doc' = [doc EXCEPT ![o] = [doc[o] EXCEPT !.status = s, !.live = FALSE]]
      BY <1>5 DEF Finalize, Finish
    <2> QED BY <1>1, <2>1 DEF Document
  <1> QED BY <1>2, <1>3, <1>4, <1>5 DEF Step

\* Forward: what an owning run leaves behind agrees with what it wrote.
LEMMA ForwardRecorded ==
  ASSUME Shape, Shape', NEW w \in Worker, NEW o \in Op, OwnsOp(w, o),
         RunRecorded(o, doc[o], run[w][o]),
         \/ Prepared(w, o) \/ PrepareRejected(w, o) \/ PrepareFailed(w, o)
         \/ Seal(w, o) \/ Committed(w, o) \/ Verified(w, o) \/ CommitFailed(w, o)
         \/ FinalizeRejected(w, o)
  PROVE  RunRecorded(o, doc'[o], run'[w][o])
  <1> DEFINE r == run[w][o]
             q == run'[w][o]
             d == doc[o]
             e == doc'[o]
             rest == Tail(r.todo)
  <1>1. /\ r \in Run /\ RunShape(o, r) /\ doc \in [Op -> Document]
        /\ run \in [Worker -> [Op -> Run]]
        /\ Plan[o] \in Seq(Node) /\ PlanNodes(o) \subseteq Node
    BY RunFacts, PlanAssumption DEF Shape, TypeOK, PlanNodes, Range
  <1>2. \A s : Go(w, o, s) => q = s
    BY <1>1 DEF Go
  <1>3. r.todo # <<>> => Range(r.todo) = {Head(r.todo)} \cup Range(rest)
    BY <1>1, SeqTail DEF Run
  <1>4. \A state \in NodeState : RecordNode(o, Head(r.todo), state) =>
           \A m \in Node : e.node[m] = IF m = Head(r.todo) THEN state ELSE d.node[m]
    BY <1>1, RecordFacts
  <1>5. CASE Prepared(w, o)
    <2>1. /\ r.pc = "prepare" /\ RecordNode(o, Head(r.todo), "prepared")
          /\ q = [r EXCEPT !.call = "none", !.todo = rest,
                           !.pc = IF rest = <<>> THEN "seal" ELSE @]
      BY <1>2, <1>5 DEF Prepared
    <2>2. q.pc \in {"prepare", "seal"}
      BY <1>1, <2>1 DEF Run
    <2>3. \A n \in PlanNodes(o) : e.node[n] \notin Changed
      BY <1>1, <1>4, <2>1 DEF RunRecorded, NodeState, Changed
    <2> QED BY <2>2, <2>3 DEF RunRecorded, Undoing, Backward
  <1>6. CASE PrepareRejected(w, o)
    <2>1. /\ r.pc = "prepare" /\ doc' = doc
          /\ q = [r EXCEPT !.pc = "discard", !.call = "none"]
      BY <1>2, <1>6 DEF PrepareRejected, store
    <2>2. q.pc = "discard"
      BY <1>1, <2>1 DEF Run
    <2> QED BY <2>1, <2>2 DEF RunRecorded, Undoing, Backward
  <1>7. CASE PrepareFailed(w, o)
    <2>1. /\ r.pc \in {"prepare", "discard"}
          /\ doc' = doc \/ RecordNode(o, Head(r.todo), "prepared")
          /\ \E back : q = [r EXCEPT !.pc = "revoke", !.call = "none", !.todo = back]
      BY <1>2, <1>7 DEF PrepareFailed
    <2>2. q.pc = "revoke" /\ ~q.bad
      BY <1>1, <2>1 DEF Run, RunShape
    <2>3. \A n \in PlanNodes(o) : e.node[n] \notin Changed
      BY <1>1, <1>4, <2>1 DEF RunRecorded, NodeState, Changed
    <2> QED BY <2>2, <2>3 DEF RunRecorded
  <1>8. CASE Seal(w, o)
    <2>1. /\ q = [r EXCEPT !.pc = "commit", !.todo = Plan[o]]
      BY <1>2, <1>8 DEF Seal
    <2>2. q.pc = "commit" /\ q.todo = Plan[o]
      BY <1>1, <2>1 DEF Run
    <2> QED BY <2>2 DEF RunRecorded, Undoing, Backward, PlanNodes
  <1>9. CASE Committed(w, o)
    <2>1. /\ r.pc = "commit" /\ RecordNode(o, Head(r.todo), "committed")
          /\ q = [r EXCEPT !.pc = "verify", !.call = "none"]
      BY <1>2, <1>9 DEF Committed
    <2>2. q.pc = "verify" /\ q.todo = r.todo
      BY <1>1, <2>1 DEF Run
    <2>3. Head(r.todo) \in Node
      BY <1>1, <2>1, SeqTail DEF Run, RunShape, Forward
    <2>4. \A n \in PlanNodes(o) \ Range(r.todo) : e.node[n] = "committed"
      BY <1>1, <1>4, <2>1 DEF RunRecorded, NodeState
    <2>5. e.node[Head(r.todo)] = "committed"
      BY <1>4, <2>1, <2>3 DEF NodeState
    <2> QED BY <2>2, <2>4, <2>5 DEF RunRecorded, Undoing, Backward
  <1>10. CASE Verified(w, o)
    <2>1. /\ r.pc = "verify" /\ doc' = doc
          /\ q = [r EXCEPT !.call = "none", !.todo = rest,
                           !.pc = IF rest = <<>> THEN "finalize" ELSE "commit"]
      BY <1>2, <1>10 DEF Verified, store
    <2>2. q.pc \in {"commit", "finalize"} /\ q.todo = rest
      BY <1>1, <2>1 DEF Run
    <2>3. r.todo # <<>>
      BY <1>1, <2>1 DEF RunShape, Forward
    <2>4. \A n \in PlanNodes(o) \ Range(rest) : e.node[n] = "committed"
      BY <1>3, <2>1, <2>3 DEF RunRecorded
    <2> QED BY <2>2, <2>4 DEF RunRecorded, Undoing, Backward
  <1>11. CASE CommitFailed(w, o) \/ FinalizeRejected(w, o)
    <2>1. PICK u \in 0 .. Len(Plan[o]) :
             \E call : q = [r EXCEPT !.pc = "revoke", !.call = call,
                                     !.todo = UndoOrder(o, u)]
      <3>1. CASE CommitFailed(w, o)
        <4>1. Len(r.todo) - 1 \in 0 .. Len(Plan[o])
          BY <1>1, <3>1 DEF CommitFailed, RunShape, Run, Forward
        <4> QED BY <1>2, <3>1, <4>1 DEF CommitFailed
      <3>2. CASE FinalizeRejected(w, o)
        <4>1. q = [r EXCEPT !.pc = "revoke", !.todo = UndoOrder(o, 0)]
          BY <1>2, <3>2 DEF FinalizeRejected
        <4>2. q = [r EXCEPT !.pc = "revoke", !.call = r.call, !.todo = UndoOrder(o, 0)]
          BY <1>1, <4>1 DEF Run
        <4>3. 0 \in 0 .. Len(Plan[o])
          BY <1>1
        <4> QED BY <4>2, <4>3
      <3> QED BY <1>11, <3>1, <3>2
    <2>2. Range(UndoOrder(o, u)) = PlanNodes(o)
      BY UndoOrderSound
    <2>3. q.pc = "revoke" /\ q.todo = UndoOrder(o, u) /\ ~q.bad
      BY <1>1, <1>11, <2>1 DEF Run, RunShape, CommitFailed, FinalizeRejected
    <2> QED BY <2>2, <2>3 DEF RunRecorded
  <1> QED BY <1>5, <1>6, <1>7, <1>8, <1>9, <1>10, <1>11

\* Backward and the rest: a failed node is never forgotten.
LEMMA BackwardRecorded ==
  ASSUME Shape, Shape', NEW w \in Worker, NEW o \in Op, OwnsOp(w, o),
         RunRecorded(o, doc[o], run[w][o]),
         \/ TakeLock(w, o) \/ LocksTaken(w, o) \/ Send(w, o) \/ Revoke(w, o)
         \/ Undone(w, o) \/ Skip(w, o) \/ Retry(w, o) \/ Abort(w, o)
         \/ ReleaseLock(w, o) \/ EndRun(w, o)
  PROVE  RunRecorded(o, doc'[o], run'[w][o])
  <1> DEFINE r == run[w][o]
             q == run'[w][o]
             d == doc[o]
             e == doc'[o]
             rest == Tail(r.todo)
  <1>1. /\ r \in Run /\ RunShape(o, r) /\ doc \in [Op -> Document]
        /\ run \in [Worker -> [Op -> Run]]
        /\ Plan[o] \in Seq(Node) /\ PlanNodes(o) \subseteq Node
    BY RunFacts, PlanAssumption DEF Shape, TypeOK, PlanNodes, Range
  <1>2. \A s : Go(w, o, s) => q = s
    BY <1>1 DEF Go
  <1>3. r.todo # <<>> => Range(r.todo) = {Head(r.todo)} \cup Range(rest)
    BY <1>1, SeqTail DEF Run
  <1>4. ASSUME e.node = d.node, q.pc = r.pc, q.todo = r.todo, q.bad = r.bad,
               q.next = r.next
        PROVE  RunRecorded(o, e, q)
    BY <1>4 DEF RunRecorded, Undoing
  <1>5. ASSUME q.pc \in {"release", "idle"} PROVE RunRecorded(o, e, q)
    BY <1>5 DEF RunRecorded, Undoing, Backward
  <1>6. CASE TakeLock(w, o)
    <2>1. /\ doc' = doc
          /\ \/ \E n : q = [r EXCEPT !.held = @ \cup {n}]
             \/ q = [r EXCEPT !.pc = "release"]
      BY <1>2, <1>6 DEF TakeLock
    <2> QED BY <1>1, <1>4, <1>5, <2>1 DEF Run
  <1>7. CASE LocksTaken(w, o)
    <2>1. r.pc = "lock" /\ doc' = doc /\ q = [r EXCEPT !.pc = r.next]
      BY <1>2, <1>7 DEF LocksTaken, store
    <2>2. /\ q.pc = r.next /\ q.todo = r.todo /\ ~q.bad /\ ~r.bad
          /\ r.next \in {"prepare"} \cup Backward
      BY <1>1, <2>1 DEF Run, RunShape
    <2> QED BY <2>1, <2>2 DEF RunRecorded, Undoing, Backward
  <1>8. CASE Send(w, o)
    <2>1. doc' = doc /\ \E call : q = [r EXCEPT !.call = call]
      BY <1>2, <1>8 DEF Send, store
    <2> QED BY <1>1, <1>4, <2>1 DEF Run
  <1>9. CASE Revoke(w, o)
    <2>1. /\ r.pc = "revoke" /\ q = [r EXCEPT !.pc = "undo"]
          /\ doc' = [doc EXCEPT ![o].status = "rolling_back"]
      BY <1>2, <1>9 DEF Revoke
    <2>2. /\ q.pc = "undo" /\ q.todo = r.todo /\ ~q.bad /\ ~r.bad
          /\ e.node = d.node
      BY <1>1, <2>1 DEF Run, RunShape, Document
    <2> QED BY <2>1, <2>2 DEF RunRecorded, Undoing, Backward
  <1>10. CASE Undone(w, o)
    <2> DEFINE state == IF r.call = "ok"
                        THEN IF r.retry THEN "pending" ELSE "rolled_back"
                        ELSE "failed"
    <2>1. /\ r.pc = "undo" /\ RecordNode(o, Head(r.todo), state)
          /\ q = [r EXCEPT !.call = "none", !.todo = rest,
                           !.bad = @ \/ r.call # "ok"]
      BY <1>2, <1>10 DEF Undone
    <2>2. /\ q.pc = "undo" /\ q.todo = rest /\ q.next = r.next
          /\ q.bad = (r.bad \/ r.call # "ok")
      BY <1>1, <2>1 DEF Run
    <2>3. r.todo # <<>> /\ IsInjective(r.todo) /\ Head(r.todo) \in PlanNodes(o)
      <3>1. r.todo # <<>>
        BY <1>1, <1>10 DEF Undone, RunShape
      <3>2. IsInjective(r.todo) /\ Range(r.todo) \subseteq PlanNodes(o)
        BY <1>1, <2>1 DEF RunShape, Backward
      <3> QED BY <1>3, <3>1, <3>2
    <2>4. Head(r.todo) \notin Range(rest)
      BY <1>1, <2>3, SeqTail DEF Run
    <2>5. \A m \in Node : e.node[m] = IF m = Head(r.todo) THEN state ELSE d.node[m]
      <3>1. state \in NodeState
        BY DEF NodeState
      <3> QED BY <1>1, <2>1, <3>1, RecordFacts
    <2>6. state = "failed" <=> r.call # "ok"
      OBVIOUS
    <2>7. state \in {"pending", "rolled_back", "failed"}
      OBVIOUS
    <2> HIDE DEF state
    <2>8. Undoing(r)
      BY <2>1 DEF Undoing, Backward
    <2>9. ASSUME NEW n \in PlanNodes(o) \ Range(rest)
          PROVE  e.node[n] \notin Changed \/ (q.bad /\ e.node[n] = "failed")
      <3>1. CASE n = Head(r.todo)
        BY <1>1, <2>2, <2>5, <2>6, <2>7, <3>1 DEF Changed
      <3>2. CASE n # Head(r.todo)
        <4>1. n \in PlanNodes(o) \ Range(r.todo) /\ e.node[n] = d.node[n]
          BY <1>1, <1>3, <2>3, <2>5, <3>2
        <4> QED BY <2>2, <2>8, <4>1 DEF RunRecorded
      <3> QED BY <3>1, <3>2
    <2>10. ASSUME q.bad
           PROVE  \E n \in PlanNodes(o) \ Range(rest) : e.node[n] = "failed"
      <3>1. CASE r.call # "ok"
        BY <1>1, <2>3, <2>4, <2>5, <2>6, <3>1
      <3>2. CASE r.call = "ok"
        <4>1. PICK n \in PlanNodes(o) \ Range(r.todo) : d.node[n] = "failed"
          BY <2>2, <2>8, <2>10, <3>2 DEF RunRecorded
        <4>2. n \in PlanNodes(o) \ Range(rest) /\ n # Head(r.todo) /\ n \in Node
          BY <1>1, <1>3, <2>3
        <4> QED BY <2>5, <4>1, <4>2
      <3> QED BY <3>1, <3>2
    <2> QED BY <2>2, <2>9, <2>10 DEF RunRecorded, Undoing, Backward
  <1>11. CASE Skip(w, o)
    <2>1. /\ r.pc = "undo" /\ r.todo # <<>> /\ doc' = doc
          /\ d.node[Head(r.todo)] \notin Dirty
          /\ q = [r EXCEPT !.todo = rest]
      BY <1>2, <1>11 DEF Skip, store
    <2>2. q.pc = "undo" /\ q.todo = rest /\ q.bad = r.bad
      BY <1>1, <2>1 DEF Run
    <2>3. Undoing(r)
      BY <2>1 DEF Undoing, Backward
    <2>4. \A n \in PlanNodes(o) \ Range(rest) :
             d.node[n] \notin Changed \/ (r.bad /\ d.node[n] = "failed")
      BY <1>3, <2>1, <2>3 DEF RunRecorded, Changed, Dirty
    <2>5. r.bad => \E n \in PlanNodes(o) \ Range(rest) : d.node[n] = "failed"
      BY <1>3, <2>1, <2>3 DEF RunRecorded
    <2> QED BY <2>1, <2>2, <2>4, <2>5 DEF RunRecorded, Undoing, Backward
  <1>12. CASE Retry(w, o)
    <2>1. /\ r.pc = "undo" /\ r.todo = <<>> /\ ~r.bad /\ doc' = doc
          /\ q = [r EXCEPT !.pc = "prepare", !.todo = Plan[o], !.retry = FALSE]
      BY <1>2, <1>12 DEF Retry, store
    <2>2. q.pc = "prepare"
      BY <1>1, <2>1 DEF Run
    <2>3. \A n \in PlanNodes(o) : d.node[n] \notin Changed
      BY <2>1 DEF RunRecorded, Undoing, Backward, Range
    <2> QED BY <2>1, <2>2, <2>3 DEF RunRecorded, Undoing, Backward
  <1>13. CASE Abort(w, o) \/ EndRun(w, o)
    <2>1. CASE Abort(w, o)
      <3>1. q = [r EXCEPT !.pc = "release", !.call = "none"]
        BY <1>2, <2>1 DEF Abort
      <3>2. q.pc = "release"
        BY <1>1, <3>1 DEF Run
      <3> QED BY <1>5, <3>2
    <2>2. CASE EndRun(w, o)
      <3>1. q.pc = "idle"
        BY <1>2, <2>2 DEF EndRun, Idle
      <3> QED BY <1>5, <3>1
    <2> QED BY <1>13, <2>1, <2>2
  <1>14. CASE ReleaseLock(w, o)
    <2>1. r.pc = "release" /\ \E n : q = [r EXCEPT !.held = @ \ {n}]
      BY <1>2, <1>14 DEF ReleaseLock
    <2> QED BY <1>1, <1>5, <2>1 DEF Run
  <1> QED BY <1>6, <1>7, <1>8, <1>9, <1>10, <1>11, <1>12, <1>13, <1>14

\* How a run ends its document is what it remembers of its entries.
LEMMA EndRecorded ==
  ASSUME Shape, NEW w \in Worker, NEW o \in Op, OwnsOp(w, o),
         RunRecorded(o, doc[o], run[w][o]), Finalize(w, o) \/ Finish(w, o)
  PROVE  ~OwnsOp(w, o)' /\ Honest(o, doc'[o])
  <1> DEFINE r == run[w][o]
             d == doc[o]
             e == doc'[o]
  <1>1. /\ r \in Run /\ RunShape(o, r) /\ doc \in [Op -> Document]
        /\ PlanNodes(o) # {}
    <2>1. Plan[o][1] \in PlanNodes(o)
      BY RunFacts DEF PlanNodes, Range
    <2> QED BY <2>1, RunFacts
  <1>2. r.todo = <<>> /\ Range(r.todo) = {}
    <2>1. r.todo = <<>>
      BY <1>1 DEF Finalize, Finish, RunShape
    <2> QED BY <2>1 DEF Range
  <1>3. CASE Finalize(w, o)
    <2>1. r.pc = "finalize" /\ e = [d EXCEPT !.status = "succeeded", !.live = FALSE]
      BY <1>1, <1>3 DEF Finalize
    <2>2. e.status = "succeeded" /\ ~e.live /\ e.node = d.node
      BY <1>1, <2>1 DEF Document
    <2>3. {e.node[n] : n \in PlanNodes(o)} = {"committed"}
      BY <1>1, <1>2, <2>1, <2>2 DEF RunRecorded
    <2> QED BY <2>2, <2>3 DEF Honest, OwnsOp
  <1>4. CASE Finish(w, o)
    <2>1. /\ r.pc = "undo"
          /\ e = [d EXCEPT !.status = IF r.bad THEN "failed" ELSE "rolled_back",
                           !.live = FALSE]
      BY <1>1, <1>4 DEF Finish
    <2>2. /\ e.status = IF r.bad THEN "failed" ELSE "rolled_back"
          /\ ~e.live /\ e.node = d.node
      BY <1>1, <2>1 DEF Document
    <2>3. Undoing(r)
      BY <2>1 DEF Undoing, Backward
    <2>4. r.bad => "failed" \in {e.node[n] : n \in PlanNodes(o)}
      BY <1>2, <2>2, <2>3 DEF RunRecorded
    <2>5. ~r.bad => {e.node[n] : n \in PlanNodes(o)} \cap {"committed", "failed"} = {}
      BY <1>2, <2>2, <2>3 DEF RunRecorded, Changed
    <2> QED BY <2>2, <2>4, <2>5 DEF Honest, OwnsOp
  <1> QED BY <1>3, <1>4

\* Only Finalize and Finish give a document a terminal status.
LEMMA StepEnds ==
  ASSUME Shape, NEW w \in Worker, NEW o \in Op, Step(w, o), OwnsOp(w, o)
  PROVE  \/ Finalize(w, o) \/ Finish(w, o)
         \/ doc'[o].status \in Active
  <1>1. doc \in [Op -> Document] /\ doc[o].status \in Active
    BY DEF Shape, TypeOK, OwnsOp
  <1>2. CASE \/ TakeLock(w, o) \/ LocksTaken(w, o) \/ Send(w, o) \/ PrepareRejected(w, o)
             \/ Verified(w, o) \/ CommitFailed(w, o) \/ FinalizeRejected(w, o)
             \/ Skip(w, o) \/ Retry(w, o) \/ Abort(w, o) \/ ReleaseLock(w, o)
             \/ EndRun(w, o)
    BY <1>1, <1>2 DEF TakeLock, LocksTaken, Send, PrepareRejected, Verified,
                CommitFailed, FinalizeRejected, Skip, Retry, Abort, ReleaseLock,
                EndRun, store
  <1>3. CASE Prepared(w, o) \/ Committed(w, o) \/ Undone(w, o) \/ PrepareFailed(w, o)
    <2>1. doc' = doc \/ \E n, state : state \in NodeState /\ RecordNode(o, n, state)
      BY <1>3 DEF Prepared, Committed, Undone, PrepareFailed, NodeState
    <2> QED BY <1>1, <2>1, RecordFacts
  <1>4. CASE Seal(w, o) \/ Revoke(w, o)
    <2>1. \E s \in Active : doc' = [doc EXCEPT ![o].status = s]
      BY <1>4 DEF Seal, Revoke, Active
    <2> QED BY <1>1, <2>1 DEF Document
  <1> QED BY <1>2, <1>3, <1>4 DEF Step

\* A step of one run leaves every owner in agreement with its document.
LEMMA StepRecord ==
  ASSUME Shape, Shape', Record, NEW w \in Worker, NEW o \in Op, Step(w, o)
  PROVE  Record'
  <1>1. doc \in [Op -> Document]
    BY DEF Shape, TypeOK
  <1>2. \A v \in Worker, p \in Op : v # w \/ p # o => run'[v][p] = run[v][p]
    BY OtherRunsStay
  <1>3. CASE doc' = doc
    <2>1. OwnsOp(w, o)' => RunRecorded(o, doc'[o], run'[w][o])
      <3>1. SUFFICES ASSUME OwnsOp(w, o) PROVE RunRecorded(o, doc'[o], run'[w][o])
        BY <1>3 DEF OwnsOp
      <3>2. RunRecorded(o, doc[o], run[w][o])
        BY <3>1 DEF Record
      <3>3. ~Finalize(w, o) /\ ~Finish(w, o)
        <4>1. Finalize(w, o) \/ Finish(w, o) => ~OwnsOp(w, o)'
          BY <3>1, <3>2, EndRecorded
        <4> QED BY <1>3, <3>1, <4>1 DEF OwnsOp
      <3> QED BY <3>1, <3>2, <3>3, ForwardRecorded, BackwardRecorded DEF Step
    <2>2. ASSUME NEW v \in Worker, NEW p \in Op, v # w \/ p # o, OwnsOp(v, p)'
          PROVE  RunRecorded(p, doc'[p], run'[v][p])
      BY <1>2, <1>3, <2>2 DEF Record, OwnsOp
    <2> QED BY <1>3, <2>1, <2>2 DEF Record
  <1>4. CASE /\ OwnsOp(w, o)
             /\ doc'[o].owner = doc[o].owner
             /\ \A p \in Op : p # o => doc'[p] = doc[p]
    <2>1. RunRecorded(o, doc[o], run[w][o])
      BY <1>4 DEF Record
    <2>2. CASE Finalize(w, o) \/ Finish(w, o)
      <3>1. ~OwnsOp(w, o)' /\ Honest(o, doc'[o])
        BY <1>4, <2>1, <2>2, EndRecorded
      <3> QED BY <1>2, <1>4, <3>1 DEF Record, OwnsOp
    <2>3. CASE ~(Finalize(w, o) \/ Finish(w, o))
      <3>1. RunRecorded(o, doc'[o], run'[w][o])
        BY <1>4, <2>1, <2>3, ForwardRecorded, BackwardRecorded DEF Step
      <3>2. Honest(o, doc'[o])
        BY <1>4, <2>3, StepEnds DEF Honest, Active
      <3> QED BY <1>2, <1>4, <3>1, <3>2 DEF Record, OwnsOp
    <2> QED BY <2>2, <2>3
  <1> QED BY <1>3, <1>4, StepWrites

-----------------------------------------------------------------------------
\* The run a claim starts agrees with the document it read; whoever owned the
\* document before owns it no longer.
LEMMA ClaimRecord ==
  ASSUME Shape, Record, NEW w \in Worker, NEW o \in Op, Claim(w, o)
  PROVE  Record'
  <1> DEFINE q == AfterLocks(o)
             d == doc[o]
             e == doc'[o]
  <1>1. /\ doc \in [Op -> Document] /\ run \in [Worker -> [Op -> Run]]
        /\ Range(Reverse(Plan[o])) = PlanNodes(o)
    BY RunFacts, SeqReverse DEF Shape, TypeOK, PlanNodes
  <1>2. /\ e = [d EXCEPT !.owner = w, !.live = TRUE,
                         !.status = IF @ = "queued" THEN "preparing" ELSE @]
        /\ \A p \in Op : p # o => doc'[p] = doc[p]
        /\ Go(w, o, q)
    BY <1>1 DEF Claim
  <1>3. e.owner = w /\ e.node = d.node /\ e.status \in Active
    BY <1>1, <1>2 DEF Claim, Document, Active
  <1>4. /\ run'[w][o] = q
        /\ \A v \in Worker, p \in Op : v # w \/ p # o => run'[v][p] = run[v][p]
    BY <1>1, <1>2 DEF Go
  <1>5. RunRecorded(o, e, q)
    <2>1. /\ q.pc = "lock" /\ ~q.bad
          /\ \/ /\ q.next = "prepare"
                /\ \A n \in PlanNodes(o) : d.node[n] \notin Dirty
             \/ /\ q.next \in Backward
                /\ q.todo = Reverse(Plan[o])
      BY DEF AfterLocks, Idle, Backward
    <2>2. CASE q.next = "prepare" /\ \A n \in PlanNodes(o) : d.node[n] \notin Dirty
      BY <1>3, <2>1, <2>2 DEF RunRecorded, Undoing, Backward, Dirty, Changed
    <2>3. CASE q.next \in Backward /\ q.todo = Reverse(Plan[o])
      <3>1. PlanNodes(o) \ Range(q.todo) = {} /\ q.next # "prepare"
        BY <1>1, <2>3 DEF Backward
      <3> HIDE DEF q
      <3> QED BY <2>1, <3>1 DEF RunRecorded
    <2> QED BY <2>1, <2>2, <2>3
  <1>6. Honest(o, e)
    BY <1>3 DEF Honest, Active
  <1>7. ASSUME NEW v \in Worker, NEW p \in Op, OwnsOp(v, p)'
        PROVE  RunRecorded(p, doc'[p], run'[v][p])
    <2>1. CASE p = o
      <3>1. v = w
        BY <1>3, <1>7, <2>1 DEF OwnsOp
      <3> QED BY <1>4, <1>5, <2>1, <3>1
    <2>2. CASE p # o
      BY <1>2, <1>4, <1>7, <2>2 DEF Record, OwnsOp
    <2> QED BY <2>1, <2>2
  <1>8. \A p \in Op : Honest(p, doc'[p])
    BY <1>2, <1>6 DEF Record
  <1> QED BY <1>7, <1>8 DEF Record

\* Answers, timeouts and crashes change no document, and of a run at most the
\* call it waits for, or all of it.
LEMMA RunsRecord ==
  ASSUME Shape, Record, doc' = doc,
         \A v \in Worker, p \in Op :
            \/ run'[v][p] = Idle
            \/ \E call : run'[v][p] = [run[v][p] EXCEPT !.call = call]
            \/ run'[v][p] = run[v][p]
  PROVE  Record'
  <1>1. run \in [Worker -> [Op -> Run]]
    BY DEF Shape, TypeOK
  <1>2. ASSUME NEW v \in Worker, NEW p \in Op, OwnsOp(v, p)
        PROVE  RunRecorded(p, doc[p], run'[v][p])
    <2>1. RunRecorded(p, doc[p], run[v][p])
      BY <1>2 DEF Record
    <2>2. RunRecorded(p, doc[p], Idle)
      BY DEF RunRecorded, Undoing, Backward, Idle
    <2>3. ASSUME NEW call PROVE RunRecorded(p, doc[p], [run[v][p] EXCEPT !.call = call])
      <3> DEFINE q == [run[v][p] EXCEPT !.call = call]
      <3>1. /\ q.pc = run[v][p].pc /\ q.todo = run[v][p].todo
            /\ q.bad = run[v][p].bad /\ q.next = run[v][p].next
        BY <1>1 DEF Run
      <3> HIDE DEF q
      <3>2. RunRecorded(p, doc[p], q)
        BY <2>1, <3>1 DEF RunRecorded, Undoing
      <3> QED BY <3>2 DEF q
    <2> QED BY <2>1, <2>2, <2>3
  <1> QED BY <1>2 DEF Record, OwnsOp

LEMMA ExecuteRecord ==
  ASSUME Shape, Record, NEW c \in remote, Execute(c)
  PROVE  Record'
  <1>1. run \in [Worker -> [Op -> Run]] /\ doc' = doc
    BY DEF Shape, TypeOK, Execute, store
  <1>2. PICK how : Answer(c, how)
    BY DEF Execute
  <1>3. \A v \in Worker, p \in Op :
           \/ \E call : run'[v][p] = [run[v][p] EXCEPT !.call = call]
           \/ run'[v][p] = run[v][p]
    BY <1>1, <1>2 DEF Answer
  <1> QED BY <1>1, <1>3, RunsRecord

LEMMA TimeOutRecord ==
  ASSUME Shape, Record, NEW w \in Worker, NEW o \in Op, TimeOut(w, o)
  PROVE  Record'
  <1>1. run \in [Worker -> [Op -> Run]] /\ doc' = doc
    BY DEF Shape, TypeOK, TimeOut, store
  <1>2. \A v \in Worker, p \in Op :
           \/ \E call : run'[v][p] = [run[v][p] EXCEPT !.call = call]
           \/ run'[v][p] = run[v][p]
    BY <1>1 DEF TimeOut, Go
  <1> QED BY <1>1, <1>2, RunsRecord

LEMMA CrashRecord ==
  ASSUME Shape, Record, NEW w \in Worker, Crash(w)
  PROVE  Record'
  <1>1. run \in [Worker -> [Op -> Run]] /\ doc' = doc
    BY DEF Shape, TypeOK, Crash, store
  <1>2. \A v \in Worker, p \in Op : run'[v][p] \in {Idle, run[v][p]}
    BY <1>1 DEF Crash
  <1> QED BY <1>1, <1>2, RunsRecord

\* The rest leaves the runs alone, writes no node entry and ends nothing.
LEMMA OthersRecord ==
  ASSUME Shape, Record,
         \/ EditDraft
         \/ \E w \in Worker, o \in Op : Queue(w, o)
         \/ \E o \in Op : ExpireOp(o)
         \/ \E n \in Node : ExpireLock(n)
         \/ UNCHANGED vars
  PROVE  Record'
  <1>1. doc \in [Op -> Document]
    BY DEF Shape, TypeOK
  <1> DEFINE Quiet2(p) == /\ doc'[p].node = doc[p].node
                          /\ doc'[p].owner = doc[p].owner
                          /\ doc'[p].live => doc[p].live
                          /\ \/ doc'[p].status = doc[p].status
                             \/ doc'[p].status = "queued"
  <1>2. run' = run /\ \A p \in Op : Quiet2(p)
    <2>1. CASE EditDraft \/ (\E n \in Node : ExpireLock(n)) \/ UNCHANGED vars
      BY <2>1 DEF EditDraft, ExpireLock, vars
    <2>2. ASSUME NEW w \in Worker, NEW o \in Op, Queue(w, o)
          PROVE  run' = run /\ \A p \in Op : Quiet2(p)
      BY <1>1, <2>2 DEF Queue, Document
    <2>3. ASSUME NEW o \in Op, ExpireOp(o)
          PROVE  run' = run /\ \A p \in Op : Quiet2(p)
      BY <1>1, <2>3 DEF ExpireOp, Document
    <2> QED BY <2>1, <2>2, <2>3
  <1>3. \A v \in Worker, p \in Op : OwnsOp(v, p)' => OwnsOp(v, p)
    BY <1>2 DEF OwnsOp, Active
  <1>4. \A p \in Op : Honest(p, doc'[p])
    BY <1>2 DEF Record, Honest
  <1> QED BY <1>2, <1>3, <1>4 DEF Record, RunRecorded

LEMMA InitRecord == Init => Record
  BY DEF Init, Record, OwnsOp, Honest, Active

LEMMA NextRecord == Shape /\ Shape' /\ Record /\ [Next]_vars => Record'
  <1> SUFFICES ASSUME Shape, Shape', Record, [Next]_vars PROVE Record'
    OBVIOUS
  <1>1. ASSUME NEW w \in Worker, NEW o \in Op, Step(w, o) PROVE Record'
    BY <1>1, StepRecord
  <1>2. ASSUME NEW w \in Worker, NEW o \in Op, Claim(w, o) PROVE Record'
    BY <1>2, ClaimRecord
  <1>3. ASSUME NEW w \in Worker, NEW o \in Op, TimeOut(w, o) PROVE Record'
    BY <1>3, TimeOutRecord
  <1>4. ASSUME NEW c \in remote, Execute(c) PROVE Record'
    BY <1>4, ExecuteRecord
  <1>5. ASSUME NEW w \in Worker, Crash(w) PROVE Record'
    BY <1>5, CrashRecord
  <1> QED BY <1>1, <1>2, <1>3, <1>4, <1>5, OthersRecord DEF Next

\* The document tells the truth about how an operation ended, whichever
\* processes wrote it and whichever of them died or was overtaken meanwhile:
\* succeeded means every node committed, rolled_back that no node is on
\* record as changed, failed that a node is on record as not undone.
THEOREM HonestOutcomeHolds == Spec => []HonestOutcome
  <1>1. Record => HonestOutcome
    BY DEF Record, Honest, HonestOutcome
  <1> QED BY <1>1, InitRecord, NextRecord, ShapeHolds, PTL DEF Spec

-----------------------------------------------------------------------------
(***************************************************************************)
(* Order.  ReverseOrder speaks of the entries alone, but processes take    *)
(* turns at writing them.  It holds because the owning run has the nodes   *)
(* still committed ahead, on its list, of every node that precedes them in *)
(* the plan, and because no entry is rolled back before the document is.   *)
(***************************************************************************)
PhaseOf(r) == IF r.pc = "lock" THEN r.next ELSE r.pc

\* The run r is in the phase its document d is in.
PhaseAgrees(d, r) ==
    /\ PhaseOf(r) \in {"prepare", "discard", "seal"} => d.status = "preparing"
    /\ PhaseOf(r) \in {"commit", "verify", "finalize"} => d.status = "committing"
    /\ PhaseOf(r) = "undo" => d.status = IF r.retry THEN "preparing" ELSE "rolling_back"
    /\ PhaseOf(r) \notin {"undo", "release", "idle"} => ~r.retry

\* The number of nodes a run r of o has committed and verified.
Behind(o, r) == Len(Plan[o]) - Len(r.todo)

\* A committing run works off the plan: nothing after its node is committed.
ForwardOrdered(o, d, r) ==
    r.pc \in {"commit", "verify"} =>
        /\ \A k \in DOMAIN r.todo : r.todo[k] = Plan[o][Behind(o, r) + k]
        /\ \A j \in DOMAIN Plan[o] :
              j > Behind(o, r) + (IF r.pc = "verify" THEN 1 ELSE 0)
                 => d.node[Plan[o][j]] # "committed"

\* In the list todo the committed nodes come in reverse plan order, before all
\* that precede them in the plan.
Ranked(o, d, todo) ==
    \A k \in DOMAIN todo, i \in DOMAIN Plan[o], j \in DOMAIN Plan[o] :
        todo[k] = Plan[o][i] /\ i < j /\ d.node[Plan[o][j]] = "committed"
           => \E m \in 1 .. k - 1 : todo[m] = Plan[o][j]

RunOrdered(o, d, r) ==
    /\ PhaseAgrees(d, r)
    /\ ForwardOrdered(o, d, r)
    /\ Undoing(r) => Ranked(o, d, r.todo)

DocOrdered(o, d) ==
    /\ d.status \notin {"rolling_back", "rolled_back", "failed"}
          => \A n \in PlanNodes(o) : d.node[n] # "rolled_back"
    /\ \A i \in DOMAIN Plan[o], j \in DOMAIN Plan[o] :
          i < j /\ d.node[Plan[o][i]] = "rolled_back"
             => d.node[Plan[o][j]] # "committed"

Ordered ==
    /\ \A w \in Worker, o \in Op : OwnsOp(w, o) => RunOrdered(o, doc[o], run[w][o])
    /\ \A o \in Op : DocOrdered(o, doc[o])

-----------------------------------------------------------------------------
\* The whole plan backwards.
LEMMA ReverseRanked ==
  ASSUME NEW o \in Op, NEW d
  PROVE  Ranked(o, d, Reverse(Plan[o]))
  <1> DEFINE p == Plan[o]
             t == Reverse(p)
  <1>1. p \in Seq(Node) /\ IsInjective(p)
    BY PlanAssumption
  <1>2. /\ Len(p) \in Nat /\ DOMAIN p = 1 .. Len(p) /\ DOMAIN t = 1 .. Len(p)
        /\ \A k \in 1 .. Len(p) : t[k] = p[Len(p) - k + 1]
    BY <1>1 DEF Reverse
  <1> HIDE DEF p, t
  <1>3. ASSUME NEW k \in DOMAIN t, NEW i \in DOMAIN p, NEW j \in DOMAIN p,
               t[k] = p[i], i < j
        PROVE  \E m \in 1 .. k - 1 : t[m] = p[j]
    <2>1. Len(p) - k + 1 \in DOMAIN p
      BY <1>2
    <2>2. i = Len(p) - k + 1
      BY <1>1, <1>2, <1>3, <2>1 DEF IsInjective
    <2>3. Len(p) - j + 1 \in 1 .. k - 1 /\ Len(p) - j + 1 \in 1 .. Len(p)
      BY <1>2, <1>3, <2>2
    <2>4. Len(p) - (Len(p) - j + 1) + 1 = j
      BY <1>2
    <2> QED BY <1>2, <2>3, <2>4
  <1> QED BY <1>3 DEF Ranked, t, p

\* The order a failed forward pass undoes in, if what it calls untouched is
\* not committed.
LEMMA UndoOrderRanked ==
  ASSUME NEW o \in Op, NEW d, NEW u \in 0 .. Len(Plan[o]),
         \A j \in DOMAIN Plan[o] :
            d.node[Plan[o][j]] = "committed" => j <= Len(Plan[o]) - u
  PROVE  Ranked(o, d, UndoOrder(o, u))
  <1> DEFINE p == Plan[o]
             c == Len(p) - u
             a == SubSeq(p, 1, c)
             b == SubSeq(p, c + 1, Len(p))
             t == UndoOrder(o, u)
  <1>1. p \in Seq(Node) /\ IsInjective(p)
    BY PlanAssumption
  <1>2. /\ Len(p) \in Nat /\ u \in Nat /\ c \in 0 .. Len(p) /\ c + u = Len(p)
        /\ DOMAIN p = 1 .. Len(p)
    BY <1>1
  <1>3. t = Reverse(a) \o Reverse(b)
    BY DEF UndoOrder
  <1>4. \A j \in DOMAIN p : d.node[p[j]] = "committed" => j <= c
    OBVIOUS
  <1> HIDE DEF p, c
  <1>5. /\ a \in Seq(Node) /\ Len(a) = c /\ DOMAIN a = 1 .. c
        /\ b \in Seq(Node) /\ Len(b) = u /\ DOMAIN b = 1 .. u
        /\ \A i \in 1 .. c : a[i] = p[i]
        /\ \A i \in 1 .. u : b[i] = p[c + i]
    BY <1>1, <1>2
  <1> HIDE DEF a, b
  <1>6. /\ Reverse(a) \in Seq(Node) /\ Len(Reverse(a)) = c
        /\ Reverse(b) \in Seq(Node) /\ Len(Reverse(b)) = u
    BY <1>5, SeqReverse
  <1>7. /\ \A k \in 1 .. c : Reverse(a)[k] = p[c - k + 1]
        /\ \A k \in 1 .. u : Reverse(b)[k] = p[c + (u - k + 1)]
    <2>1. \A k \in 1 .. c : c - k + 1 \in 1 .. c
      BY <1>2
    <2>2. \A k \in 1 .. u : u - k + 1 \in 1 .. u
      BY <1>2
    <2>3. /\ \A k \in 1 .. c : Reverse(a)[k] = a[c - k + 1]
          /\ \A k \in 1 .. u : Reverse(b)[k] = b[u - k + 1]
      BY <1>5 DEF Reverse
    <2> QED BY <1>5, <2>1, <2>2, <2>3
  <1>8. /\ DOMAIN t = 1 .. Len(p)
        /\ \A k \in 1 .. c : t[k] = p[c - k + 1]
        /\ \A k \in 1 .. Len(p) : k > c => t[k] = p[Len(p) + c - k + 1]
    <2>1. /\ DOMAIN t = 1 .. c + u
          /\ \A k \in 1 .. c : t[k] = Reverse(a)[k]
      BY <1>2, <1>3, <1>6
    <2>2. ASSUME NEW k \in 1 .. Len(p), k > c
          PROVE  t[k] = p[Len(p) + c - k + 1]
      <3>1. k - c \in 1 .. u /\ c + (u - (k - c) + 1) = Len(p) + c - k + 1
        BY <1>2, <2>2
      <3>2. t[k] = Reverse(b)[k - c]
        BY <1>2, <1>3, <1>6, <2>2
      <3> QED BY <1>7, <3>1, <3>2
    <2> QED BY <1>2, <1>7, <2>1, <2>2
  <1> HIDE DEF t
  <1>9. ASSUME NEW k \in DOMAIN t, NEW i \in DOMAIN p, NEW j \in DOMAIN p,
               t[k] = p[i], i < j, d.node[p[j]] = "committed"
        PROVE  \E m \in 1 .. k - 1 : t[m] = p[j]
    <2>1. j <= c /\ j \in 1 .. Len(p)
      BY <1>2, <1>4, <1>9
    <2>2. c - j + 1 \in 1 .. c /\ t[c - j + 1] = p[j]
      <3>1. c - j + 1 \in 1 .. c /\ c - (c - j + 1) + 1 = j
        BY <1>2, <2>1
      <3> QED BY <1>8, <3>1
    <2>3. CASE k <= c
      <3>1. k \in 1 .. c /\ c - k + 1 \in 1 .. Len(p)
        BY <1>2, <1>8, <2>3
      <3>2. i = c - k + 1
        BY <1>1, <1>2, <1>8, <1>9, <3>1 DEF IsInjective
      <3>3. c - j + 1 \in 1 .. k - 1
        BY <1>2, <1>9, <2>1, <3>1, <3>2
      <3> QED BY <2>2, <3>3
    <2>4. CASE k > c
      <3>1. c - j + 1 \in 1 .. k - 1
        BY <1>2, <1>8, <2>2, <2>4
      <3> QED BY <2>2, <3>1
    <2> QED BY <1>2, <1>8, <2>3, <2>4
  <1> QED BY <1>9 DEF Ranked, p, t

\* A node taken off the list, its entry no longer committed.
LEMMA TailRanked ==
  ASSUME NEW o \in Op, NEW d, NEW e, NEW s \in Seq(Node), s # <<>>,
         Ranked(o, d, s), Plan[o] \in Seq(Node), e.node[Head(s)] # "committed",
         \A n \in PlanNodes(o) : e.node[n] = "committed" => d.node[n] = "committed"
  PROVE  Ranked(o, e, Tail(s))
  <1> DEFINE p == Plan[o]
             t == Tail(s)
  <1>1. /\ Len(s) \in Nat /\ Len(s) >= 1 /\ DOMAIN s = 1 .. Len(s)
        /\ DOMAIN t = 1 .. Len(s) - 1
        /\ \A k \in 1 .. Len(s) - 1 : t[k] = s[k + 1]
        /\ Head(s) = s[1]
        /\ Len(p) \in Nat /\ DOMAIN p = 1 .. Len(p)
    OBVIOUS
  <1>2. \A j \in DOMAIN p : p[j] \in PlanNodes(o)
    BY <1>1 DEF PlanNodes, Range
  <1> HIDE DEF p, t
  <1>3. ASSUME NEW k \in DOMAIN t, NEW i \in DOMAIN p, NEW j \in DOMAIN p,
               t[k] = p[i], i < j, e.node[p[j]] = "committed"
        PROVE  \E m \in 1 .. k - 1 : t[m] = p[j]
    <2>1. k + 1 \in DOMAIN s /\ s[k + 1] = p[i] /\ d.node[p[j]] = "committed"
      BY <1>1, <1>2, <1>3
    <2>2. PICK m \in 1 .. (k + 1) - 1 : s[m] = p[j]
      BY <1>3, <2>1 DEF Ranked, p
    <2>3. m # 1
      BY <1>1, <1>3, <2>2
    <2>4. m - 1 \in 1 .. k - 1 /\ m - 1 \in 1 .. Len(s) - 1 /\ (m - 1) + 1 = m
      BY <1>1, <1>3, <2>2, <2>3
    <2> QED BY <1>1, <2>2, <2>4
  <1> QED BY <1>3 DEF Ranked, p, t

\* The facts every step below starts from.
LEMMA OrderFacts ==
  ASSUME Shape, NEW w \in Worker, NEW o \in Op
  PROVE  /\ run[w][o] \in Run /\ RunShape(o, run[w][o])
         /\ doc \in [Op -> Document] /\ run \in [Worker -> [Op -> Run]]
         /\ Plan[o] \in Seq(Node) /\ IsInjective(Plan[o])
         /\ DOMAIN Plan[o] = 1 .. Len(Plan[o]) /\ Len(Plan[o]) \in Nat
         /\ PlanNodes(o) \subseteq Node
         /\ \A j \in DOMAIN Plan[o] : Plan[o][j] \in PlanNodes(o)
         /\ \A s : Go(w, o, s) => run'[w][o] = s
  <1>1. /\ run[w][o] \in Run /\ RunShape(o, run[w][o])
        /\ doc \in [Op -> Document] /\ run \in [Worker -> [Op -> Run]]
        /\ Plan[o] \in Seq(Node) /\ IsInjective(Plan[o])
    BY RunFacts DEF Shape, TypeOK
  <1>2. \A s : Go(w, o, s) => run'[w][o] = s
    BY <1>1 DEF Go
  <1> QED BY <1>1, <1>2 DEF PlanNodes, Range

\* Forward: prepare, seal.
LEMMA PrepareOrdered ==
  ASSUME Shape, NEW w \in Worker, NEW o \in Op, OwnsOp(w, o),
         RunRecorded(o, doc[o], run[w][o]), RunOrdered(o, doc[o], run[w][o]),
         DocOrdered(o, doc[o]),
         Prepared(w, o) \/ PrepareRejected(w, o) \/ PrepareFailed(w, o) \/ Seal(w, o)
  PROVE  RunOrdered(o, doc'[o], run'[w][o]) /\ DocOrdered(o, doc'[o])
  <1> DEFINE r == run[w][o]
             q == run'[w][o]
             d == doc[o]
             e == doc'[o]
  <1>1. /\ r \in Run /\ RunShape(o, r) /\ doc \in [Op -> Document]
        /\ Plan[o] \in Seq(Node) /\ PlanNodes(o) \subseteq Node
        /\ \A j \in DOMAIN Plan[o] : Plan[o][j] \in PlanNodes(o)
        /\ \A s : Go(w, o, s) => q = s
    BY OrderFacts
  <1>2. r.pc \in {"prepare", "discard", "seal"} /\ PhaseOf(r) = r.pc
    BY DEF Prepared, PrepareRejected, PrepareFailed, Seal, PhaseOf
  <1>3. d.status = "preparing" /\ ~r.retry
    BY <1>2 DEF RunOrdered, PhaseAgrees
  <1>4. \A n \in PlanNodes(o) : d.node[n] \notin Changed /\ d.node[n] # "rolled_back"
    BY <1>2, <1>3 DEF RunRecorded, DocOrdered
  <1>5. /\ e.status \in {"preparing", "committing"}
        /\ \A n \in PlanNodes(o) : e.node[n] \notin {"committed", "rolled_back"}
    <2>1. CASE doc' = doc
      BY <1>3, <1>4, <2>1 DEF Changed
    <2>2. CASE RecordNode(o, Head(r.todo), "prepared")
      <3>1. "prepared" \in NodeState
        BY DEF NodeState
      <3> QED BY <1>1, <1>3, <1>4, <2>2, <3>1, RecordFacts DEF Changed
    <2>3. CASE doc' = [doc EXCEPT ![o].status = "committing"]
      <3>1. e.status = "committing" /\ e.node = d.node
        BY <1>1, <2>3 DEF Document
      <3> QED BY <1>4, <3>1 DEF Changed
    <2> QED BY <2>1, <2>2, <2>3 DEF Prepared, PrepareRejected, PrepareFailed, Seal, store
  <1>6. DocOrdered(o, e)
    BY <1>1, <1>5 DEF DocOrdered
  <1>7. \A s : Ranked(o, e, s)
    BY <1>1, <1>5 DEF Ranked
  <1>8. CASE Seal(w, o)
    <2>1. /\ e.status = "committing"
          /\ q = [r EXCEPT !.pc = "commit", !.todo = Plan[o]]
      BY <1>1, <1>8 DEF Seal, Document
    <2>2. q.pc = "commit" /\ q.todo = Plan[o] /\ q.retry = r.retry
      BY <1>1, <2>1 DEF Run
    <2>3. PhaseAgrees(e, q)
      BY <1>3, <2>1, <2>2 DEF PhaseAgrees, PhaseOf
    <2>4. Behind(o, q) = 0 /\ \A k \in DOMAIN q.todo : q.todo[k] = Plan[o][0 + k]
      BY <1>1, <2>2 DEF Behind
    <2>5. ForwardOrdered(o, e, q)
      BY <1>1, <1>5, <2>2, <2>4 DEF ForwardOrdered
    <2> QED BY <1>6, <1>7, <2>3, <2>5 DEF RunOrdered
  <1>9. CASE Prepared(w, o) \/ PrepareRejected(w, o) \/ PrepareFailed(w, o)
    <2>1. /\ q.pc \in {"prepare", "seal", "discard", "revoke"}
          /\ q.retry = r.retry
      <3>1. CASE Prepared(w, o)
        <4>1. q = [r EXCEPT !.call = "none", !.todo = Tail(r.todo),
                            !.pc = IF Tail(r.todo) = <<>> THEN "seal" ELSE @]
          BY <1>1, <3>1 DEF Prepared
        <4> QED BY <1>1, <1>2, <4>1 DEF Run
      <3>2. CASE PrepareRejected(w, o)
        <4>1. q = [r EXCEPT !.pc = "discard", !.call = "none"]
          BY <1>1, <3>2 DEF PrepareRejected
        <4> QED BY <1>1, <4>1 DEF Run
      <3>3. CASE PrepareFailed(w, o)
        <4>1. \E back : q = [r EXCEPT !.pc = "revoke", !.call = "none", !.todo = back]
          BY <1>1, <3>3 DEF PrepareFailed
        <4> QED BY <1>1, <4>1 DEF Run
      <3> QED BY <1>9, <3>1, <3>2, <3>3
    <2>2. e.status = d.status
      <3>1. doc' = doc \/ RecordNode(o, Head(r.todo), "prepared")
        BY <1>9 DEF Prepared, PrepareRejected, PrepareFailed, store
      <3> QED BY <1>1, <3>1, RecordFacts DEF NodeState
    <2>3. PhaseAgrees(e, q)
      BY <1>3, <2>1, <2>2 DEF PhaseAgrees, PhaseOf
    <2> QED BY <1>6, <1>7, <2>1, <2>3 DEF RunOrdered, ForwardOrdered
  <1> QED BY <1>8, <1>9

\* Forward: commit and verify.  Nothing of the document is rolled back yet.
LEMMA CommitOrdered ==
  ASSUME Shape, NEW w \in Worker, NEW o \in Op, OwnsOp(w, o),
         RunOrdered(o, doc[o], run[w][o]), DocOrdered(o, doc[o]),
         \/ Committed(w, o) \/ Verified(w, o) \/ CommitFailed(w, o)
         \/ FinalizeRejected(w, o)
  PROVE  RunOrdered(o, doc'[o], run'[w][o]) /\ DocOrdered(o, doc'[o])
  <1> DEFINE r == run[w][o]
             q == run'[w][o]
             d == doc[o]
             e == doc'[o]
             p == Plan[o]
  <1>1. /\ r \in Run /\ RunShape(o, r) /\ doc \in [Op -> Document]
        /\ p \in Seq(Node) /\ IsInjective(p) /\ PlanNodes(o) \subseteq Node
        /\ DOMAIN p = 1 .. Len(p) /\ Len(p) \in Nat
        /\ \A j \in DOMAIN p : p[j] \in PlanNodes(o)
        /\ \A s : Go(w, o, s) => q = s
    BY OrderFacts
  <1>2. r.pc \in {"commit", "verify", "finalize"} /\ PhaseOf(r) = r.pc
    BY DEF Committed, Verified, CommitFailed, FinalizeRejected, PhaseOf
  <1>3. d.status = "committing" /\ ~r.retry
    BY <1>2 DEF RunOrdered, PhaseAgrees
  <1>4. \A n \in PlanNodes(o) : d.node[n] # "rolled_back"
    BY <1>3 DEF DocOrdered
  <1>5. ForwardOrdered(o, d, r)
    BY DEF RunOrdered
  <1>6. r.pc \in {"commit", "verify"} =>
           /\ r.todo \in Seq(Node) /\ Len(r.todo) \in 1 .. Len(p)
           /\ DOMAIN r.todo = 1 .. Len(r.todo) /\ Head(r.todo) = r.todo[1]
           /\ Behind(o, r) \in 0 .. Len(p) - 1 /\ Behind(o, r) + 1 \in DOMAIN p
           /\ Behind(o, r) + Len(r.todo) = Len(p)
           /\ Head(r.todo) = p[Behind(o, r) + 1]
    <2> SUFFICES ASSUME r.pc \in {"commit", "verify"}
                 PROVE  /\ r.todo \in Seq(Node) /\ Len(r.todo) \in 1 .. Len(p)
                        /\ DOMAIN r.todo = 1 .. Len(r.todo) /\ Head(r.todo) = r.todo[1]
                        /\ Behind(o, r) \in 0 .. Len(p) - 1 /\ Behind(o, r) + 1 \in DOMAIN p
                        /\ Behind(o, r) + Len(r.todo) = Len(p)
                        /\ Head(r.todo) = p[Behind(o, r) + 1]
      OBVIOUS
    <2>1. r.todo \in Seq(Node) /\ r.todo # <<>> /\ Len(r.todo) <= Len(p)
      BY <1>1 DEF Run, RunShape, Forward
    <2>2. /\ Len(r.todo) \in 1 .. Len(p) /\ DOMAIN r.todo = 1 .. Len(r.todo)
          /\ Head(r.todo) = r.todo[1]
      BY <1>1, <2>1
    <2>3. /\ Behind(o, r) \in 0 .. Len(p) - 1
          /\ Behind(o, r) + Len(r.todo) = Len(p)
      <3>1. \A x \in Nat : \A y \in 1 .. x : x - y \in 0 .. x - 1 /\ (x - y) + y = x
        OBVIOUS
      <3> QED BY <1>1, <2>2, <3>1 DEF Behind
    <2>4. 1 \in DOMAIN r.todo /\ Behind(o, r) + 1 \in DOMAIN p
      BY <1>1, <2>2, <2>3
    <2> QED BY <1>5, <2>1, <2>2, <2>3, <2>4 DEF ForwardOrdered
  <1> HIDE DEF p
  <1>7. ASSUME doc' = doc, q.pc = "revoke", q.retry = r.retry,
               NEW u \in 0 .. Len(Plan[o]), q.todo = UndoOrder(o, u),
               \A j \in DOMAIN Plan[o] :
                  d.node[Plan[o][j]] = "committed" => j <= Len(Plan[o]) - u
        PROVE  RunOrdered(o, e, q) /\ DocOrdered(o, e)
    <2>1. Ranked(o, e, q.todo)
      BY <1>7, UndoOrderRanked
    <2> QED BY <1>3, <1>7, <2>1 DEF RunOrdered, PhaseAgrees, PhaseOf, ForwardOrdered
  <1>8. CASE Committed(w, o)
    <2>1. /\ r.pc = "commit" /\ RecordNode(o, Head(r.todo), "committed")
          /\ q = [r EXCEPT !.pc = "verify", !.call = "none"]
      BY <1>1, <1>8 DEF Committed
    <2>2. q.pc = "verify" /\ q.todo = r.todo /\ q.retry = r.retry
      BY <1>1, <2>1 DEF Run
    <2>3. /\ e.status = d.status
          /\ \A m \in Node : e.node[m] = IF m = Head(r.todo) THEN "committed" ELSE d.node[m]
      BY <1>1, <2>1, RecordFacts DEF NodeState
    <2>4. \A n \in PlanNodes(o) : e.node[n] # "rolled_back"
      BY <1>1, <1>4, <2>3
    <2>5. DocOrdered(o, e)
      BY <1>1, <2>4 DEF DocOrdered, p
    <2>6. PhaseAgrees(e, q)
      BY <1>3, <2>2, <2>3 DEF PhaseAgrees, PhaseOf
    <2>7. Behind(o, q) = Behind(o, r)
      BY <2>2 DEF Behind
    <2>8. ASSUME NEW j \in DOMAIN p, j > Behind(o, r) + 1
          PROVE  e.node[p[j]] # "committed"
      <3>1. p[j] # Head(r.todo)
        BY <1>1, <1>6, <2>1, <2>8 DEF IsInjective
      <3>2. j > Behind(o, r) + 0
        BY <1>1, <1>6, <2>1, <2>8
      <3>3. d.node[p[j]] # "committed"
        BY <1>5, <2>1, <3>2 DEF ForwardOrdered, p
      <3> QED BY <1>1, <2>3, <3>1, <3>3
    <2>9. ForwardOrdered(o, e, q)
      BY <1>5, <2>1, <2>2, <2>7, <2>8 DEF ForwardOrdered, p
    <2> QED BY <2>2, <2>5, <2>6, <2>9 DEF RunOrdered, Undoing, Backward
  <1>9. CASE Verified(w, o)
    <2>1. /\ r.pc = "verify" /\ doc' = doc
          /\ q = [r EXCEPT !.call = "none", !.todo = Tail(r.todo),
                           !.pc = IF Tail(r.todo) = <<>> THEN "finalize" ELSE "commit"]
      BY <1>1, <1>9 DEF Verified, store
    <2>2. q.pc \in {"commit", "finalize"} /\ q.todo = Tail(r.todo) /\ q.retry = r.retry
      BY <1>1, <2>1 DEF Run
    <2>3. /\ Len(q.todo) = Len(r.todo) - 1 /\ DOMAIN q.todo = 1 .. Len(r.todo) - 1
          /\ \A k \in 1 .. Len(r.todo) - 1 : q.todo[k] = r.todo[k + 1]
      BY <1>6, <2>1, <2>2
    <2>4. Behind(o, q) = Behind(o, r) + 1
      <3>1. \A x \in Nat : \A y \in 1 .. x : x - (y - 1) = (x - y) + 1
        OBVIOUS
      <3> QED BY <1>1, <1>6, <2>1, <2>3, <3>1 DEF Behind, p
    <2>5. ASSUME NEW k \in DOMAIN q.todo
          PROVE  q.todo[k] = p[Behind(o, q) + k]
      <3>1. /\ k + 1 \in DOMAIN r.todo
            /\ Behind(o, r) + (k + 1) = Behind(o, q) + k
        <4>1. /\ Len(r.todo) \in Nat /\ Behind(o, r) \in Nat
              /\ DOMAIN r.todo = 1 .. Len(r.todo)
          <5>1. \A n \in Nat : \A l \in 1 .. n, b \in 0 .. n - 1 : l \in Nat /\ b \in Nat
            OBVIOUS
          <5> QED BY <1>1, <1>6, <2>1, <5>1
        <4>2. k \in 1 .. Len(r.todo) - 1
          BY <2>3
        <4>3. \A b, l \in Nat : \A i \in 1 .. l - 1 :
                 i + 1 \in 1 .. l /\ b + (i + 1) = (b + 1) + i
          OBVIOUS
        <4> QED BY <2>4, <4>1, <4>2, <4>3
      <3>2. r.todo[k + 1] = p[Behind(o, r) + (k + 1)]
        BY <1>5, <2>1, <3>1 DEF ForwardOrdered, p
      <3> QED BY <2>3, <3>1, <3>2
    <2>6. \A j \in DOMAIN p : j > Behind(o, r) + 1 => d.node[p[j]] # "committed"
      BY <1>5, <2>1 DEF ForwardOrdered, p
    <2>7. q.pc = "commit" => ForwardOrdered(o, e, q)
      <3>1. Behind(o, q) + 0 = Behind(o, r) + 1
        BY <1>6, <2>1, <2>4
      <3> QED BY <2>1, <2>5, <2>6, <3>1 DEF ForwardOrdered, p
    <2>8. ForwardOrdered(o, e, q)
      BY <2>2, <2>7 DEF ForwardOrdered
    <2>9. PhaseAgrees(e, q)
      BY <1>3, <2>1, <2>2 DEF PhaseAgrees, PhaseOf
    <2> QED BY <2>1, <2>2, <2>8, <2>9 DEF RunOrdered, Undoing, Backward
  <1>10. CASE CommitFailed(w, o)
    <2>1. /\ r.pc \in {"commit", "verify"} /\ doc' = doc
          /\ q = [r EXCEPT !.pc = "revoke", !.call = "none",
                           !.todo = UndoOrder(o, Len(r.todo) - 1)]
      BY <1>1, <1>10 DEF CommitFailed, store
    <2>2. /\ q.pc = "revoke" /\ q.todo = UndoOrder(o, Len(r.todo) - 1)
          /\ q.retry = r.retry
      BY <1>1, <2>1 DEF Run
    <2>3. Len(r.todo) - 1 \in 0 .. Len(p)
      BY <1>1, <1>6, <2>1
    <2>4. ASSUME NEW j \in DOMAIN p, d.node[p[j]] = "committed"
          PROVE  j <= Len(p) - (Len(r.todo) - 1)
      <3>1. ~(j > Behind(o, r) + (IF r.pc = "verify" THEN 1 ELSE 0))
        BY <1>5, <2>1, <2>4 DEF ForwardOrdered, p
      <3>2. j <= Behind(o, r) + 1
        BY <1>1, <1>6, <2>1, <2>4, <3>1
      <3>3. /\ Behind(o, r) \in Nat /\ Len(r.todo) \in Nat /\ j \in Nat
            /\ Behind(o, r) + Len(r.todo) = Len(p)
        BY <1>1, <1>6, <2>1, <2>4
      <3>4. \A b, l, n, i \in Nat : b + l = n /\ i <= b + 1 => i <= n - (l - 1)
        OBVIOUS
      <3> QED BY <1>1, <3>2, <3>3, <3>4
    <2> QED BY <1>7, <2>1, <2>2, <2>3, <2>4 DEF p
  <1>11. CASE FinalizeRejected(w, o)
    <2>1. doc' = doc /\ q = [r EXCEPT !.pc = "revoke", !.todo = UndoOrder(o, 0)]
      BY <1>1, <1>11 DEF FinalizeRejected, store
    <2>2. q.pc = "revoke" /\ q.todo = UndoOrder(o, 0) /\ q.retry = r.retry
      BY <1>1, <2>1 DEF Run
    <2>3. 0 \in 0 .. Len(p) /\ \A j \in DOMAIN p : j <= Len(p) - 0
      BY <1>1
    <2> QED BY <1>7, <2>1, <2>2, <2>3 DEF p
  <1> QED BY <1>8, <1>9, <1>10, <1>11

\* Backward, the ends of the document included.
LEMMA BackwardOrdered ==
  ASSUME Shape, NEW w \in Worker, NEW o \in Op, OwnsOp(w, o),
         RunRecorded(o, doc[o], run[w][o]), RunOrdered(o, doc[o], run[w][o]),
         DocOrdered(o, doc[o]),
         Revoke(w, o) \/ Undone(w, o) \/ Skip(w, o) \/ Retry(w, o)
  PROVE  RunOrdered(o, doc'[o], run'[w][o]) /\ DocOrdered(o, doc'[o])
  <1> DEFINE r == run[w][o]
             q == run'[w][o]
             d == doc[o]
             e == doc'[o]
             p == Plan[o]
  <1>1. /\ r \in Run /\ RunShape(o, r) /\ doc \in [Op -> Document]
        /\ p \in Seq(Node) /\ IsInjective(p) /\ PlanNodes(o) \subseteq Node
        /\ DOMAIN p = 1 .. Len(p) /\ Len(p) \in Nat
        /\ \A j \in DOMAIN p : p[j] \in PlanNodes(o)
        /\ \A s : Go(w, o, s) => q = s
    BY OrderFacts
  <1>2. r.pc \in Backward /\ PhaseOf(r) = r.pc /\ Undoing(r)
    BY DEF Revoke, Undone, Skip, Retry, PhaseOf, Backward, Undoing
  <1>3. Ranked(o, d, r.todo) /\ PhaseAgrees(d, r) /\ r.todo \in Seq(Node)
    BY <1>1, <1>2 DEF RunOrdered, Run
  <1>4. CASE Revoke(w, o)
    <2>1. /\ r.pc = "revoke" /\ q = [r EXCEPT !.pc = "undo"]
          /\ doc' = [doc EXCEPT ![o].status = "rolling_back"]
      BY <1>1, <1>4 DEF Revoke
    <2>2. /\ q.pc = "undo" /\ q.todo = r.todo /\ q.retry = r.retry
          /\ e.status = "rolling_back" /\ e.node = d.node
      BY <1>1, <2>1 DEF Run, Document
    <2>3. PhaseAgrees(e, q)
      BY <1>2, <1>3, <2>1, <2>2 DEF PhaseAgrees, PhaseOf
    <2>4. Ranked(o, e, q.todo) /\ DocOrdered(o, e)
      BY <1>3, <2>2 DEF Ranked, DocOrdered
    <2> QED BY <2>2, <2>3, <2>4 DEF RunOrdered, ForwardOrdered
  <1>5. CASE Undone(w, o)
    <2> DEFINE state == IF r.call = "ok"
                        THEN IF r.retry THEN "pending" ELSE "rolled_back"
                        ELSE "failed"
    <2>1. /\ r.pc = "undo" /\ RecordNode(o, Head(r.todo), state)
          /\ q = [r EXCEPT !.call = "none", !.todo = Tail(r.todo),
                           !.bad = @ \/ r.call # "ok"]
          /\ r.todo # <<>>
      BY <1>1, <1>5 DEF Undone, RunShape
    <2>2. q.pc = "undo" /\ q.todo = Tail(r.todo) /\ q.retry = r.retry
      BY <1>1, <2>1 DEF Run
    <2>3. /\ e.status = d.status
          /\ \A m \in Node : e.node[m] = IF m = Head(r.todo) THEN state ELSE d.node[m]
      <3>1. state \in NodeState
        BY DEF NodeState
      <3> QED BY <1>1, <2>1, <3>1, RecordFacts
    <2>4. d.status = IF r.retry THEN "preparing" ELSE "rolling_back"
      BY <1>2, <1>3, <2>1 DEF PhaseAgrees
    <2>5. state # "committed" /\ (r.retry => state # "rolled_back")
      OBVIOUS
    <2> HIDE DEF state
    <2>6. Head(r.todo) \in Node
      BY <1>3, <2>1
    <2>7. \A n \in PlanNodes(o) : e.node[n] = "committed" => d.node[n] = "committed"
      BY <1>1, <2>3, <2>5
    <2>8. Ranked(o, e, q.todo)
      BY <1>1, <1>3, <2>1, <2>2, <2>3, <2>5, <2>6, <2>7, TailRanked
    <2>9. PhaseAgrees(e, q)
      BY <1>2, <1>3, <2>1, <2>2, <2>3 DEF PhaseAgrees, PhaseOf
    <2>10. ASSUME NEW i \in DOMAIN p, NEW j \in DOMAIN p, i < j,
                  e.node[p[i]] = "rolled_back", e.node[p[j]] = "committed"
           PROVE  FALSE
      <3>1. d.node[p[j]] = "committed"
        BY <1>1, <2>7, <2>10
      <3>2. CASE p[i] = Head(r.todo)
        <4>1. 1 \in DOMAIN r.todo /\ r.todo[1] = p[i]
          BY <1>3, <2>1, <3>2
        <4> QED BY <1>3, <2>10, <3>1, <4>1 DEF Ranked, p
      <3>3. CASE p[i] # Head(r.todo)
        <4>1. d.node[p[i]] = "rolled_back"
          BY <1>1, <2>3, <2>10, <3>3
        <4> QED BY <2>10, <3>1, <4>1 DEF DocOrdered, p
      <3> QED BY <3>2, <3>3
    <2>11. r.retry => \A n \in PlanNodes(o) : e.node[n] # "rolled_back"
      BY <1>1, <2>3, <2>4, <2>5 DEF DocOrdered
    <2>12. DocOrdered(o, e)
      BY <2>3, <2>4, <2>10, <2>11 DEF DocOrdered, p
    <2> QED BY <2>2, <2>8, <2>9, <2>12 DEF RunOrdered, ForwardOrdered
  <1>6. CASE Skip(w, o)
    <2>1. /\ r.pc = "undo" /\ r.todo # <<>> /\ doc' = doc
          /\ d.node[Head(r.todo)] \notin Dirty
          /\ q = [r EXCEPT !.todo = Tail(r.todo)]
      BY <1>1, <1>6 DEF Skip, store
    <2>2. q.pc = "undo" /\ q.todo = Tail(r.todo) /\ q.retry = r.retry
      BY <1>1, <2>1 DEF Run
    <2>3. Ranked(o, e, q.todo)
      <3>1. e.node[Head(r.todo)] # "committed"
        BY <2>1 DEF Dirty
      <3> QED BY <1>1, <1>3, <2>1, <2>2, <3>1, TailRanked
    <2>4. PhaseAgrees(e, q)
      BY <1>2, <1>3, <2>1, <2>2 DEF PhaseAgrees, PhaseOf
    <2> QED BY <2>1, <2>2, <2>3, <2>4 DEF RunOrdered, ForwardOrdered
  <1>7. CASE Retry(w, o)
    <2>1. /\ r.pc = "undo" /\ r.retry /\ doc' = doc
          /\ q = [r EXCEPT !.pc = "prepare", !.todo = Plan[o], !.retry = FALSE]
      BY <1>1, <1>7 DEF Retry, store
    <2>2. q.pc = "prepare" /\ ~q.retry
      BY <1>1, <2>1 DEF Run
    <2>3. d.status = "preparing"
      BY <1>2, <1>3, <2>1 DEF PhaseAgrees
    <2>4. PhaseAgrees(e, q)
      BY <2>1, <2>2, <2>3 DEF PhaseAgrees, PhaseOf
    <2> QED BY <2>1, <2>2, <2>4 DEF RunOrdered, ForwardOrdered, Undoing, Backward
  <1> QED BY <1>4, <1>5, <1>6, <1>7

\* Locks, commands and the end of the run: the document stays.
LEMMA AsideOrdered ==
  ASSUME Shape, NEW w \in Worker, NEW o \in Op,
         RunOrdered(o, doc[o], run[w][o]),
         \/ TakeLock(w, o) \/ LocksTaken(w, o) \/ Send(w, o)
         \/ Abort(w, o) \/ ReleaseLock(w, o) \/ EndRun(w, o)
  PROVE  doc' = doc /\ RunOrdered(o, doc[o], run'[w][o])
  <1> DEFINE r == run[w][o]
             q == run'[w][o]
             d == doc[o]
  <1>1. r \in Run /\ RunShape(o, r) /\ \A s : Go(w, o, s) => q = s
    BY OrderFacts
  <1>2. doc' = doc
    BY DEF TakeLock, LocksTaken, Send, Abort, ReleaseLock, EndRun, store
  <1>3. ASSUME q.pc = r.pc, q.todo = r.todo, q.next = r.next, q.retry = r.retry
        PROVE  RunOrdered(o, d, q)
    BY <1>3 DEF RunOrdered, PhaseAgrees, PhaseOf, ForwardOrdered, Behind, Undoing
  <1>4. ASSUME q.pc \in {"release", "idle"} PROVE RunOrdered(o, d, q)
    BY <1>4 DEF RunOrdered, PhaseAgrees, PhaseOf, ForwardOrdered, Undoing, Backward
  <1>5. CASE TakeLock(w, o)
    <2>1. \/ \E n : q = [r EXCEPT !.held = @ \cup {n}]
          \/ q = [r EXCEPT !.pc = "release"]
      BY <1>1, <1>5 DEF TakeLock
    <2> QED BY <1>1, <1>2, <1>3, <1>4, <2>1 DEF Run
  <1>6. CASE LocksTaken(w, o)
    <2>1. r.pc = "lock" /\ q = [r EXCEPT !.pc = r.next]
      BY <1>1, <1>6 DEF LocksTaken
    <2>2. /\ q.pc = r.next /\ q.todo = r.todo /\ q.retry = r.retry
          /\ q.pc \in {"prepare"} \cup Backward
      BY <1>1, <2>1 DEF Run, RunShape
    <2>3. PhaseOf(q) = PhaseOf(r) /\ (Undoing(q) => Undoing(r))
      BY <2>1, <2>2 DEF PhaseOf, Backward, Undoing
    <2>4. PhaseAgrees(d, q)
      BY <2>2, <2>3 DEF RunOrdered, PhaseAgrees
    <2> QED BY <1>2, <2>2, <2>3, <2>4 DEF RunOrdered, ForwardOrdered, Backward
  <1>7. CASE Send(w, o)
    <2>1. \E call : q = [r EXCEPT !.call = call]
      BY <1>1, <1>7 DEF Send
    <2> QED BY <1>1, <1>2, <1>3, <2>1 DEF Run
  <1>8. CASE Abort(w, o)
    <2>1. q = [r EXCEPT !.pc = "release", !.call = "none"]
      BY <1>1, <1>8 DEF Abort
    <2>2. q.pc = "release"
      BY <1>1, <2>1 DEF Run
    <2> QED BY <1>2, <1>4, <2>2
  <1>9. CASE ReleaseLock(w, o)
    <2>1. r.pc = "release" /\ \E n : q = [r EXCEPT !.held = @ \ {n}]
      BY <1>1, <1>9 DEF ReleaseLock
    <2> QED BY <1>1, <1>2, <1>4, <2>1 DEF Run
  <1>10. CASE EndRun(w, o)
    <2>1. q.pc = "idle"
      BY <1>1, <1>10 DEF EndRun, Idle
    <2> QED BY <1>2, <1>4, <2>1
  <1> QED BY <1>5, <1>6, <1>7, <1>8, <1>9, <1>10

\* A document that ends keeps its entries: a success has none rolled back.
LEMMA EndOrdered ==
  ASSUME Shape, NEW w \in Worker, NEW o \in Op,
         DocOrdered(o, doc[o]), Finalize(w, o) \/ Finish(w, o)
  PROVE  ~OwnsOp(w, o)' /\ DocOrdered(o, doc'[o])
  <1>1. doc \in [Op -> Document]
    BY DEF Shape, TypeOK
  <1>2. /\ doc'[o].node = doc[o].node
        /\ ~doc'[o].live
        /\ \/ doc[o].status = "committing" /\ doc'[o].status = "succeeded"
           \/ doc'[o].status \in {"failed", "rolled_back"}
    BY <1>1 DEF Finalize, Finish, Document
  <1> QED BY <1>2 DEF DocOrdered, OwnsOp

LEMMA StepOrdered ==
  ASSUME Shape, Record, Ordered, NEW w \in Worker, NEW o \in Op, Step(w, o)
  PROVE  Ordered'
  <1>1. \A v \in Worker, p \in Op : v # w \/ p # o => run'[v][p] = run[v][p]
    BY OtherRunsStay
  <1>2. CASE ~OwnsOp(w, o)
    <2>1. doc' = doc
      BY <1>2, StepWrites
    <2> QED BY <1>1, <1>2, <2>1 DEF Ordered, OwnsOp
  <1>3. CASE OwnsOp(w, o)
    <2>1. /\ RunOrdered(o, doc[o], run[w][o]) /\ DocOrdered(o, doc[o])
          /\ RunRecorded(o, doc[o], run[w][o])
      BY <1>3 DEF Ordered, Record
    <2>2. /\ doc'[o].owner = doc[o].owner
          /\ \A p \in Op : p # o => doc'[p] = doc[p]
      BY StepWrites
    <2>3. DocOrdered(o, doc'[o]) /\ (OwnsOp(w, o)' => RunOrdered(o, doc'[o], run'[w][o]))
      <3>1. CASE Finalize(w, o) \/ Finish(w, o)
        BY <2>1, <3>1, EndOrdered
      <3>2. CASE \/ TakeLock(w, o) \/ LocksTaken(w, o) \/ Send(w, o)
                 \/ Abort(w, o) \/ ReleaseLock(w, o) \/ EndRun(w, o)
        BY <2>1, <3>2, AsideOrdered
      <3>3. CASE \/ Prepared(w, o) \/ PrepareRejected(w, o) \/ PrepareFailed(w, o)
                 \/ Seal(w, o)
        BY <1>3, <2>1, <3>3, PrepareOrdered
      <3>4. CASE \/ Committed(w, o) \/ Verified(w, o) \/ CommitFailed(w, o)
                 \/ FinalizeRejected(w, o)
        BY <1>3, <2>1, <3>4, CommitOrdered
      <3>5. CASE Revoke(w, o) \/ Undone(w, o) \/ Skip(w, o) \/ Retry(w, o)
        BY <1>3, <2>1, <3>5, BackwardOrdered
      <3> QED BY <3>1, <3>2, <3>3, <3>4, <3>5 DEF Step
    <2>4. ASSUME NEW v \in Worker, NEW p \in Op, OwnsOp(v, p)'
          PROVE  RunOrdered(p, doc'[p], run'[v][p])
      <3>1. CASE p = o
        <4>1. v = w
          BY <1>3, <2>2, <2>4, <3>1 DEF OwnsOp
        <4> QED BY <2>3, <2>4, <3>1, <4>1
      <3>2. CASE p # o
        BY <1>1, <2>2, <2>4, <3>2 DEF Ordered, OwnsOp
      <3> QED BY <3>1, <3>2
    <2>5. \A p \in Op : DocOrdered(p, doc'[p])
      BY <2>2, <2>3 DEF Ordered
    <2> QED BY <2>4, <2>5 DEF Ordered
  <1> QED BY <1>2, <1>3

\* A recovery has the whole plan to undo, last node first.
LEMMA ClaimOrdered ==
  ASSUME Shape, Ordered, NEW w \in Worker, NEW o \in Op, Claim(w, o)
  PROVE  Ordered'
  <1> DEFINE q == AfterLocks(o)
             d == doc[o]
             e == doc'[o]
  <1>1. doc \in [Op -> Document] /\ run \in [Worker -> [Op -> Run]]
    BY DEF Shape, TypeOK
  <1>2. /\ e = [d EXCEPT !.owner = w, !.live = TRUE,
                         !.status = IF @ = "queued" THEN "preparing" ELSE @]
        /\ \A p \in Op : p # o => doc'[p] = doc[p]
        /\ Go(w, o, q)
        /\ d.status \in {"queued"} \cup Active
    BY <1>1 DEF Claim
  <1>3. /\ e.owner = w /\ e.node = d.node
        /\ e.status = IF d.status = "queued" THEN "preparing" ELSE d.status
    BY <1>1, <1>2 DEF Document
  <1>4. /\ run'[w][o] = q
        /\ \A v \in Worker, p \in Op : v # w \/ p # o => run'[v][p] = run[v][p]
    BY <1>1, <1>2 DEF Go
  <1>5. RunOrdered(o, e, q)
    <2>1. /\ q.pc = "lock"
          /\ \/ e.status = "committing" /\ q.next = "revoke" /\ ~q.retry
             \/ e.status = "rolling_back" /\ q.next = "undo" /\ ~q.retry
             \/ e.status = "preparing" /\ q.next = "undo" /\ q.retry
             \/ e.status = "preparing" /\ q.next = "prepare" /\ ~q.retry
          /\ q.next \in Backward => q.todo = Reverse(Plan[o])
      BY <1>2, <1>3 DEF AfterLocks, Idle, Backward, Active
    <2> HIDE DEF q
    <2>2. PhaseAgrees(e, q)
      BY <2>1 DEF PhaseAgrees, PhaseOf
    <2>3. Undoing(q) => Ranked(o, e, q.todo)
      BY <2>1, ReverseRanked DEF Undoing, Backward
    <2> QED BY <2>1, <2>2, <2>3 DEF RunOrdered, ForwardOrdered
  <1>6. DocOrdered(o, e)
    BY <1>2, <1>3 DEF Ordered, DocOrdered
  <1>7. ASSUME NEW v \in Worker, NEW p \in Op, OwnsOp(v, p)'
        PROVE  RunOrdered(p, doc'[p], run'[v][p])
    <2>1. CASE p = o
      <3>1. v = w
        BY <1>3, <1>7, <2>1 DEF OwnsOp
      <3> QED BY <1>4, <1>5, <2>1, <3>1
    <2>2. CASE p # o
      BY <1>2, <1>4, <1>7, <2>2 DEF Ordered, OwnsOp
    <2> QED BY <2>1, <2>2
  <1>8. \A p \in Op : DocOrdered(p, doc'[p])
    BY <1>2, <1>6 DEF Ordered
  <1> QED BY <1>7, <1>8 DEF Ordered

\* Answers, timeouts and crashes.
LEMMA RunsOrdered ==
  ASSUME Shape, Ordered, doc' = doc,
         \A v \in Worker, p \in Op :
            \/ run'[v][p] = Idle
            \/ \E call : run'[v][p] = [run[v][p] EXCEPT !.call = call]
            \/ run'[v][p] = run[v][p]
  PROVE  Ordered'
  <1>1. run \in [Worker -> [Op -> Run]]
    BY DEF Shape, TypeOK
  <1>2. ASSUME NEW v \in Worker, NEW p \in Op, OwnsOp(v, p)
        PROVE  RunOrdered(p, doc[p], run'[v][p])
    <2>1. RunOrdered(p, doc[p], run[v][p])
      BY <1>2 DEF Ordered
    <2>2. RunOrdered(p, doc[p], Idle)
      BY DEF RunOrdered, PhaseAgrees, PhaseOf, ForwardOrdered, Undoing, Backward, Idle
    <2>3. ASSUME NEW call PROVE RunOrdered(p, doc[p], [run[v][p] EXCEPT !.call = call])
      <3> DEFINE q == [run[v][p] EXCEPT !.call = call]
      <3>1. /\ q.pc = run[v][p].pc /\ q.todo = run[v][p].todo
            /\ q.retry = run[v][p].retry /\ q.next = run[v][p].next
        BY <1>1 DEF Run
      <3> HIDE DEF q
      <3>2. RunOrdered(p, doc[p], q)
        BY <2>1, <3>1 DEF RunOrdered, PhaseAgrees, PhaseOf, ForwardOrdered, Behind,
                          Undoing
      <3> QED BY <3>2 DEF q
    <2> QED BY <2>1, <2>2, <2>3
  <1> QED BY <1>2 DEF Ordered, OwnsOp

LEMMA AnswersOrdered ==
  ASSUME Shape, Ordered,
         \/ \E c \in remote : Execute(c)
         \/ \E w \in Worker, o \in Op : TimeOut(w, o)
         \/ \E w \in Worker : Crash(w)
  PROVE  Ordered'
  <1>1. run \in [Worker -> [Op -> Run]]
    BY DEF Shape, TypeOK
  <1>2. ASSUME NEW c \in remote, Execute(c) PROVE Ordered'
    <2>1. PICK how : Answer(c, how)
      BY <1>2 DEF Execute
    <2>2. \A v \in Worker, p \in Op :
             \/ \E call : run'[v][p] = [run[v][p] EXCEPT !.call = call]
             \/ run'[v][p] = run[v][p]
      BY <1>1, <2>1 DEF Answer
    <2>3. doc' = doc
      BY <1>2 DEF Execute, store
    <2> QED BY <2>2, <2>3, RunsOrdered
  <1>3. ASSUME NEW w \in Worker, NEW o \in Op, TimeOut(w, o) PROVE Ordered'
    <2>1. \A v \in Worker, p \in Op :
             \/ \E call : run'[v][p] = [run[v][p] EXCEPT !.call = call]
             \/ run'[v][p] = run[v][p]
      BY <1>1, <1>3 DEF TimeOut, Go
    <2>2. doc' = doc
      BY <1>3 DEF TimeOut, store
    <2> QED BY <2>1, <2>2, RunsOrdered
  <1>4. ASSUME NEW w \in Worker, Crash(w) PROVE Ordered'
    <2>1. doc' = doc /\ \A v \in Worker, p \in Op : run'[v][p] \in {Idle, run[v][p]}
      BY <1>1, <1>4 DEF Crash, store
    <2> QED BY <2>1, RunsOrdered
  <1> QED BY <1>2, <1>3, <1>4

\* Edits, requests and the clock write no node entry.
LEMMA OthersOrdered ==
  ASSUME Shape, Ordered,
         \/ EditDraft
         \/ \E w \in Worker, o \in Op : Queue(w, o)
         \/ \E o \in Op : ExpireOp(o)
         \/ \E n \in Node : ExpireLock(n)
         \/ UNCHANGED vars
  PROVE  Ordered'
  <1> DEFINE Kept(p) == /\ doc'[p].node = doc[p].node
                        /\ doc'[p].owner = doc[p].owner
                        /\ doc'[p].live => doc[p].live
                        /\ \/ doc'[p].status = doc[p].status
                           \/ doc[p].status = "none" /\ doc'[p].status = "queued"
  <1>1. doc \in [Op -> Document]
    BY DEF Shape, TypeOK
  <1>2. run' = run /\ \A p \in Op : Kept(p)
    <2>1. CASE EditDraft \/ (\E n \in Node : ExpireLock(n)) \/ UNCHANGED vars
      BY <2>1 DEF EditDraft, ExpireLock, vars
    <2>2. ASSUME NEW w \in Worker, NEW o \in Op, Queue(w, o)
          PROVE  run' = run /\ \A p \in Op : Kept(p)
      BY <1>1, <2>2 DEF Queue, Document
    <2>3. ASSUME NEW o \in Op, ExpireOp(o)
          PROVE  run' = run /\ \A p \in Op : Kept(p)
      BY <1>1, <2>3 DEF ExpireOp, Document
    <2> QED BY <2>1, <2>2, <2>3
  <1>3. ASSUME NEW v \in Worker, NEW p \in Op, OwnsOp(v, p)'
        PROVE  RunOrdered(p, doc'[p], run'[v][p])
    <2>1. OwnsOp(v, p) /\ doc'[p].status = doc[p].status
      BY <1>2, <1>3 DEF OwnsOp, Active
    <2>2. RunOrdered(p, doc[p], run[v][p])
      BY <2>1 DEF Ordered
    <2> QED BY <1>2, <2>1, <2>2 DEF RunOrdered, PhaseAgrees, ForwardOrdered, Ranked
  <1>4. \A p \in Op : DocOrdered(p, doc'[p])
    BY <1>2 DEF Ordered, DocOrdered
  <1> QED BY <1>3, <1>4 DEF Ordered

LEMMA InitOrdered == Init => Ordered
  <1> SUFFICES ASSUME Init PROVE Ordered
    OBVIOUS
  <1>1. \A w \in Worker, o \in Op : ~OwnsOp(w, o)
    BY DEF Init, OwnsOp, Active
  <1>2. ASSUME NEW o \in Op PROVE DocOrdered(o, doc[o])
    <2>1. \A n \in Node : doc[o].node[n] = "pending"
      BY DEF Init
    <2>2. /\ PlanNodes(o) \subseteq Node
          /\ \A j \in DOMAIN Plan[o] : Plan[o][j] \in Node
      BY PlanAssumption DEF PlanNodes, Range
    <2> QED BY <2>1, <2>2 DEF DocOrdered
  <1> QED BY <1>1, <1>2 DEF Ordered

LEMMA NextOrdered == Shape /\ Record /\ Ordered /\ [Next]_vars => Ordered'
  <1> SUFFICES ASSUME Shape, Record, Ordered, [Next]_vars PROVE Ordered'
    OBVIOUS
  <1>1. ASSUME NEW w \in Worker, NEW o \in Op, Step(w, o) PROVE Ordered'
    BY <1>1, StepOrdered
  <1>2. ASSUME NEW w \in Worker, NEW o \in Op, Claim(w, o) PROVE Ordered'
    BY <1>2, ClaimOrdered
  <1> QED BY <1>1, <1>2, AnswersOrdered, OthersOrdered DEF Next

\* No node is on record as rolled back while one after it in the deployment
\* order is still on record as committed, whichever processes took turns at
\* committing and undoing, and in whatever order the nodes had to be undone.
THEOREM ReverseOrderHolds == Spec => []ReverseOrder
  <1>1. Ordered => ReverseOrder
    BY DEF Ordered, DocOrdered, ReverseOrder
  <1>2. Spec => [](Shape /\ Record)
    BY InitRecord, NextRecord, ShapeHolds, PTL DEF Spec
  <1> QED BY <1>1, <1>2, InitOrdered, NextOrdered, PTL DEF Spec

\* An operation works through its nodes in the order it promises, there and back,
\* whoever crashes, stalls, takes over or answers late, for any number of nodes,
\* operations and processes.
THEOREM NodesInOrderHolds == Spec => []NodesInOrder
  BY BackupsFirstHolds, ReverseOrderHolds, PTL DEF NodesInOrder

-----------------------------------------------------------------------------
(***************************************************************************)
(* Commands that are not late.  A commit on its way pins its operation:    *)
(* the owner waits for the answer or is dead, and the lease cannot run out *)
(* under it.  Only a command the panel gave up on, or one that outlives    *)
(* the lease, escapes this.                                                *)
(***************************************************************************)
Prompt == FaultKinds \cap {"timeout", "late"} = {}

Pinned ==
    \A c \in remote : c.cmd = "commit" =>
        /\ doc[c.op].live
        /\ doc[c.op].status = "committing"
        /\ doc[c.op].owner \in Worker
        /\ c.by = Nobody => run[doc[c.op].owner][c.op].pc = "idle"
        /\ c.by # Nobody => c.by = doc[c.op].owner

\* A run that waits for an answer, or is over, takes no step.
LEMMA WaitingRunStays ==
  ASSUME Shape, NEW w \in Worker, NEW o \in Op, Step(w, o)
  PROVE  run[w][o].call # "sent" /\ run[w][o].pc # "idle"
  <1>1. RunShape(o, run[w][o])
    BY RunFacts
  <1>2. run[w][o].pc \notin Busy \/ run[w][o].todo = <<>> => run[w][o].call = "none"
    BY <1>1 DEF RunShape
  <1>3. CASE TakeLock(w, o) \/ LocksTaken(w, o) \/ Seal(w, o) \/ Revoke(w, o)
    BY <1>2, <1>3 DEF TakeLock, LocksTaken, Seal, Revoke, Busy
  <1>4. CASE Send(w, o)
    BY <1>4 DEF Send, Busy
  <1>5. CASE Prepared(w, o) \/ PrepareRejected(w, o) \/ PrepareFailed(w, o)
    BY <1>5 DEF Prepared, PrepareRejected, PrepareFailed
  <1>6. CASE Committed(w, o) \/ Verified(w, o) \/ CommitFailed(w, o)
    BY <1>6 DEF Committed, Verified, CommitFailed
  <1>7. CASE Finalize(w, o) \/ FinalizeRejected(w, o)
    BY <1>2, <1>7 DEF Finalize, FinalizeRejected, Busy
  <1>8. CASE Undone(w, o) \/ Skip(w, o) \/ Abort(w, o)
    BY <1>8 DEF Undone, Skip, Abort
  <1>9. CASE Retry(w, o) \/ Finish(w, o)
    BY <1>2, <1>9 DEF Retry, Finish
  <1>10. CASE ReleaseLock(w, o) \/ EndRun(w, o)
    BY <1>2, <1>10 DEF ReleaseLock, EndRun, Busy
  <1> QED BY <1>3, <1>4, <1>5, <1>6, <1>7, <1>8, <1>9, <1>10 DEF Step

\* Of the steps of a run only Send puts a command on its way, and a commit
\* only while the run owns a committing document.
LEMMA CommitSent ==
  ASSUME Shape, Ordered, NEW w \in Worker, NEW o \in Op, Step(w, o),
         NEW c \in remote' \ remote, c.cmd = "commit"
  PROVE  /\ c.by = w /\ c.op = o /\ doc' = doc
         /\ doc[o].live /\ doc[o].status = "committing" /\ doc[o].owner = w
  <1>1. Send(w, o)
    <2>1. remote' # remote
      OBVIOUS
    <2> QED BY <2>1 DEF Step, TakeLock, LocksTaken, Prepared, PrepareRejected,
          PrepareFailed, Seal, Committed, Verified, CommitFailed, Finalize,
          FinalizeRejected, Revoke, Undone, Skip, Retry, Finish, Abort,
          ReleaseLock, EndRun
  <1>2. /\ c = [by |-> w, op |-> o, node |-> Head(run[w][o].todo),
                cmd |-> CommandOf(run[w][o].pc)]
        /\ doc' = doc
    BY <1>1 DEF Send, store
  <1>3. run[w][o].pc = "commit" /\ OwnsOp(w, o)
    BY <1>1, <1>2 DEF Send, CommandOf, Busy
  <1>4. PhaseAgrees(doc[o], run[w][o])
    BY <1>3 DEF Ordered, RunOrdered
  <1>5. doc[o].status = "committing"
    BY <1>3, <1>4 DEF PhaseAgrees, PhaseOf
  <1> QED BY <1>2, <1>3, <1>5 DEF OwnsOp

LEMMA StepPinned ==
  ASSUME Shape, Ordered, Pinned, NEW w \in Worker, NEW o \in Op, Step(w, o)
  PROVE  Pinned'
  <1> SUFFICES ASSUME NEW c \in remote', c.cmd = "commit"
               PROVE  /\ doc'[c.op].live
                      /\ doc'[c.op].status = "committing"
                      /\ doc'[c.op].owner \in Worker
                      /\ c.by = Nobody => run'[doc'[c.op].owner][c.op].pc = "idle"
                      /\ c.by # Nobody => c.by = doc'[c.op].owner
    BY DEF Pinned
  <1>1. CASE c \notin remote
    <2>1. /\ c.by = w /\ c.op = o /\ doc' = doc
          /\ doc[o].live /\ doc[o].status = "committing" /\ doc[o].owner = w
      BY <1>1, CommitSent
    <2>2. w # Nobody
      BY NullAssumption DEF Nobody
    <2> QED BY <2>1, <2>2
  <1>2. CASE c \in remote
    <2>1. /\ doc[c.op].live /\ doc[c.op].status = "committing"
          /\ doc[c.op].owner \in Worker
          /\ c.by = Nobody => run[doc[c.op].owner][c.op].pc = "idle"
          /\ c.by # Nobody => c.by = doc[c.op].owner
      BY <1>2 DEF Pinned
    <2>2. c.op \in Op /\ (c.by # Nobody => run[c.by][c.op].call = "sent")
      BY <1>2 DEF Shape, TypeOK, RemoteSound, Sent
    <2>3. c.op = o => w # doc[c.op].owner
      BY <2>1, <2>2, WaitingRunStays
    <2>4. doc'[c.op] = doc[c.op]
      BY <2>2, <2>3, StepWrites DEF OwnsOp
    <2>5. run'[doc[c.op].owner][c.op] = run[doc[c.op].owner][c.op]
      BY <2>1, <2>2, <2>3, OtherRunsStay
    <2> QED BY <2>1, <2>4, <2>5
  <1> QED BY <1>1, <1>2

LEMMA CrashPinned ==
  ASSUME Shape, Pinned, NEW w \in Worker, Crash(w)
  PROVE  Pinned'
  <1>1. /\ run \in [Worker -> [Op -> Run]] /\ doc' = doc
        /\ \A v \in Worker, p \in Op :
              run'[v][p] = IF v = w THEN Idle ELSE run[v][p]
    BY DEF Shape, TypeOK, Crash, store
  <1>2. ASSUME NEW c \in remote', c.cmd = "commit"
        PROVE  /\ doc[c.op].live /\ doc[c.op].status = "committing"
               /\ doc[c.op].owner \in Worker
               /\ c.by = Nobody => run'[doc[c.op].owner][c.op].pc = "idle"
               /\ c.by # Nobody => c.by = doc[c.op].owner
    <2>1. PICK b \in remote : c = IF b.by = w THEN Orphan(b) ELSE b
      BY DEF Crash
    <2>2. b \in Sent
      BY DEF Shape, TypeOK
    <2>3. /\ b.op \in Op /\ c.op = b.op /\ c.cmd = b.cmd
          /\ b.by = w => c.by = Nobody
          /\ b.by # w => c.by = b.by
      BY <2>1, <2>2 DEF Sent, Orphan
    <2>4. /\ doc[b.op].live /\ doc[b.op].status = "committing"
          /\ doc[b.op].owner \in Worker
          /\ b.by = Nobody => run[doc[b.op].owner][b.op].pc = "idle"
          /\ b.by # Nobody => b.by = doc[b.op].owner
      BY <1>2, <2>3 DEF Pinned
    <2>5. w # Nobody
      BY NullAssumption DEF Nobody
    <2> QED BY <1>1, <2>3, <2>4, <2>5 DEF Idle
  <1> QED BY <1>1, <1>2 DEF Pinned

\* The other steps put no command on its way, start no owner's run, and let
\* no lease run out under a command.
LEMMA OthersPinned ==
  ASSUME Prompt, Shape, Pinned,
         \/ EditDraft
         \/ \E w \in Worker, o \in Op : Queue(w, o) \/ Claim(w, o) \/ TimeOut(w, o)
         \/ \E c \in remote : Execute(c)
         \/ \E o \in Op : ExpireOp(o)
         \/ \E n \in Node : ExpireLock(n)
         \/ UNCHANGED vars
  PROVE  Pinned'
  <1> DEFINE Stays(c) ==
        /\ doc'[c.op].live = doc[c.op].live
        /\ doc'[c.op].status = doc[c.op].status
        /\ doc'[c.op].owner = doc[c.op].owner
        /\ \A w \in Worker : run'[w][c.op].pc = run[w][c.op].pc
  <1>1. /\ doc \in [Op -> Document] /\ run \in [Worker -> [Op -> Run]]
        /\ \A c \in remote : c.op \in Op
    BY DEF Shape, TypeOK, Sent
  <1> SUFFICES remote' \subseteq remote
               /\ \A c \in remote' : c.cmd = "commit" => Stays(c)
    BY DEF Pinned
  <1>2. CASE EditDraft \/ (\E n \in Node : ExpireLock(n)) \/ UNCHANGED vars
    BY <1>2 DEF EditDraft, ExpireLock, vars
  <1>3. ASSUME NEW w \in Worker, NEW o \in Op, Queue(w, o) \/ Claim(w, o)
        PROVE  remote' \subseteq remote
               /\ \A c \in remote' : c.cmd = "commit" => Stays(c)
    <2>1. /\ remote' = remote
          /\ doc[o].status \in {"none", "queued"} \/ ~doc[o].live
          /\ \A p \in Op : p # o => doc'[p] = doc[p]
          /\ \A v \in Worker, p \in Op : p # o => run'[v][p] = run[v][p]
      <3>1. CASE Queue(w, o)
        BY <1>1, <3>1 DEF Queue
      <3>2. CASE Claim(w, o)
        <4>1. \E q : Go(w, o, q)
          BY <3>2 DEF Claim
        <4>2. \A v \in Worker, p \in Op : p # o => run'[v][p] = run[v][p]
          BY <1>1, <4>1 DEF Go
        <4> QED BY <1>1, <3>2, <4>2 DEF Claim
      <3> QED BY <1>3, <3>1, <3>2
    <2>2. \A c \in remote : c.cmd = "commit" => c.op # o
      BY <2>1 DEF Pinned
    <2> QED BY <1>1, <2>1, <2>2
  <1>4. ASSUME NEW w \in Worker, NEW o \in Op, TimeOut(w, o) PROVE FALSE
    BY <1>4 DEF TimeOut, Fault, Prompt
  <1>5. ASSUME NEW c \in remote, Execute(c)
        PROVE  remote' \subseteq remote
               /\ \A b \in remote' : b.cmd = "commit" => Stays(b)
    <2>1. remote' \subseteq remote /\ doc' = doc
      BY <1>5 DEF Execute, store
    <2>2. PICK how : Answer(c, how)
      BY <1>5 DEF Execute
    <2>3. \A v \in Worker, p \in Op :
             \/ \E call : run'[v][p] = [run[v][p] EXCEPT !.call = call]
             \/ run'[v][p] = run[v][p]
      BY <1>1, <2>2 DEF Answer
    <2>4. ASSUME NEW v \in Worker, NEW p \in Op
          PROVE  run'[v][p].pc = run[v][p].pc
      <3>1. run[v][p] \in Run
        BY <1>1
      <3>2. ASSUME NEW call, run'[v][p] = [run[v][p] EXCEPT !.call = call]
            PROVE  run'[v][p].pc = run[v][p].pc
        BY <3>1, <3>2 DEF Run
      <3> QED BY <2>3, <3>2
    <2> QED BY <1>1, <2>1, <2>4
  <1>6. ASSUME NEW o \in Op, ExpireOp(o)
        PROVE  remote' \subseteq remote
               /\ \A c \in remote' : c.cmd = "commit" => Stays(c)
    <2>1. /\ remote' = remote /\ run' = run
          /\ \A p \in Op : p # o => doc'[p] = doc[p]
          /\ \A c \in remote : c.op # o
      BY <1>1, <1>6 DEF ExpireOp, Settled, Prompt
    <2> QED BY <1>1, <2>1
  <1> QED BY <1>2, <1>3, <1>4, <1>5, <1>6

LEMMA NextPinned ==
  Prompt /\ Shape /\ Ordered /\ Pinned /\ [Next]_vars => Pinned'
  <1> SUFFICES ASSUME Prompt, Shape, Ordered, Pinned, [Next]_vars PROVE Pinned'
    OBVIOUS
  <1>1. ASSUME NEW w \in Worker, NEW o \in Op, Step(w, o) PROVE Pinned'
    BY <1>1, StepPinned
  <1>2. ASSUME NEW w \in Worker, Crash(w) PROVE Pinned'
    BY <1>2, CrashPinned
  <1> QED BY <1>1, <1>2, OthersPinned DEF Next

\* As long as no command outlives its lease or its caller's patience, a node
\* changes its configuration for a commit only while the operation commits:
\* processes that die, stall or lose the database in any order never leave a
\* commit behind that takes effect after the operation was undone or ended.
THEOREM NoLateActivationHolds ==
  ASSUME Prompt
  PROVE  Spec => NoLateActivation
  <1>1. Pinned => \A c \in remote \ remote' :
                     /\ c.cmd = "commit"
                     /\ host'[c.node].config # host[c.node].config
                     => doc[c.op].status = "committing"
    BY DEF Pinned
  <1>2. Init => Pinned
    BY DEF Init, Pinned
  <1>3. Shape /\ Ordered /\ Pinned /\ [Next]_vars => Pinned'
    BY NextPinned
  <1>4. Spec => [](Shape /\ Ordered)
    BY InitRecord, NextRecord, InitOrdered, NextOrdered, ShapeHolds, PTL DEF Spec
  <1>5. Spec => []Pinned
    BY <1>2, <1>3, <1>4, PTL DEF Spec
  <1> QED BY <1>1, <1>5, PTL DEF NoLateActivation

-----------------------------------------------------------------------------
(***************************************************************************)
(* Where no fault has happened, a run that has its locks keeps them and    *)
(* its operation until it is done (Manned), so that nobody else deploys to *)
(* a node all operations share.  What such a run may have done to the node *)
(* follows from its phase and the entries (Working); while no run is at    *)
(* work, the shared nodes are as deployed (Resting).                       *)
(***************************************************************************)
Shared == {n \in Node : \A o \in Op : n \in PlanNodes(o)}

Excused(n) == \E o \in Op : doc[o].status = "failed" /\ doc[o].node[n] = "failed"

\* The configurations that node n may be left with.
Fitting(n) == {c \in Revision : c = deployed \/ Excused(n)}

AtWork(w, o) == doc[o].status \in Active /\ run[w][o].pc \notin {"idle", "lock", "release"}

\* A run under way has its operation and its locks; the only exception is one
\* that has succeeded without learning so.
RunManned(w, o) ==
    run[w][o].pc \notin {"idle", "release"} =>
        /\ OwnsLocks(w, o)
        /\ ~run[w][o].retry
        /\ run[w][o].pc = "lock" => run[w][o].next = "prepare"
        /\ run[w][o].pc # "lock" => run[w][o].held = PlanNodes(o)
        /\ \/ OwnsOp(w, o)
           \/ doc[o].status = "succeeded" /\ run[w][o].pc = "revoke"

Manned == \A w \in Worker, o \in Op : RunManned(w, o)

\* An operation that nobody is at work on has not begun or is over.
Untouched(o) ==
    /\ doc[o].status \in {"none", "queued", "preparing"}
    /\ \A n \in PlanNodes(o) : doc[o].node[n] = "pending" /\ host[n].state[o] = "absent"

Whole == \A o \in Op : \/ doc[o].status \in Terminal
                       \/ Untouched(o)
                       \/ \E w \in Worker : AtWork(w, o)

\* How far the run r of o has come, by the entries of its document d.
Progress(o, d, r) ==
    /\ r.pc \in {"prepare", "discard"} =>
          /\ \A k \in DOMAIN r.todo : r.todo[k] = Plan[o][Behind(o, r) + k]
          /\ \A j \in DOMAIN Plan[o] :
                d.node[Plan[o][j]] = IF j <= Behind(o, r) THEN "prepared" ELSE "pending"
    /\ r.pc \in {"seal", "commit", "verify", "finalize"} =>
          \A n \in PlanNodes(o) : d.node[n] \in {"prepared", "committed"}
    /\ r.pc \in Backward =>
          \A n \in PlanNodes(o) \ Range(r.todo) : d.node[n] \notin {"prepared", "committed"}

\* What the run r of o, with document d, lets one know of a shared node n.
NodeKnown(n, o, h, d, r, fitting) ==
    /\ h.state[o] = "bound" => h.backup[o] \in fitting
    /\ r.pc \in {"prepare", "discard", "seal"} \/ d.node[n] \in {"pending", "rolled_back"}
          => h.config \in fitting
    /\ r.pc \in {"commit", "verify", "finalize"} /\ d.node[n] = "committed"
          => h.config = d.rev
    /\ r.call = "ok" /\ n = Head(r.todo)
          => /\ r.pc = "commit" => h.config = d.rev
             /\ r.pc = "undo" => h.config \in fitting

Working ==
    \A w \in Worker, o \in Op : AtWork(w, o) =>
        /\ Progress(o, doc[o], run[w][o])
        /\ \A n \in Shared : NodeKnown(n, o, host[n], doc[o], run[w][o], Fitting(n))

Resting ==
    (\A w \in Worker, o \in Op : ~AtWork(w, o))
        => \A n \in Shared : host[n].config \in Fitting(n)

Awaited == \A c \in remote : c.by # Nobody

Undisturbed == Awaited /\ Manned /\ Whole /\ Working /\ Resting

-----------------------------------------------------------------------------
(* The steps of a run: at work, or beside it.                              *)

WorkStep(w, o) ==
    \/ Send(w, o) \/ Prepared(w, o) \/ PrepareRejected(w, o) \/ PrepareFailed(w, o)
    \/ Seal(w, o) \/ Committed(w, o) \/ Verified(w, o) \/ CommitFailed(w, o)
    \/ Finalize(w, o) \/ FinalizeRejected(w, o)
    \/ Revoke(w, o) \/ Undone(w, o) \/ Skip(w, o) \/ Finish(w, o)

Aside(w, o) ==
    \/ TakeLock(w, o) \/ LocksTaken(w, o) \/ ReleaseLock(w, o) \/ EndRun(w, o)
    \/ Abort(w, o) /\ doc[o].status = "succeeded"

LEMMA WorkFacts ==
  ASSUME Manned, NEW w \in Worker, NEW o \in Op, AtWork(w, o)
  PROVE  /\ OwnsOp(w, o) /\ OwnsLocks(w, o)
         /\ run[w][o].held = PlanNodes(o) /\ ~run[w][o].retry
  BY DEF Manned, RunManned, AtWork, Active

\* A shared node has one run at work on it.
LEMMA OneAtWork ==
  ASSUME Manned, NEW n \in Shared,
         NEW w \in Worker, NEW o \in Op, AtWork(w, o),
         NEW v \in Worker, NEW p \in Op, n \in run[v][p].held, OwnsLocks(v, p)
  PROVE  v = w /\ p = o
  <1>1. n \in run[w][o].held /\ OwnsLocks(w, o)
    BY WorkFacts DEF Shared
  <1>2. lock[n] = [worker |-> w, op |-> o, live |-> TRUE]
    BY <1>1 DEF OwnsLocks
  <1>3. lock[n] = [worker |-> v, op |-> p, live |-> TRUE]
    BY DEF OwnsLocks
  <1> QED BY <1>2, <1>3

LEMMA StepKinds ==
  ASSUME Shape, Manned, NEW w \in Worker, NEW o \in Op, Step(w, o), faults' = faults
  PROVE  \/ AtWork(w, o) /\ WorkStep(w, o)
         \/ ~AtWork(w, o) /\ Aside(w, o)
  <1>1. RunManned(w, o) /\ RunShape(o, run[w][o]) /\ faults \in Int
    BY DEF Manned, Shape, TypeOK
  <1>2. ~Fault("database")
    BY <1>1 DEF Fault
  <1>3. CASE \/ Send(w, o) \/ Prepared(w, o) \/ PrepareRejected(w, o) \/ PrepareFailed(w, o)
             \/ Seal(w, o) \/ Committed(w, o) \/ Verified(w, o) \/ CommitFailed(w, o)
             \/ Finalize(w, o) \/ FinalizeRejected(w, o)
             \/ Undone(w, o) \/ Skip(w, o) \/ Finish(w, o)
    <2>1. run[w][o].pc \notin {"idle", "lock", "release", "revoke"}
      BY <1>3 DEF Send, Prepared, PrepareRejected, PrepareFailed, Seal, Committed, Verified,
                  CommitFailed, Finalize, FinalizeRejected, Undone, Skip, Finish, Busy
    <2> QED BY <1>1, <1>3, <2>1 DEF RunManned, AtWork, OwnsOp, WorkStep
  <1>4. CASE Revoke(w, o)
    BY <1>4 DEF Revoke, AtWork, OwnsOp, WorkStep
  <1>5. CASE Retry(w, o)
    BY <1>1, <1>5 DEF Retry, RunManned
  <1>6. CASE Abort(w, o)
    <2>1. run[w][o].pc \notin {"idle", "release"} /\ (~OwnsOp(w, o) \/ ~OwnsLocks(w, o))
      BY <1>2, <1>6 DEF Abort
    <2> QED BY <1>1, <1>6, <2>1 DEF RunManned, Aside, AtWork, Active
  <1>7. CASE TakeLock(w, o) \/ LocksTaken(w, o) \/ ReleaseLock(w, o) \/ EndRun(w, o)
    BY <1>7 DEF TakeLock, LocksTaken, ReleaseLock, EndRun, Aside, AtWork
  <1> QED BY <1>3, <1>4, <1>5, <1>6, <1>7 DEF Step

\* Beside its work a run touches nothing but locks.
LEMMA AsideFrame ==
  ASSUME NEW w \in Worker, NEW o \in Op, Aside(w, o)
  PROVE  UNCHANGED <<doc, deployed, host, remote>>
  BY DEF Aside, TakeLock, LocksTaken, ReleaseLock, EndRun, Abort, store

\* At work it keeps what it holds, and ends with its operation.
LEMMA WorkFrame ==
  ASSUME Shape, NEW w \in Worker, NEW o \in Op, AtWork(w, o), OwnsOp(w, o), WorkStep(w, o)
  PROVE  /\ lock' = lock /\ host' = host
         /\ ~Finalize(w, o) => deployed' = deployed
         /\ run'[w][o].held = run[w][o].held /\ run'[w][o].retry = run[w][o].retry
         /\ run'[w][o].pc \notin {"idle", "lock"}
         /\ doc'[o].owner = w
         /\ \/ doc'[o].status \in Active /\ doc'[o].live /\ run'[w][o].pc # "release"
            \/ doc'[o].status \in {"failed", "rolled_back"} /\ run'[w][o].pc = "release"
            \/ doc'[o].status = "succeeded" /\ run'[w][o].pc \in {"release", "revoke"}
  <1> DEFINE r == run[w][o]
             q == run'[w][o]
             d == doc[o]
             e == doc'[o]
  <1>1. /\ r \in Run /\ RunShape(o, r) /\ doc \in [Op -> Document] /\ d \in Document
        /\ \A s : Go(w, o, s) => q = s
        /\ d.owner = w /\ d.live /\ d.status \in Active
        /\ r.pc \notin {"idle", "lock", "release"}
    BY OrderFacts DEF AtWork, OwnsOp
  <1>2. CASE Send(w, o) \/ PrepareRejected(w, o) \/ Verified(w, o) \/ CommitFailed(w, o)
             \/ FinalizeRejected(w, o) \/ Skip(w, o)
    <2>1. UNCHANGED <<lock, host, deployed, doc>>
      BY <1>2 DEF Send, PrepareRejected, Verified, CommitFailed, FinalizeRejected, Skip, store
    <2>2. q.held = r.held /\ q.retry = r.retry /\ q.pc \notin {"idle", "lock", "release"}
      <3>1. CASE Send(w, o)
        BY <1>1, <3>1 DEF Send, Run
      <3>2. CASE PrepareRejected(w, o)
        BY <1>1, <3>2 DEF PrepareRejected, Run
      <3>3. CASE Verified(w, o)
        BY <1>1, <3>3 DEF Verified, Run
      <3>4. CASE CommitFailed(w, o)
        BY <1>1, <3>4 DEF CommitFailed, Run
      <3>5. CASE FinalizeRejected(w, o)
        BY <1>1, <3>5 DEF FinalizeRejected, Run
      <3>6. CASE Skip(w, o)
        BY <1>1, <3>6 DEF Skip, Run
      <3> QED BY <1>2, <3>1, <3>2, <3>3, <3>4, <3>5, <3>6
    <2> QED BY <1>1, <2>1, <2>2
  <1>3. CASE Prepared(w, o) \/ PrepareFailed(w, o) \/ Committed(w, o) \/ Undone(w, o)
    <2>1. UNCHANGED <<lock, host, deployed>>
      BY <1>3 DEF Prepared, PrepareFailed, Committed, Undone
    <2>2. \/ doc' = doc
          \/ \E n, state : state \in NodeState /\ RecordNode(o, n, state)
      BY <1>3 DEF Prepared, PrepareFailed, Committed, Undone, NodeState
    <2>3. e.owner = d.owner /\ e.status = d.status /\ e.live = d.live
      BY <1>1, <2>2, RecordFacts
    <2>4. q.held = r.held /\ q.retry = r.retry /\ q.pc \notin {"idle", "lock", "release"}
      <3>1. CASE Prepared(w, o)
        BY <1>1, <3>1 DEF Prepared, Run
      <3>2. CASE PrepareFailed(w, o)
        BY <1>1, <3>2 DEF PrepareFailed, Run
      <3>3. CASE Committed(w, o)
        BY <1>1, <3>3 DEF Committed, Run
      <3>4. CASE Undone(w, o)
        BY <1>1, <3>4 DEF Undone, Run
      <3> QED BY <1>3, <3>1, <3>2, <3>3, <3>4
    <2> QED BY <1>1, <2>1, <2>3, <2>4
  <1>4. CASE Seal(w, o)
    BY <1>1, <1>4 DEF Seal, Document, Run, Active
  <1>5. CASE Revoke(w, o)
    BY <1>1, <1>5 DEF Revoke, Document, Run, Active
  <1>6. CASE Finalize(w, o)
    BY <1>1, <1>6 DEF Finalize, Document, Run
  <1>7. CASE Finish(w, o)
    <2>1. /\ q = [r EXCEPT !.pc = "release"] /\ UNCHANGED <<lock, host, deployed>>
          /\ doc' = [doc EXCEPT ![o].status = IF r.bad THEN "failed" ELSE "rolled_back",
                                ![o].live = FALSE]
      BY <1>1, <1>7 DEF Finish
    <2> QED BY <1>1, <2>1 DEF Document, Run
  <1> QED BY <1>2, <1>3, <1>4, <1>5, <1>6, <1>7 DEF WorkStep

-----------------------------------------------------------------------------
(* Operations and locks stay with their run.                               *)

LEMMA OthersManned ==
  ASSUME Shape, Manned, NEW w \in Worker, NEW o \in Op, Step(w, o), faults' = faults,
         NEW v \in Worker, NEW p \in Op, v # w \/ p # o
  PROVE  RunManned(v, p)'
  <1> SUFFICES ASSUME run[v][p].pc \notin {"idle", "release"}, run'[v][p] = run[v][p]
               PROVE  /\ OwnsLocks(v, p)'
                      /\ \/ OwnsOp(v, p)'
                         \/ doc'[p].status = "succeeded" /\ run[v][p].pc = "revoke"
    BY OtherRunsStay DEF Manned, RunManned
  <1>1. RunManned(v, p) /\ RunManned(w, o) /\ lock \in [Node -> Lock]
        /\ run[w][o] \in Run /\ run[v][p] \in Run
    BY RunFacts DEF Manned, Shape, TypeOK
  <1>2. OwnsLocks(v, p)
    BY <1>1 DEF RunManned
  <1>3. OwnsLocks(v, p)'
    <2>1. CASE lock' = lock
      BY <1>2, <2>1 DEF OwnsLocks
    <2>2. CASE TakeLock(w, o) /\ lock' # lock
      <3>1. PICK n \in PlanNodes(o) \ run[w][o].held :
               /\ ~lock[n].live \/ (lock[n].worker = w /\ lock[n].op = o)
               /\ lock' = [lock EXCEPT ![n] = [worker |-> w, op |-> o, live |-> TRUE]]
        BY <2>2 DEF TakeLock
      <3>2. n \notin run[v][p].held
        BY <1>2, <3>1 DEF OwnsLocks
      <3>3. \A m \in run[v][p].held : lock'[m] = lock[m]
        BY <1>1, <3>1, <3>2 DEF Run
      <3> QED BY <1>2, <3>3 DEF OwnsLocks
    <2>3. CASE ReleaseLock(w, o) /\ lock' # lock
      <3>1. PICK n \in run[w][o].held :
               /\ lock[n].worker = w /\ lock[n].op = o
               /\ lock' = [lock EXCEPT ![n] = NoLock]
        BY <2>3 DEF ReleaseLock
      <3>2. n \notin run[v][p].held
        BY <1>2, <3>1 DEF OwnsLocks
      <3>3. \A m \in run[v][p].held : lock'[m] = lock[m]
        BY <1>1, <3>1, <3>2 DEF Run
      <3> QED BY <1>2, <3>3 DEF OwnsLocks
    <2>4. \/ lock' = lock \/ TakeLock(w, o) \/ ReleaseLock(w, o)
      <3>1. CASE AtWork(w, o) /\ WorkStep(w, o)
        BY <3>1, WorkFacts, WorkFrame
      <3>2. CASE Aside(w, o)
        BY <3>2 DEF Aside, LocksTaken, EndRun, Abort, store
      <3> QED BY <3>1, <3>2, StepKinds
    <2> QED BY <2>1, <2>2, <2>3, <2>4
  <1>4. doc'[p] = doc[p]
    <2>1. CASE OwnsOp(w, o) /\ p = o
      <3>1. v # w /\ ~OwnsOp(v, p)
        BY <2>1 DEF OwnsOp
      <3> QED BY <1>1, <2>1, <3>1 DEF RunManned, OwnsOp, Active
    <2> QED BY <2>1, StepWrites
  <1> QED BY <1>1, <1>3, <1>4 DEF RunManned, OwnsOp

LEMMA OwnManned ==
  ASSUME Shape, Manned, NEW w \in Worker, NEW o \in Op, Step(w, o), faults' = faults
  PROVE  RunManned(w, o)'
  <1> DEFINE r == run[w][o]
             q == run'[w][o]
  <1>1. /\ r \in Run /\ RunManned(w, o) /\ lock \in [Node -> Lock] /\ PlanNodes(o) \subseteq Node
        /\ \A s : Go(w, o, s) => q = s
    BY OrderFacts DEF Manned, Shape, TypeOK
  <1>2. CASE AtWork(w, o) /\ WorkStep(w, o)
    <2>1. OwnsOp(w, o) /\ OwnsLocks(w, o) /\ r.held = PlanNodes(o) /\ ~r.retry
      BY <1>2, WorkFacts
    <2>2. /\ lock' = lock /\ q.held = r.held /\ q.retry = r.retry
          /\ q.pc \notin {"idle", "lock"} /\ doc'[o].owner = w
          /\ \/ doc'[o].status \in Active /\ doc'[o].live
             \/ q.pc = "release"
             \/ doc'[o].status = "succeeded" /\ q.pc = "revoke"
      BY <1>2, <2>1, WorkFrame
    <2>3. OwnsLocks(w, o)'
      BY <2>1, <2>2 DEF OwnsLocks
    <2>4. \/ q.pc = "release" \/ OwnsOp(w, o)'
          \/ doc'[o].status = "succeeded" /\ q.pc = "revoke"
      <3>1. ASSUME doc'[o].status \in Active, doc'[o].live PROVE OwnsOp(w, o)'
        BY <2>2, <3>1 DEF OwnsOp
      <3> HIDE DEF q
      <3> QED BY <2>2, <3>1
    <2> QED BY <2>1, <2>2, <2>3, <2>4 DEF RunManned
  <1>3. CASE TakeLock(w, o)
    <2>1. CASE q = [r EXCEPT !.pc = "release"]
      BY <1>1, <2>1 DEF RunManned, Run
    <2>2. ASSUME NEW n \in PlanNodes(o),
                 lock' = [lock EXCEPT ![n] = [worker |-> w, op |-> o, live |-> TRUE]],
                 q = [r EXCEPT !.held = @ \cup {n}]
          PROVE  RunManned(w, o)'
      <3>1. /\ q.pc = r.pc /\ q.next = r.next /\ q.retry = r.retry
            /\ q.held = r.held \cup {n} /\ r.pc = "lock"
        BY <1>1, <1>3, <2>2 DEF Run, TakeLock
      <3>2. OwnsLocks(w, o)'
        BY <1>1, <2>2, <3>1 DEF RunManned, OwnsLocks, Run
      <3>3. doc' = doc
        BY <1>3 DEF TakeLock
      <3> QED BY <1>1, <3>1, <3>2, <3>3 DEF RunManned, OwnsOp
    <2> QED BY <1>1, <1>3, <2>1, <2>2 DEF TakeLock
  <1>4. CASE LocksTaken(w, o)
    <2>1. /\ r.pc = "lock" /\ r.held = PlanNodes(o) /\ q = [r EXCEPT !.pc = r.next]
          /\ UNCHANGED <<doc, lock>>
      BY <1>1, <1>4 DEF LocksTaken, store
    <2>2. r.next = "prepare" /\ OwnsOp(w, o) /\ OwnsLocks(w, o) /\ ~r.retry
      BY <1>1, <2>1 DEF RunManned
    <2>3. q.pc = "prepare" /\ q.held = r.held /\ ~q.retry
      BY <1>1, <2>1, <2>2 DEF Run
    <2> QED BY <2>1, <2>2, <2>3 DEF RunManned, OwnsOp, OwnsLocks
  <1>5. CASE ReleaseLock(w, o) \/ EndRun(w, o) \/ Abort(w, o)
    <2>1. q.pc \in {"idle", "release"}
      <3>1. CASE ReleaseLock(w, o)
        BY <1>1, <3>1 DEF ReleaseLock, Run
      <3>2. CASE EndRun(w, o)
        BY <1>1, <3>2 DEF EndRun, Idle
      <3>3. CASE Abort(w, o)
        BY <1>1, <3>3 DEF Abort, Run
      <3> QED BY <1>5, <3>1, <3>2, <3>3
    <2> QED BY <2>1 DEF RunManned
  <1> QED BY <1>2, <1>3, <1>4, <1>5, StepKinds DEF Aside

LEMMA StepManned ==
  ASSUME Shape, Manned, NEW w \in Worker, NEW o \in Op, Step(w, o), faults' = faults
  PROVE  Manned'
  BY OwnManned, OthersManned DEF Manned

LEMMA StepWhole ==
  ASSUME Shape, Manned, Whole, NEW w \in Worker, NEW o \in Op, Step(w, o), faults' = faults
  PROVE  Whole'
  <1> SUFFICES ASSUME NEW p \in Op
               PROVE  \/ doc'[p].status \in Terminal
                      \/ Untouched(p)'
                      \/ \E v \in Worker : AtWork(v, p)'
    BY DEF Whole
  <1>1. host' = host
    BY StepKinds, AsideFrame, WorkFacts, WorkFrame
  <1>2. \A v \in Worker : v # w \/ p # o => run'[v][p] = run[v][p]
    BY OtherRunsStay
  <1>3. CASE doc'[p] = doc[p] /\ (p = o => ~AtWork(w, o))
    <2>1. Untouched(p) => Untouched(p)'
      BY <1>1, <1>3 DEF Untouched
    <2>2. \A v \in Worker : AtWork(v, p) => AtWork(v, p)'
      BY <1>2, <1>3 DEF AtWork
    <2> QED BY <1>3, <2>1, <2>2 DEF Whole
  <1>4. CASE p = o /\ AtWork(w, o)
    <2>1. OwnsOp(w, o) /\ WorkStep(w, o)
      BY <1>4, WorkFacts, StepKinds
    <2> QED BY <1>4, <2>1, WorkFrame DEF AtWork, Terminal
  <1>5. CASE p = o /\ ~AtWork(w, o)
    BY <1>3, <1>5, StepKinds, AsideFrame
  <1>6. CASE p # o
    BY <1>3, <1>6, StepWrites
  <1> QED BY <1>4, <1>5, <1>6

-----------------------------------------------------------------------------
(* What a step of one run leaves to the others.                            *)

LEMMA FittingStays ==
  ASSUME deployed' = deployed, \A p \in Op : doc[p].status = "failed" => doc'[p] = doc[p]
  PROVE  \A n \in Node : Fitting(n) \subseteq Fitting(n)'
  BY DEF Fitting, Excused

\* A larger set of fitting configurations says less.
LEMMA KnownStays ==
  ASSUME NEW n, NEW o, NEW h, NEW d, NEW r, NEW few, NEW many, few \subseteq many,
         NodeKnown(n, o, h, d, r, few)
  PROVE  NodeKnown(n, o, h, d, r, many)
  BY DEF NodeKnown

LEMMA OtherDocStays ==
  ASSUME Shape, Manned, NEW w \in Worker, NEW o \in Op, Step(w, o),
         NEW v \in Worker, NEW p \in Op, v # w \/ p # o,
         run[v][p].pc \notin {"idle", "release"}
  PROVE  doc'[p] = doc[p]
  <1>1. RunManned(v, p)
    BY DEF Manned
  <1>2. CASE OwnsOp(w, o) /\ p = o
    <2>1. v # w /\ ~OwnsOp(v, p)
      BY <1>2 DEF OwnsOp
    <2> QED BY <1>1, <1>2, <2>1 DEF RunManned, OwnsOp, Active
  <1> QED BY <1>2, StepWrites

LEMMA OthersWorking ==
  ASSUME Shape, Manned, Working, NEW w \in Worker, NEW o \in Op, Step(w, o), faults' = faults,
         NEW v \in Worker, NEW p \in Op, v # w \/ p # o, AtWork(v, p)'
  PROVE  /\ Progress(p, doc'[p], run'[v][p])
         /\ \A n \in Shared :
               NodeKnown(n, p, host'[n], doc'[p], run'[v][p], Fitting(n)')
  <1>1. run'[v][p] = run[v][p]
    BY OtherRunsStay
  <1>2. doc'[p] = doc[p]
    BY <1>1, OtherDocStays DEF AtWork
  <1>3. AtWork(v, p)
    BY <1>1, <1>2 DEF AtWork
  <1>4. ASSUME NEW n \in Shared
        PROVE  NodeKnown(n, p, host'[n], doc'[p], run'[v][p], Fitting(n)')
    <2>1. n \in run[v][p].held /\ OwnsLocks(v, p) /\ n \in Node
      BY <1>3, WorkFacts DEF Shared
    <2>2. ~AtWork(w, o)
      BY <2>1, OneAtWork
    <2>3. UNCHANGED <<doc, deployed, host>>
      BY <2>2, StepKinds, AsideFrame
    <2>4. Fitting(n) \subseteq Fitting(n)'
      BY <2>1, <2>3, FittingStays
    <2>5. NodeKnown(n, p, host[n], doc[p], run[v][p], Fitting(n))
      BY <1>3 DEF Working
    <2> QED BY <1>1, <1>2, <2>3, <2>4, <2>5, KnownStays
  <1> QED BY <1>1, <1>2, <1>3, <1>4 DEF Working

-----------------------------------------------------------------------------
(* How far the run has come.                                               *)

\* A run that has just got its locks finds its operation untouched.
LEMMA LocksTakenFresh ==
  ASSUME Shape, Manned, Whole, NEW w \in Worker, NEW o \in Op, LocksTaken(w, o)
  PROVE  /\ Untouched(o)
         /\ run[w][o].todo = Plan[o] /\ run'[w][o] = [run[w][o] EXCEPT !.pc = "prepare"]
  <1>1. /\ RunManned(w, o) /\ RunShape(o, run[w][o]) /\ run[w][o].pc = "lock"
        /\ run'[w][o] = [run[w][o] EXCEPT !.pc = run[w][o].next]
    BY OrderFacts DEF Manned, LocksTaken
  <1>2. OwnsOp(w, o) /\ run[w][o].next = "prepare"
    BY <1>1 DEF RunManned
  <1>3. \A v \in Worker : ~AtWork(v, o)
    BY <1>1, <1>2, WorkFacts DEF AtWork, OwnsOp
  <1>4. Untouched(o)
    BY <1>2, <1>3 DEF Whole, OwnsOp, Active, Terminal
  <1> QED BY <1>1, <1>2, <1>4 DEF RunShape

LEMMA PrepareProgress ==
  ASSUME Shape, Manned, Whole, NEW w \in Worker, NEW o \in Op, faults' = faults,
         AtWork(w, o) => Progress(o, doc[o], run[w][o]),
         \/ LocksTaken(w, o)
         \/ AtWork(w, o) /\ (Prepared(w, o) \/ PrepareRejected(w, o) \/ PrepareFailed(w, o))
  PROVE  Progress(o, doc'[o], run'[w][o])
  <1> DEFINE r == run[w][o]
             q == run'[w][o]
             d == doc[o]
             e == doc'[o]
             rest == Tail(r.todo)
             L == Len(Plan[o])
  <1>1. /\ r \in Run /\ RunShape(o, r) /\ doc \in [Op -> Document] /\ d \in Document
        /\ Plan[o] \in Seq(Node) /\ IsInjective(Plan[o]) /\ DOMAIN Plan[o] = 1 .. L /\ L \in Nat
        /\ \A j \in DOMAIN Plan[o] : Plan[o][j] \in PlanNodes(o) /\ Plan[o][j] \in Node
        /\ \A s : Go(w, o, s) => q = s
    BY OrderFacts
  <1>2. r.todo \in Seq(Node)
    BY <1>1 DEF Run
  <1>3. CASE LocksTaken(w, o)
    <2>1. Untouched(o) /\ r.todo = Plan[o] /\ q = [r EXCEPT !.pc = "prepare"] /\ e = d
      BY <1>3, LocksTakenFresh DEF LocksTaken, store
    <2>2. q.pc = "prepare" /\ q.todo = Plan[o]
      BY <1>1, <2>1 DEF Run
    <2>3. Behind(o, q) = 0
      BY <1>1, <2>2 DEF Behind
    <2>4. \A j \in DOMAIN Plan[o] : e.node[Plan[o][j]] = "pending" /\ ~(j <= 0) /\ 0 + j = j
      BY <1>1, <2>1 DEF Untouched
    <2> QED BY <2>2, <2>3, <2>4 DEF Progress, Backward
  <1>4. CASE AtWork(w, o) /\ Prepared(w, o)
    <2>1. /\ r.pc = "prepare" /\ RecordNode(o, Head(r.todo), "prepared") /\ r.todo # <<>>
          /\ q = [r EXCEPT !.call = "none", !.todo = rest,
                           !.pc = IF rest = <<>> THEN "seal" ELSE @]
          /\ Progress(o, d, r)
      BY <1>1, <1>4 DEF Prepared, RunShape, Forward
    <2>2. /\ q.todo = rest /\ q.pc = IF rest = <<>> THEN "seal" ELSE "prepare"
      BY <1>1, <2>1 DEF Run
    <2>3. /\ Len(r.todo) \in Nat /\ Len(r.todo) >= 1 /\ Len(rest) = Len(r.todo) - 1
          /\ Len(r.todo) <= L /\ Head(r.todo) = r.todo[1]
          /\ \A k \in 1 .. Len(rest) : rest[k] = r.todo[k + 1] /\ k + 1 \in 1 .. Len(r.todo)
          /\ 1 \in DOMAIN r.todo /\ DOMAIN r.todo = 1 .. Len(r.todo)
          /\ rest \in Seq(Node) /\ DOMAIN rest = 1 .. Len(rest)
      <3>1. Len(r.todo) <= L
        BY <1>1, <2>1 DEF RunShape, Forward
      <3>2. /\ Len(r.todo) >= 1 /\ Len(rest) = Len(r.todo) - 1 /\ rest \in Seq(Node)
        BY <1>2, <2>1, SeqTail
      <3>3. /\ Len(r.todo) \in Nat /\ Len(rest) \in Nat /\ Head(r.todo) = r.todo[1]
            /\ DOMAIN r.todo = 1 .. Len(r.todo) /\ DOMAIN rest = 1 .. Len(rest)
        BY <1>2, <3>2
      <3>4. \A k \in 1 .. Len(rest) : rest[k] = r.todo[k + 1]
        BY <1>2, <2>1, <3>2
      <3>5. \A k \in 1 .. Len(rest) : k + 1 \in 1 .. Len(r.todo)
        BY <3>2, <3>3
      <3> QED BY <3>1, <3>2, <3>3, <3>4, <3>5
    <2>4. Head(r.todo) = Plan[o][Behind(o, r) + 1] /\ Behind(o, r) + 1 \in 1 .. L
      <3>1. Behind(o, r) + 1 \in 1 .. L
        <4>1. L \in Nat
          BY <1>1
        <4>2. Behind(o, r) = L - Len(r.todo)
          BY DEF Behind
        <4> HIDE DEF r, L
        <4> QED BY <2>3, <4>1, <4>2
      <3> QED BY <2>1, <2>3, <3>1 DEF Progress
    <2>5. Behind(o, q) = Behind(o, r) + 1 /\ Behind(o, r) \in Nat
      <3>1. Len(q.todo) = Len(r.todo) - 1
        BY <2>2, <2>3
      <3> HIDE DEF q, r, rest
      <3> QED BY <1>1, <2>3, <3>1 DEF Behind
    <2>6. \A m \in Node : e.node[m] = IF m = Head(r.todo) THEN "prepared" ELSE d.node[m]
      <3>1. "prepared" \in NodeState
        BY DEF NodeState
      <3>2. doc \in [Op -> Document] /\ RecordNode(o, Head(r.todo), "prepared")
        BY <1>1, <2>1
      <3> QED BY <3>1, <3>2, RecordFacts
    <2>7. ASSUME NEW j \in DOMAIN Plan[o]
          PROVE  e.node[Plan[o][j]] = IF j <= Behind(o, q) THEN "prepared" ELSE "pending"
      <3>1. CASE j = Behind(o, r) + 1
        BY <1>1, <2>4, <2>5, <2>6, <3>1
      <3>2. CASE j # Behind(o, r) + 1
        <4>1. Plan[o][j] # Head(r.todo)
          BY <1>1, <2>4, <3>2 DEF IsInjective
        <4>2. e.node[Plan[o][j]] = d.node[Plan[o][j]]
          BY <1>1, <2>6, <4>1
        <4>3. j <= Behind(o, q) <=> j <= Behind(o, r)
          BY <1>1, <2>5, <3>2
        <4> QED BY <2>1, <4>2, <4>3 DEF Progress
      <3> QED BY <3>1, <3>2
    <2>8. \A k \in DOMAIN rest : rest[k] = Plan[o][Behind(o, q) + k]
      <3> TAKE k \in DOMAIN rest
      <3>1. /\ rest[k] = r.todo[k + 1] /\ k + 1 \in DOMAIN r.todo /\ k \in Nat
        BY <2>3
      <3>2. r.todo[k + 1] = Plan[o][Behind(o, r) + (k + 1)]
        BY <2>1, <3>1 DEF Progress
      <3>3. Behind(o, r) + (k + 1) = Behind(o, q) + k
        BY <2>5, <3>1
      <3> QED BY <3>1, <3>2, <3>3
    <2>9. CASE rest # <<>>
      <3>1. q.pc = "prepare" /\ q.todo = rest
        BY <2>2, <2>9
      <3> QED BY <2>7, <2>8, <3>1 DEF Progress, Backward
    <2>10. CASE rest = <<>>
      <3>1. q.pc = "seal"
        BY <2>2, <2>10
      <3>2. Behind(o, q) = L
        <4>1. Len(q.todo) = 0
          <5>1. q.todo = <<>>
            BY <2>2, <2>10
          <5> QED BY <5>1
        <4> HIDE DEF q
        <4> QED BY <1>1, <4>1 DEF Behind
      <3>3. \A n \in PlanNodes(o) : e.node[n] = "prepared"
        BY <1>1, <2>7, <3>2 DEF PlanNodes, Range
      <3> QED BY <3>1, <3>3 DEF Progress, Backward
    <2> QED BY <2>9, <2>10
  <1>5. CASE AtWork(w, o) /\ PrepareRejected(w, o)
    <2>1. /\ r.pc = "prepare" /\ e = d /\ Progress(o, d, r)
          /\ q = [r EXCEPT !.pc = "discard", !.call = "none"]
      BY <1>1, <1>5 DEF PrepareRejected, store
    <2>2. q.pc = "discard" /\ q.todo = r.todo
      BY <1>1, <2>1 DEF Run
    <2> QED BY <2>1, <2>2 DEF Progress, Backward, Behind
  <1>6. CASE AtWork(w, o) /\ PrepareFailed(w, o)
    <2> DEFINE before == SubSeq(Plan[o], 1, L - Len(r.todo))
    <2>1. ~Fault("database")
      BY DEF Fault, Shape, TypeOK
    <2>2. /\ r.pc \in {"prepare", "discard"} /\ e = d /\ Progress(o, d, r)
          /\ q = [r EXCEPT !.pc = "revoke", !.call = "none", !.todo = Reverse(before)]
      BY <1>1, <1>6, <2>1 DEF PrepareFailed
    <2>3. q.pc = "revoke" /\ q.todo = Reverse(before)
      BY <1>1, <2>2 DEF Run
    <2>4. Len(r.todo) \in Nat /\ Len(r.todo) <= L
      BY <1>1, <1>2, <2>2 DEF RunShape, Forward
    <2>5. /\ before \in Seq(Node) /\ DOMAIN before = 1 .. Len(before)
          /\ \A i \in 1 .. L - Len(r.todo) : i \in 1 .. Len(before) /\ before[i] = Plan[o][i]
      <3>1. L - Len(r.todo) \in Int /\ L - Len(r.todo) <= L
        <4>1. L \in Nat
          BY <1>1
        <4> HIDE DEF r, L
        <4> QED BY <2>4, <4>1
      <3>2. /\ before \in Seq(Node)
            /\ \A i \in 1 .. L - Len(r.todo) : i \in 1 .. Len(before) /\ before[i] = Plan[o][i]
        BY <1>1, <3>1, SeqPrefix
      <3> HIDE DEF before
      <3> QED BY <3>2
    <2>6. Range(q.todo) = Range(before)
      BY <2>3, <2>5, SeqReverse
    <2> HIDE DEF before
    <2>7. ASSUME NEW n \in PlanNodes(o) \ Range(q.todo) PROVE e.node[n] = "pending"
      <3>1. PICK j \in DOMAIN Plan[o] : n = Plan[o][j]
        BY DEF PlanNodes, Range
      <3>2. ~(j <= Behind(o, r))
        <4> SUFFICES ASSUME j <= Behind(o, r) PROVE FALSE
          OBVIOUS
        <4>1. j \in 1 .. L - Len(r.todo)
          <5>1. j \in 1 .. L /\ L \in Nat
            BY <1>1
          <5>2. Behind(o, r) = L - Len(r.todo)
            BY DEF Behind
          <5> HIDE DEF r, L
          <5> QED BY <2>4, <5>1, <5>2
        <4>2. n \in Range(before)
          BY <2>5, <3>1, <4>1 DEF Range
        <4> QED BY <2>6, <4>2
      <3> QED BY <2>2, <3>1, <3>2 DEF Progress
    <2> QED BY <2>3, <2>7 DEF Progress
  <1> QED BY <1>3, <1>4, <1>5, <1>6

LEMMA CommitProgress ==
  ASSUME Shape, NEW w \in Worker, NEW o \in Op, Progress(o, doc[o], run[w][o]),
         \/ Seal(w, o) \/ Committed(w, o) \/ Verified(w, o) \/ CommitFailed(w, o)
         \/ FinalizeRejected(w, o)
  PROVE  Progress(o, doc'[o], run'[w][o])
  <1> DEFINE r == run[w][o]
             q == run'[w][o]
             d == doc[o]
             e == doc'[o]
  <1>1. /\ r \in Run /\ RunShape(o, r) /\ doc \in [Op -> Document] /\ d \in Document
        /\ PlanNodes(o) \subseteq Node /\ Plan[o] \in Seq(Node) /\ Len(Plan[o]) \in Nat
        /\ \A s : Go(w, o, s) => q = s
    BY OrderFacts
  <1>2. CASE Seal(w, o) \/ Committed(w, o) \/ Verified(w, o)
    <2>1. r.pc \in {"seal", "commit", "verify"} /\ q.pc \in {"commit", "verify", "finalize"}
      <3>1. CASE Seal(w, o)
        BY <1>1, <3>1 DEF Seal, Run
      <3>2. CASE Committed(w, o)
        BY <1>1, <3>2 DEF Committed, Run
      <3>3. CASE Verified(w, o)
        BY <1>1, <3>3 DEF Verified, Run
      <3> QED BY <1>2, <3>1, <3>2, <3>3
    <2>2. \A n \in PlanNodes(o) : e.node[n] = d.node[n] \/ e.node[n] = "committed"
      <3>1. CASE Seal(w, o)
        BY <1>1, <3>1 DEF Seal, Document
      <3>2. CASE Committed(w, o)
        <4>1. RecordNode(o, Head(r.todo), "committed")
          BY <3>2 DEF Committed
        <4>2. \A m \in Node : e.node[m] = IF m = Head(r.todo) THEN "committed" ELSE d.node[m]
          BY <1>1, <4>1, RecordFacts DEF NodeState
        <4> QED BY <1>1, <4>2
      <3>3. CASE Verified(w, o)
        BY <3>3 DEF Verified, store
      <3> QED BY <1>2, <3>1, <3>2, <3>3
    <2>3. \A n \in PlanNodes(o) : d.node[n] \in {"prepared", "committed"}
      BY <2>1 DEF Progress
    <2> QED BY <2>1, <2>2, <2>3 DEF Progress, Backward
  <1>3. CASE CommitFailed(w, o) \/ FinalizeRejected(w, o)
    <2>1. PICK u \in 0 .. Len(Plan[o]) : q.pc = "revoke" /\ q.todo = UndoOrder(o, u)
      <3>1. CASE CommitFailed(w, o)
        <4>1. Len(r.todo) - 1 \in 0 .. Len(Plan[o])
          BY <1>1, <3>1 DEF CommitFailed, RunShape, Run, Forward
        <4>2. q = [r EXCEPT !.pc = "revoke", !.call = "none",
                            !.todo = UndoOrder(o, Len(r.todo) - 1)]
          BY <1>1, <3>1 DEF CommitFailed
        <4> QED BY <1>1, <4>1, <4>2 DEF Run
      <3>2. CASE FinalizeRejected(w, o)
        <4>1. q = [r EXCEPT !.pc = "revoke", !.todo = UndoOrder(o, 0)]
          BY <1>1, <3>2 DEF FinalizeRejected
        <4>2. 0 \in 0 .. Len(Plan[o])
          BY <1>1
        <4> QED BY <1>1, <4>1, <4>2 DEF Run
      <3> QED BY <1>3, <3>1, <3>2
    <2>2. Range(UndoOrder(o, u)) = PlanNodes(o)
      BY UndoOrderSound
    <2>3. PlanNodes(o) \ Range(q.todo) = {}
      BY <2>1, <2>2
    <2> QED BY <2>1, <2>3 DEF Progress
  <1> QED BY <1>2, <1>3

LEMMA UndoProgress ==
  ASSUME Shape, NEW w \in Worker, NEW o \in Op, Progress(o, doc[o], run[w][o]),
         Send(w, o) \/ Revoke(w, o) \/ Undone(w, o) \/ Skip(w, o)
  PROVE  Progress(o, doc'[o], run'[w][o])
  <1> DEFINE r == run[w][o]
             q == run'[w][o]
             d == doc[o]
             e == doc'[o]
             rest == Tail(r.todo)
  <1>1. /\ r \in Run /\ RunShape(o, r) /\ doc \in [Op -> Document] /\ d \in Document
        /\ PlanNodes(o) \subseteq Node
        /\ \A s : Go(w, o, s) => q = s
    BY OrderFacts
  <1>2. r.todo # <<>> => Range(r.todo) = {Head(r.todo)} \cup Range(rest)
    BY <1>1, SeqTail DEF Run
  <1>3. CASE Send(w, o)
    <2>1. e = d /\ \E call : q = [r EXCEPT !.call = call]
      BY <1>1, <1>3 DEF Send, store
    <2>2. q.pc = r.pc /\ q.todo = r.todo
      BY <1>1, <2>1 DEF Run
    <2> QED BY <2>1, <2>2 DEF Progress, Behind
  <1>4. CASE Revoke(w, o)
    <2>1. /\ r.pc = "revoke" /\ q = [r EXCEPT !.pc = "undo"]
          /\ doc' = [doc EXCEPT ![o].status = "rolling_back"]
      BY <1>1, <1>4 DEF Revoke
    <2>2. q.pc = "undo" /\ q.todo = r.todo /\ e.node = d.node
      BY <1>1, <2>1 DEF Run, Document
    <2> QED BY <2>1, <2>2 DEF Progress, Backward
  <1>5. CASE Undone(w, o)
    <2> DEFINE state == IF r.call = "ok"
                        THEN IF r.retry THEN "pending" ELSE "rolled_back"
                        ELSE "failed"
    <2>1. /\ r.pc = "undo" /\ RecordNode(o, Head(r.todo), state) /\ r.todo # <<>>
          /\ q = [r EXCEPT !.call = "none", !.todo = rest, !.bad = @ \/ r.call # "ok"]
      BY <1>1, <1>5 DEF Undone, RunShape
    <2>2. q.pc = "undo" /\ q.todo = rest
      BY <1>1, <2>1 DEF Run
    <2>3. \A m \in Node : e.node[m] = IF m = Head(r.todo) THEN state ELSE d.node[m]
      <3>1. state \in NodeState
        BY DEF NodeState
      <3> QED BY <1>1, <2>1, <3>1, RecordFacts
    <2>4. state \notin {"prepared", "committed"}
      OBVIOUS
    <2>5. \A n \in PlanNodes(o) \ Range(r.todo) : d.node[n] \notin {"prepared", "committed"}
      BY <2>1 DEF Progress, Backward
    <2> HIDE DEF state
    <2>6. \A n \in PlanNodes(o) \ Range(rest) : e.node[n] \notin {"prepared", "committed"}
      BY <1>1, <1>2, <2>1, <2>3, <2>4, <2>5
    <2> QED BY <2>2, <2>6 DEF Progress
  <1>6. CASE Skip(w, o)
    <2>1. /\ r.pc = "undo" /\ r.todo # <<>> /\ e = d
          /\ d.node[Head(r.todo)] \notin Dirty
          /\ q = [r EXCEPT !.todo = rest]
      BY <1>1, <1>6 DEF Skip, store
    <2>2. q.pc = "undo" /\ q.todo = rest
      BY <1>1, <2>1 DEF Run
    <2>3. \A n \in PlanNodes(o) \ Range(r.todo) : d.node[n] \notin {"prepared", "committed"}
      BY <2>1 DEF Progress, Backward
    <2>4. \A n \in PlanNodes(o) \ Range(rest) : e.node[n] \notin {"prepared", "committed"}
      BY <1>2, <2>1, <2>3 DEF Dirty
    <2> QED BY <2>2, <2>4 DEF Progress
  <1> QED BY <1>3, <1>4, <1>5, <1>6

LEMMA AsideStaysAside ==
  ASSUME Shape, NEW w \in Worker, NEW o \in Op, Aside(w, o), AtWork(w, o)'
  PROVE  LocksTaken(w, o)
  <1>1. /\ run[w][o] \in Run
        /\ \A s : Go(w, o, s) => run'[w][o] = s
    BY OrderFacts
  <1>2. CASE TakeLock(w, o)
    BY <1>1, <1>2 DEF TakeLock, AtWork, Run
  <1>3. CASE ReleaseLock(w, o)
    BY <1>1, <1>3 DEF ReleaseLock, AtWork, Run
  <1>4. CASE EndRun(w, o)
    BY <1>1, <1>4 DEF EndRun, AtWork, Idle
  <1>5. CASE Abort(w, o)
    BY <1>1, <1>5 DEF Abort, AtWork, Run
  <1> QED BY <1>2, <1>3, <1>4, <1>5 DEF Aside

LEMMA OwnProgress ==
  ASSUME Shape, Manned, Whole, Working, NEW w \in Worker, NEW o \in Op, Step(w, o),
         faults' = faults, AtWork(w, o)'
  PROVE  Progress(o, doc'[o], run'[w][o])
  <1>1. AtWork(w, o) => Progress(o, doc[o], run[w][o])
    BY DEF Working
  <1>2. CASE AtWork(w, o) /\ WorkStep(w, o)
    <2>1. ~Finalize(w, o) /\ ~Finish(w, o)
      <3>1. doc[o] \in Document /\ doc \in [Op -> Document]
        BY RunFacts
      <3> QED BY <3>1 DEF AtWork, Active, Finalize, Finish, Document
    <2> QED BY <1>1, <1>2, <2>1, PrepareProgress, CommitProgress, UndoProgress DEF WorkStep
  <1>3. CASE Aside(w, o)
    <2>1. LocksTaken(w, o)
      BY <1>3, AsideStaysAside
    <2> QED BY <1>1, <2>1, PrepareProgress
  <1> QED BY <1>2, <1>3, StepKinds

-----------------------------------------------------------------------------
(* What the run knows of a shared node.                                    *)

LEMMA StepLeavesHosts ==
  ASSUME Shape, Manned, NEW w \in Worker, NEW o \in Op, Step(w, o), faults' = faults
  PROVE  host' = host
  BY StepKinds, AsideFrame, WorkFacts, WorkFrame

LEMMA PrepareKnown ==
  ASSUME Shape, Record, NEW w \in Worker, NEW o \in Op, OwnsOp(w, o), faults' = faults,
         NEW n \in Shared, NodeKnown(n, o, host[n], doc[o], run[w][o], Fitting(n)),
         Prepared(w, o) \/ PrepareRejected(w, o) \/ PrepareFailed(w, o) \/ Seal(w, o)
  PROVE  /\ run'[w][o].call # "ok" /\ doc'[o].rev = doc[o].rev
         /\ host[n].config \in Fitting(n)
         /\ ~(/\ run'[w][o].pc \in {"commit", "verify", "finalize"}
              /\ doc'[o].node[n] = "committed")
  <1> DEFINE r == run[w][o]
             q == run'[w][o]
             d == doc[o]
             e == doc'[o]
  <1>1. /\ r \in Run /\ RunShape(o, r) /\ doc \in [Op -> Document] /\ d \in Document
        /\ \A s : Go(w, o, s) => q = s
        /\ RunRecorded(o, d, r) /\ n \in PlanNodes(o)
    BY OrderFacts DEF Record, Shared
  <1>2. ~Fault("database")
    BY DEF Fault, Shape, TypeOK
  <1>3. r.pc \in {"prepare", "discard", "seal"}
    BY <1>2 DEF Prepared, PrepareRejected, PrepareFailed, Seal
  <1>4. host[n].config \in Fitting(n)
    BY <1>3 DEF NodeKnown
  <1>5. CASE Prepared(w, o)
    <2>1. /\ RecordNode(o, Head(r.todo), "prepared")
          /\ q = [r EXCEPT !.call = "none", !.todo = Tail(r.todo),
                           !.pc = IF Tail(r.todo) = <<>> THEN "seal" ELSE @]
          /\ r.pc = "prepare"
      BY <1>1, <1>5 DEF Prepared
    <2>2. q.call = "none" /\ q.pc \in {"prepare", "seal"}
      BY <1>1, <2>1 DEF Run
    <2>3. e.rev = d.rev
      BY <1>1, <2>1, RecordFacts DEF NodeState
    <2> QED BY <1>4, <2>2, <2>3
  <1>6. CASE PrepareRejected(w, o)
    <2>1. q = [r EXCEPT !.pc = "discard", !.call = "none"] /\ e = d
      BY <1>1, <1>6 DEF PrepareRejected, store
    <2>2. q.call = "none" /\ q.pc = "discard"
      BY <1>1, <2>1 DEF Run
    <2> QED BY <1>4, <2>1, <2>2
  <1>7. CASE PrepareFailed(w, o)
    <2>1. /\ \E s : q = [r EXCEPT !.pc = "revoke", !.call = "none", !.todo = s]
          /\ e = d
      BY <1>1, <1>2, <1>7 DEF PrepareFailed
    <2>2. q.call = "none" /\ q.pc = "revoke"
      BY <1>1, <2>1 DEF Run
    <2> QED BY <1>4, <2>1, <2>2
  <1>8. CASE Seal(w, o)
    <2>1. /\ q = [r EXCEPT !.pc = "commit", !.todo = Plan[o]] /\ r.pc = "seal"
          /\ doc' = [doc EXCEPT ![o].status = "committing"]
      BY <1>1, <1>8 DEF Seal
    <2>2. r.call = "none" /\ q.call = r.call
      BY <1>1, <2>1 DEF RunShape, Busy, Run
    <2>3. e.rev = d.rev /\ e.node = d.node
      BY <1>1, <2>1 DEF Document
    <2>4. d.node[n] # "committed"
      BY <1>1, <2>1 DEF RunRecorded, Changed
    <2> QED BY <1>4, <2>2, <2>3, <2>4
  <1> QED BY <1>5, <1>6, <1>7, <1>8

LEMMA CommitKnown ==
  ASSUME Shape, NEW w \in Worker, NEW o \in Op, OwnsOp(w, o),
         NEW n \in Shared, NodeKnown(n, o, host[n], doc[o], run[w][o], Fitting(n)),
         \/ Committed(w, o) \/ Verified(w, o) \/ CommitFailed(w, o)
         \/ FinalizeRejected(w, o)
  PROVE  /\ run'[w][o].call # "ok" /\ doc'[o].rev = doc[o].rev
         /\ (\/ run'[w][o].pc \in {"prepare", "discard", "seal"}
             \/ doc'[o].node[n] \in {"pending", "rolled_back"})
               => host[n].config \in Fitting(n)
         /\ doc'[o].node[n] = "committed" /\ run'[w][o].pc # "revoke"
               => host[n].config = doc[o].rev
  <1> DEFINE r == run[w][o]
             q == run'[w][o]
             d == doc[o]
             e == doc'[o]
  <1>1. /\ r \in Run /\ RunShape(o, r) /\ doc \in [Op -> Document] /\ d \in Document
        /\ \A s : Go(w, o, s) => q = s
        /\ n \in Node
    BY OrderFacts DEF Shared
  <1>2. /\ d.node[n] \in {"pending", "rolled_back"} => host[n].config \in Fitting(n)
        /\ r.pc \in {"commit", "verify", "finalize"} /\ d.node[n] = "committed"
              => host[n].config = d.rev
        /\ r.call = "ok" /\ n = Head(r.todo) /\ r.pc = "commit" => host[n].config = d.rev
    BY DEF NodeKnown
  <1>3. CASE Committed(w, o)
    <2>1. /\ RecordNode(o, Head(r.todo), "committed") /\ r.pc = "commit" /\ r.call = "ok"
          /\ q = [r EXCEPT !.pc = "verify", !.call = "none"]
      BY <1>1, <1>3 DEF Committed
    <2>2. q.call = "none" /\ q.pc = "verify"
      BY <1>1, <2>1 DEF Run
    <2>3. /\ e.rev = d.rev
          /\ e.node[n] = IF n = Head(r.todo) THEN "committed" ELSE d.node[n]
      BY <1>1, <2>1, RecordFacts DEF NodeState
    <2> QED BY <1>2, <2>1, <2>2, <2>3
  <1>4. CASE Verified(w, o)
    <2>1. /\ q = [r EXCEPT !.call = "none", !.todo = Tail(r.todo),
                           !.pc = IF Tail(r.todo) = <<>> THEN "finalize" ELSE "commit"]
          /\ r.pc = "verify" /\ e = d
      BY <1>1, <1>4 DEF Verified, store
    <2>2. q.call = "none" /\ q.pc \in {"finalize", "commit"}
      BY <1>1, <2>1 DEF Run
    <2> QED BY <1>2, <2>1, <2>2
  <1>5. CASE CommitFailed(w, o)
    <2>1. /\ \E s : q = [r EXCEPT !.pc = "revoke", !.call = "none", !.todo = s]
          /\ e = d
      BY <1>1, <1>5 DEF CommitFailed, store
    <2>2. q.call = "none" /\ q.pc = "revoke"
      BY <1>1, <2>1 DEF Run
    <2> QED BY <1>2, <2>1, <2>2
  <1>6. CASE FinalizeRejected(w, o)
    <2>1. /\ \E s : q = [r EXCEPT !.pc = "revoke", !.todo = s]
          /\ e = d /\ r.pc = "finalize"
      BY <1>1, <1>6 DEF FinalizeRejected, store
    <2>2. r.call = "none" /\ q.call = r.call /\ q.pc = "revoke"
      BY <1>1, <2>1 DEF RunShape, Busy, Run
    <2> QED BY <1>2, <2>1, <2>2
  <1> QED BY <1>3, <1>4, <1>5, <1>6

LEMMA UndoKnown ==
  ASSUME Shape, Manned, NEW w \in Worker, NEW o \in Op, AtWork(w, o),
         NEW n \in Shared, NodeKnown(n, o, host[n], doc[o], run[w][o], Fitting(n)),
         Send(w, o) \/ Revoke(w, o) \/ Undone(w, o) \/ Skip(w, o)
  PROVE  /\ run'[w][o].call # "ok" /\ doc'[o].rev = doc[o].rev
         /\ (\/ run'[w][o].pc \in {"prepare", "discard", "seal"}
             \/ doc'[o].node[n] \in {"pending", "rolled_back"})
               => host[n].config \in Fitting(n)
         /\ (/\ run'[w][o].pc \in {"commit", "verify", "finalize"}
             /\ doc'[o].node[n] = "committed")
               => host[n].config = doc[o].rev
  <1> DEFINE r == run[w][o]
             q == run'[w][o]
             d == doc[o]
             e == doc'[o]
  <1>1. /\ r \in Run /\ RunShape(o, r) /\ doc \in [Op -> Document] /\ d \in Document
        /\ \A s : Go(w, o, s) => q = s
        /\ n \in Node
    BY OrderFacts DEF Shared
  <1>2. /\ r.pc \in {"prepare", "discard", "seal"} \/ d.node[n] \in {"pending", "rolled_back"}
              => host[n].config \in Fitting(n)
        /\ r.pc \in {"commit", "verify", "finalize"} /\ d.node[n] = "committed"
              => host[n].config = d.rev
        /\ r.call = "ok" /\ n = Head(r.todo) /\ r.pc = "undo" => host[n].config \in Fitting(n)
    BY DEF NodeKnown
  <1>3. CASE Send(w, o)
    <2>1. e = d /\ \E call \in {"sent", "unsent"} : q = [r EXCEPT !.call = call]
      BY <1>1, <1>3 DEF Send, store
    <2>2. q.pc = r.pc /\ q.call # "ok"
      BY <1>1, <2>1 DEF Run
    <2> QED BY <1>2, <2>1, <2>2
  <1>4. CASE Revoke(w, o)
    <2>1. /\ r.pc = "revoke" /\ q = [r EXCEPT !.pc = "undo"]
          /\ doc' = [doc EXCEPT ![o].status = "rolling_back"]
      BY <1>1, <1>4 DEF Revoke
    <2>2. r.call = "none" /\ q.call = r.call /\ q.pc = "undo"
      BY <1>1, <2>1 DEF RunShape, Busy, Run
    <2>3. e.node = d.node /\ e.rev = d.rev
      BY <1>1, <2>1 DEF Document
    <2> QED BY <1>2, <2>2, <2>3
  <1>5. CASE Undone(w, o)
    <2> DEFINE state == IF r.call = "ok"
                        THEN IF r.retry THEN "pending" ELSE "rolled_back"
                        ELSE "failed"
    <2>1. /\ r.pc = "undo" /\ RecordNode(o, Head(r.todo), state)
          /\ q = [r EXCEPT !.call = "none", !.todo = Tail(r.todo), !.bad = @ \/ r.call # "ok"]
      BY <1>1, <1>5 DEF Undone
    <2>2. q.pc = "undo" /\ q.call = "none"
      BY <1>1, <2>1 DEF Run
    <2>3. /\ e.rev = d.rev
          /\ e.node[n] = IF n = Head(r.todo) THEN state ELSE d.node[n]
      <3>1. state \in NodeState
        BY DEF NodeState
      <3> QED BY <1>1, <2>1, <3>1, RecordFacts
    <2>4. e.node[n] \in {"pending", "rolled_back"} => host[n].config \in Fitting(n)
      <3>1. CASE n = Head(r.todo)
        <4>1. CASE r.call = "ok"
          BY <1>2, <2>1, <3>1, <4>1
        <4>2. CASE r.call # "ok"
          BY <2>3, <3>1, <4>2
        <4> QED BY <4>1, <4>2
      <3>2. CASE n # Head(r.todo)
        BY <1>2, <2>3, <3>2
      <3> QED BY <3>1, <3>2
    <2> QED BY <2>2, <2>3, <2>4
  <1>6. CASE Skip(w, o)
    <2>1. /\ r.pc = "undo" /\ r.call = "none" /\ e = d /\ q = [r EXCEPT !.todo = Tail(r.todo)]
      BY <1>1, <1>6 DEF Skip, store
    <2>2. q.pc = "undo" /\ q.call = "none"
      BY <1>1, <2>1 DEF Run
    <2> QED BY <1>2, <2>1, <2>2
  <1> QED BY <1>3, <1>4, <1>5, <1>6

LEMMA LocksTakenKnown ==
  ASSUME Shape, Manned, Whole, Resting, NEW w \in Worker, NEW o \in Op, LocksTaken(w, o),
         NEW n \in Shared
  PROVE  NodeKnown(n, o, host[n], doc[o], run'[w][o], Fitting(n))
  <1>1. /\ run[w][o] \in Run /\ RunShape(o, run[w][o]) /\ RunManned(w, o)
        /\ run[w][o].pc = "lock" /\ run[w][o].held = PlanNodes(o) /\ n \in PlanNodes(o)
    BY OrderFacts DEF LocksTaken, Manned, Shared
  <1>2. Untouched(o) /\ run'[w][o] = [run[w][o] EXCEPT !.pc = "prepare"]
    BY LocksTakenFresh
  <1>3. run'[w][o].pc = "prepare" /\ run'[w][o].call = "none"
    BY <1>1, <1>2 DEF Run, RunShape, Busy
  <1>4. \A v \in Worker, p \in Op : ~AtWork(v, p)
    <2> SUFFICES ASSUME NEW v \in Worker, NEW p \in Op, AtWork(v, p)
                 PROVE  FALSE
      OBVIOUS
    <2>1. OwnsLocks(w, o) /\ n \in run[w][o].held
      BY <1>1 DEF RunManned
    <2>2. w = v /\ o = p
      BY <2>1, OneAtWork
    <2> QED BY <1>1, <2>2 DEF AtWork
  <1>5. host[n].config \in Fitting(n) /\ host[n].state[o] = "absent"
    BY <1>1, <1>2, <1>4 DEF Resting, Untouched
  <1> QED BY <1>3, <1>5 DEF NodeKnown

LEMMA OwnKnown ==
  ASSUME Shape, Record, Manned, Whole, Working, Resting,
         NEW w \in Worker, NEW o \in Op, Step(w, o), faults' = faults, AtWork(w, o)',
         NEW n \in Shared
  PROVE  NodeKnown(n, o, host'[n], doc'[o], run'[w][o], Fitting(n)')
  <1>1. host' = host /\ n \in Node
    BY StepLeavesHosts DEF Shared
  <1>2. CASE AtWork(w, o) /\ WorkStep(w, o)
    <2>1. OwnsOp(w, o) /\ NodeKnown(n, o, host[n], doc[o], run[w][o], Fitting(n))
      BY <1>2, WorkFacts DEF Working
    <2>2. ~Finalize(w, o) /\ ~Finish(w, o)
      <3>1. doc[o] \in Document /\ doc \in [Op -> Document]
        BY RunFacts
      <3> QED BY <3>1 DEF AtWork, Active, Finalize, Finish, Document
    <2>3. Fitting(n) \subseteq Fitting(n)'
      <3>1. deployed' = deployed
        BY <1>2, <2>1, <2>2, WorkFrame
      <3>2. \A p \in Op : doc[p].status = "failed" => doc'[p] = doc[p]
        BY <2>1, StepWrites DEF OwnsOp, Active
      <3> QED BY <1>1, <3>1, <3>2, FittingStays
    <2>4. NodeKnown(n, o, host[n], doc'[o], run'[w][o], Fitting(n))
      <3>1. CASE Prepared(w, o) \/ PrepareRejected(w, o) \/ PrepareFailed(w, o) \/ Seal(w, o)
        <4>1. /\ run'[w][o].call # "ok" /\ doc'[o].rev = doc[o].rev
              /\ host[n].config \in Fitting(n)
              /\ ~(/\ run'[w][o].pc \in {"commit", "verify", "finalize"}
                   /\ doc'[o].node[n] = "committed")
          BY <2>1, <3>1, PrepareKnown
        <4> QED BY <2>1, <4>1 DEF NodeKnown
      <3>2. CASE \/ Committed(w, o) \/ Verified(w, o) \/ CommitFailed(w, o)
                 \/ FinalizeRejected(w, o)
        BY <2>1, <3>2, CommitKnown DEF NodeKnown
      <3>3. CASE Send(w, o) \/ Revoke(w, o) \/ Undone(w, o) \/ Skip(w, o)
        BY <1>2, <2>1, <3>3, UndoKnown DEF NodeKnown
      <3> QED BY <1>2, <2>2, <3>1, <3>2, <3>3 DEF WorkStep
    <2> QED BY <1>1, <2>3, <2>4, KnownStays
  <1>3. CASE ~AtWork(w, o) /\ Aside(w, o)
    <2>1. LocksTaken(w, o)
      BY <1>3, AsideStaysAside
    <2>2. UNCHANGED <<doc, deployed, host>>
      BY <1>3, AsideFrame
    <2>3. Fitting(n) \subseteq Fitting(n)'
      BY <1>1, <2>2, FittingStays
    <2> QED BY <2>1, <2>2, <2>3, LocksTakenKnown, KnownStays
  <1> QED BY <1>2, <1>3, StepKinds

LEMMA StepWorking ==
  ASSUME Shape, Record, Manned, Whole, Working, Resting,
         NEW w \in Worker, NEW o \in Op, Step(w, o), faults' = faults
  PROVE  Working'
  BY OthersWorking, OwnProgress, OwnKnown DEF Working

-----------------------------------------------------------------------------
(* When a run ends, the shared nodes are as deployed.                      *)

LEMMA EndResting ==
  ASSUME Shape, Record, Manned, Working, NEW w \in Worker, NEW o \in Op, AtWork(w, o),
         Finalize(w, o) \/ Finish(w, o), Step(w, o), NEW n \in Shared
  PROVE  host[n].config \in Fitting(n)'
  <1> DEFINE r == run[w][o]
             d == doc[o]
             e == doc'[o]
  <1>1. /\ r \in Run /\ RunShape(o, r) /\ doc \in [Op -> Document] /\ d \in Document
        /\ RunRecorded(o, d, r) /\ n \in PlanNodes(o) /\ n \in Node /\ host[n] \in Host
    BY OrderFacts, WorkFacts DEF Record, Shared, Shape, TypeOK
  <1>2. /\ Progress(o, d, r) /\ NodeKnown(n, o, host[n], d, r, Fitting(n))
        /\ host[n].config \in Revision
    BY <1>1 DEF Working, Host
  <1>3. CASE Finalize(w, o)
    <2>1. r.pc = "finalize" /\ deployed' = d.rev
      BY <1>3 DEF Finalize
    <2>2. r.todo = <<>>
      BY <1>1, <2>1 DEF RunShape
    <2>3. n \notin Range(r.todo)
      BY <2>2 DEF Range
    <2>4. d.node[n] = "committed"
      BY <1>1, <2>1, <2>3 DEF RunRecorded
    <2>5. host[n].config = deployed'
      BY <1>2, <2>1, <2>4 DEF NodeKnown
    <2> QED BY <1>2, <2>5 DEF Fitting
  <1>4. CASE Finish(w, o)
    <2>1. /\ r.pc = "undo" /\ r.todo = <<>> /\ deployed' = deployed
          /\ doc' = [doc EXCEPT ![o].status = IF r.bad THEN "failed" ELSE "rolled_back",
                                ![o].live = FALSE]
      BY <1>4 DEF Finish
    <2>2. n \notin Range(r.todo)
      BY <2>1 DEF Range
    <2>3. CASE d.node[n] = "failed"
      <3>1. r.bad
        BY <1>1, <2>1, <2>2, <2>3 DEF RunRecorded, Undoing, Backward, Changed
      <3>2. e.status = "failed" /\ e.node[n] = "failed"
        BY <1>1, <2>1, <2>3, <3>1 DEF Document
      <3> QED BY <1>2, <3>2 DEF Fitting, Excused
    <2>4. CASE d.node[n] # "failed"
      <3>1. d.node[n] \in {"pending", "rolled_back"}
        <4>1. d.node[n] \in NodeState
          BY <1>1 DEF Document
        <4>2. d.node[n] \notin {"prepared", "committed"}
          BY <1>1, <1>2, <2>1, <2>2 DEF Progress, Backward
        <4> QED BY <2>4, <4>1, <4>2 DEF NodeState
      <3>2. host[n].config \in Fitting(n)
        BY <1>2, <3>1 DEF NodeKnown
      <3>3. \A p \in Op : doc[p].status = "failed" => doc'[p] = doc[p]
        BY <1>1, <2>1 DEF AtWork, Active
      <3> QED BY <1>1, <2>1, <3>2, <3>3, FittingStays
    <2> QED BY <2>3, <2>4
  <1> QED BY <1>3, <1>4

LEMMA StepResting ==
  ASSUME Shape, Record, Manned, Working, Resting,
         NEW w \in Worker, NEW o \in Op, Step(w, o), faults' = faults
  PROVE  Resting'
  <1> SUFFICES ASSUME \A v \in Worker, p \in Op : ~AtWork(v, p)', NEW n \in Shared
               PROVE  host'[n].config \in Fitting(n)'
    BY DEF Resting
  <1>1. host' = host /\ n \in Node
    BY StepLeavesHosts DEF Shared
  <1>2. CASE AtWork(w, o) /\ WorkStep(w, o)
    <2>1. OwnsOp(w, o) /\ ~AtWork(w, o)'
      BY <1>2, WorkFacts
    <2>2. Finalize(w, o) \/ Finish(w, o)
      <3>1. CASE doc'[o].status \in Active
        BY <1>2, <2>1, <3>1, WorkFrame DEF AtWork, Active
      <3> QED BY <2>1, <3>1, StepEnds
    <2> QED BY <1>1, <1>2, <2>2, EndResting
  <1>3. CASE ~AtWork(w, o) /\ Aside(w, o)
    <2>1. UNCHANGED <<doc, deployed, host>>
      BY <1>3, AsideFrame
    <2>2. \A v \in Worker, p \in Op : ~AtWork(v, p)
      <3> SUFFICES ASSUME NEW v \in Worker, NEW p \in Op, AtWork(v, p)
                   PROVE  FALSE
        OBVIOUS
      <3>1. run'[v][p] = run[v][p]
        BY <1>3, OtherRunsStay
      <3> QED BY <2>1, <3>1 DEF AtWork
    <2>3. host[n].config \in Fitting(n)
      BY <2>2 DEF Resting
    <2> QED BY <1>1, <2>1, <2>3, FittingStays
  <1> QED BY <1>2, <1>3, StepKinds

LEMMA StepAwaited ==
  ASSUME Awaited, NEW w \in Worker, NEW o \in Op, Step(w, o)
  PROVE  Awaited'
  <1>1. w # Nobody
    BY NullAssumption DEF Nobody
  <1>2. CASE Send(w, o)
    BY <1>1, <1>2 DEF Send, Awaited
  <1>3. CASE ~Send(w, o)
    <2>1. remote' = remote
      BY <1>3 DEF Step, TakeLock, LocksTaken, Prepared, PrepareRejected, PrepareFailed, Seal,
                  Committed, Verified, CommitFailed, Finalize, FinalizeRejected, Revoke,
                  Undone, Skip, Retry, Finish, Abort, ReleaseLock, EndRun
    <2> QED BY <2>1 DEF Awaited
  <1> QED BY <1>2, <1>3

LEMMA StepUndisturbed ==
  ASSUME Shape, Record, Undisturbed, NEW w \in Worker, NEW o \in Op, Step(w, o),
         faults' = faults
  PROVE  Undisturbed'
  BY StepAwaited, StepManned, StepWhole, StepWorking, StepResting DEF Undisturbed

-----------------------------------------------------------------------------
(* The beginning of an operation, and leases that run out.                 *)

\* While nobody is at work on o, its document alone disturbs nothing.
LEMMA NobodyDisturbs ==
  ASSUME Whole, Working, Resting, NEW o \in Op, UNCHANGED <<host, deployed>>,
         \A p \in Op : p # o => doc'[p] = doc[p],
         \A v \in Worker, p \in Op : p # o => run'[v][p] = run[v][p],
         \A v \in Worker : ~AtWork(v, o) /\ ~AtWork(v, o)',
         Untouched(o), Untouched(o)'
  PROVE  Whole' /\ Working' /\ Resting'
  <1>1. \A v \in Worker, p \in Op : AtWork(v, p)' <=> AtWork(v, p)
    BY DEF AtWork
  <1>2. \A n \in Node : Fitting(n) \subseteq Fitting(n)'
    BY FittingStays DEF Untouched
  <1>3. Whole'
    <2> SUFFICES ASSUME NEW p \in Op, p # o
                 PROVE  \/ doc'[p].status \in Terminal
                        \/ Untouched(p)'
                        \/ \E v \in Worker : AtWork(v, p)'
      BY DEF Whole
    <2>1. doc'[p] = doc[p] /\ host' = host
      OBVIOUS
    <2>2. Untouched(p) => Untouched(p)'
      BY <2>1 DEF Untouched
    <2> QED BY <1>1, <2>1, <2>2 DEF Whole
  <1>4. Working'
    <2> SUFFICES ASSUME NEW v \in Worker, NEW p \in Op, AtWork(v, p)'
                 PROVE  /\ Progress(p, doc'[p], run'[v][p])
                        /\ \A n \in Shared :
                              NodeKnown(n, p, host'[n], doc'[p], run'[v][p], Fitting(n)')
      BY DEF Working
    <2>1. /\ p # o /\ AtWork(v, p) /\ host' = host
          /\ doc'[p] = doc[p] /\ run'[v][p] = run[v][p]
      BY <1>1
    <2>2. ASSUME NEW n \in Shared
          PROVE  NodeKnown(n, p, host'[n], doc'[p], run'[v][p], Fitting(n)')
      <3>1. NodeKnown(n, p, host[n], doc[p], run[v][p], Fitting(n)) /\ n \in Node
        BY <2>1 DEF Working, Shared
      <3> QED BY <1>2, <2>1, <3>1, KnownStays
    <2> QED BY <2>1, <2>2 DEF Working
  <1>5. Resting'
    BY <1>1, <1>2 DEF Resting, Shared
  <1> QED BY <1>3, <1>4, <1>5

LEMMA QueueUndisturbed ==
  ASSUME Shape, Undisturbed, NEW w \in Worker, NEW o \in Op, Queue(w, o)
  PROVE  Undisturbed'
  <1>1. /\ doc \in [Op -> Document] /\ doc[o].status = "none"
        /\ doc' = [doc EXCEPT ![o].status = "queued", ![o].rev = revision, ![o].prior = deployed]
        /\ UNCHANGED <<host, deployed, run, lock, remote>>
    BY DEF Queue, Shape, TypeOK
  <1>2. /\ doc'[o].status = "queued" /\ doc'[o].node = doc[o].node
        /\ \A p \in Op : p # o => doc'[p] = doc[p]
    BY <1>1 DEF Document
  <1>3. \A v \in Worker : ~AtWork(v, o) /\ ~AtWork(v, o)'
    BY <1>1, <1>2 DEF AtWork, Active
  <1>4. Untouched(o)
    BY <1>1, <1>3 DEF Undisturbed, Whole, Terminal
  <1>5. Untouched(o)'
    BY <1>1, <1>2, <1>4 DEF Untouched
  <1>6. Manned'
    <2> SUFFICES ASSUME NEW v \in Worker, NEW p \in Op
                 PROVE  RunManned(v, p)'
      BY DEF Manned
    <2>1. RunManned(v, p)
      BY DEF Undisturbed, Manned
    <2>2. CASE p = o
      BY <1>1, <2>1, <2>2 DEF RunManned, OwnsOp, Active
    <2>3. CASE p # o
      BY <1>1, <1>2, <2>1, <2>3 DEF RunManned, OwnsOp, OwnsLocks
    <2> QED BY <2>2, <2>3
  <1> QED BY <1>1, <1>2, <1>3, <1>4, <1>5, <1>6, NobodyDisturbs DEF Undisturbed, Awaited

LEMMA ClaimUndisturbed ==
  ASSUME Shape, Undisturbed, NEW w \in Worker, NEW o \in Op, Claim(w, o)
  PROVE  Undisturbed'
  <1>1. /\ doc \in [Op -> Document] /\ run \in [Worker -> [Op -> Run]]
        /\ run' = [run EXCEPT ![w][o] = AfterLocks(o)]
        /\ doc' = [doc EXCEPT ![o].owner = w, ![o].live = TRUE,
                              ![o].status = IF @ = "queued" THEN "preparing" ELSE @]
        /\ UNCHANGED <<host, deployed, lock, remote>>
        /\ run[w][o].pc = "idle"
        /\ doc[o].status = "queued" \/ ~doc[o].live
        /\ doc[o].status \in {"queued"} \cup Active
    BY DEF Claim, Go, Shape, TypeOK
  <1>2. \A v \in Worker : run[v][o].pc \in {"idle", "release"}
    BY <1>1 DEF Undisturbed, Manned, RunManned, OwnsOp, Active
  <1>3. Untouched(o) /\ \A v \in Worker : ~AtWork(v, o)
    BY <1>1, <1>2 DEF Undisturbed, Whole, AtWork, Terminal, Active
  <1>4. /\ doc'[o].status = "preparing" /\ doc'[o].owner = w /\ doc'[o].live
        /\ doc'[o].node = doc[o].node
        /\ \A p \in Op : p # o => doc'[p] = doc[p]
    BY <1>1, <1>3 DEF Document, Untouched, Active
  <1>5. AfterLocks(o) = [Idle EXCEPT !.pc = "lock", !.next = "prepare", !.todo = Plan[o]]
    BY <1>3 DEF AfterLocks, Untouched, Dirty
  <1>6. /\ run'[w][o].pc = "lock" /\ run'[w][o].next = "prepare"
        /\ ~run'[w][o].retry /\ run'[w][o].held = {}
        /\ \A v \in Worker, p \in Op : v # w \/ p # o => run'[v][p] = run[v][p]
    BY <1>1, <1>5 DEF Idle
  <1>7. \A v \in Worker : ~AtWork(v, o)'
    BY <1>2, <1>6 DEF AtWork
  <1>8. Untouched(o)'
    BY <1>1, <1>3, <1>4 DEF Untouched
  <1>9. Manned'
    <2> SUFFICES ASSUME NEW v \in Worker, NEW p \in Op
                 PROVE  RunManned(v, p)'
      BY DEF Manned
    <2>1. RunManned(v, p)
      BY DEF Undisturbed, Manned
    <2>2. CASE v = w /\ p = o
      BY <1>4, <1>6, <2>2 DEF RunManned, OwnsOp, OwnsLocks, Active
    <2>3. CASE p = o /\ v # w
      BY <1>2, <1>6, <2>3 DEF RunManned
    <2>4. CASE p # o
      <3>1. doc'[p] = doc[p] /\ run'[v][p] = run[v][p] /\ lock' = lock
        BY <1>1, <1>4, <1>6, <2>4
      <3>2. OwnsOp(v, p)' <=> OwnsOp(v, p)
        BY <3>1 DEF OwnsOp
      <3>3. OwnsLocks(v, p)' <=> OwnsLocks(v, p)
        BY <3>1 DEF OwnsLocks
      <3> QED BY <2>1, <3>1, <3>2, <3>3 DEF RunManned
    <2> QED BY <2>2, <2>3, <2>4
  <1> QED BY <1>1, <1>3, <1>4, <1>6, <1>7, <1>8, <1>9, NobodyDisturbs DEF Undisturbed, Awaited

LEMMA ExpireOpUndisturbed ==
  ASSUME Shape, Undisturbed, NEW o \in Op, ExpireOp(o), faults' = faults
  PROVE  Undisturbed'
  <1>1. /\ doc \in [Op -> Document] /\ doc[o].live /\ doc[o].status \in Active
        /\ doc' = [doc EXCEPT ![o].live = FALSE]
        /\ UNCHANGED <<host, deployed, run, lock, remote>>
        /\ faults \in Int
    BY DEF ExpireOp, Shape, TypeOK
  <1>2. ~Renews(doc[o].owner, o)
    BY <1>1 DEF ExpireOp, RunsOut, Fault
  <1>3. \A v \in Worker : run[v][o].pc \in {"idle", "release"}
    BY <1>1, <1>2 DEF Undisturbed, Manned, RunManned, OwnsOp, Active, Renews
  <1>4. /\ doc'[o].status = doc[o].status /\ doc'[o].node = doc[o].node
        /\ \A p \in Op : p # o => doc'[p] = doc[p]
    BY <1>1 DEF Document
  <1>5. \A v \in Worker : ~AtWork(v, o) /\ ~AtWork(v, o)'
    BY <1>1, <1>3 DEF AtWork
  <1>6. Untouched(o)
    BY <1>1, <1>5 DEF Undisturbed, Whole, Terminal, Active
  <1>7. Untouched(o)'
    BY <1>1, <1>4, <1>6 DEF Untouched
  <1>8. Manned'
    <2> SUFFICES ASSUME NEW v \in Worker, NEW p \in Op
                 PROVE  RunManned(v, p)'
      BY DEF Manned
    <2>1. RunManned(v, p)
      BY DEF Undisturbed, Manned
    <2>2. CASE p = o
      BY <1>1, <1>3, <2>2 DEF RunManned
    <2>3. CASE p # o
      BY <1>1, <1>4, <2>1, <2>3 DEF RunManned, OwnsOp, OwnsLocks
    <2> QED BY <2>2, <2>3
  <1> QED BY <1>1, <1>4, <1>5, <1>6, <1>7, <1>8, NobodyDisturbs DEF Undisturbed, Awaited

\* The rest of the state as it is, only the locks matter.
LEMMA LocksDisturb ==
  ASSUME Undisturbed, UNCHANGED <<doc, deployed, run, host, remote>>, Manned'
  PROVE  Undisturbed'
  <1>1. \A v \in Worker, p \in Op : AtWork(v, p)' <=> AtWork(v, p)
    BY DEF AtWork
  <1>2. \A n \in Node : Fitting(n)' = Fitting(n)
    BY DEF Fitting, Excused
  <1>3. \A p \in Op : Untouched(p)' <=> Untouched(p)
    BY DEF Untouched
  <1>4. Whole' /\ Awaited'
    BY <1>1, <1>3 DEF Undisturbed, Whole, Awaited
  <1>5. Working'
    BY <1>1, <1>2 DEF Undisturbed, Working, Shared
  <1>6. Resting'
    BY <1>1, <1>2 DEF Undisturbed, Resting, Shared
  <1> QED BY <1>4, <1>5, <1>6 DEF Undisturbed

LEMMA ExpireLockUndisturbed ==
  ASSUME Shape, Undisturbed, NEW n \in Node, ExpireLock(n), faults' = faults
  PROVE  Undisturbed'
  <1>1. /\ lock \in [Node -> Lock] /\ run \in [Worker -> [Op -> Run]]
        /\ lock' = [lock EXCEPT ![n].live = FALSE]
        /\ UNCHANGED <<doc, deployed, run, host, remote>>
        /\ faults \in Int
    BY DEF ExpireLock, Shape, TypeOK
  <1>2. ~(/\ Renews(lock[n].worker, lock[n].op)
          /\ n \in run[lock[n].worker][lock[n].op].held)
    BY <1>1 DEF ExpireLock, RunsOut, Fault
  <1>3. Manned'
    <2> SUFFICES ASSUME NEW v \in Worker, NEW p \in Op, run[v][p].pc \notin {"idle", "release"}
                 PROVE  RunManned(v, p)'
      BY <1>1 DEF Manned, RunManned
    <2>1. RunManned(v, p) /\ OwnsLocks(v, p) /\ run[v][p].held \subseteq Node
      BY <1>1 DEF Undisturbed, Manned, RunManned, Run
    <2>2. n \notin run[v][p].held
      BY <1>2, <2>1 DEF OwnsLocks, Renews
    <2>3. \A m \in run[v][p].held : lock'[m] = lock[m]
      BY <1>1, <2>1, <2>2
    <2>4. OwnsLocks(v, p)'
      BY <1>1, <2>1, <2>3 DEF OwnsLocks
    <2> QED BY <1>1, <2>1, <2>4 DEF RunManned, OwnsOp
  <1> QED BY <1>1, <1>3, LocksDisturb

-----------------------------------------------------------------------------
(* A node answers.                                                         *)

\* What the runner does to a node, whether or not its receipt arrives.
LEMMA RunnerEffect ==
  ASSUME NEW h \in Host, NEW o \in Op, NEW cmd \in Command,
         NEW g \in RunnerOk(h, o, cmd) \cup RunnerFails(h, o, cmd)
  PROVE  /\ \A p \in Op : p # o => g.state[p] = h.state[p] /\ g.backup[p] = h.backup[p]
         /\ \/ g.config = h.config
            \/ cmd = "commit" /\ g.config = doc[o].rev
            \/ cmd = "rollback" /\ h.state[o] = "bound" /\ g.config = h.backup[o]
         /\ g.state[o] = "bound" =>
               \/ h.state[o] = "bound" /\ g.backup[o] = h.backup[o]
               \/ cmd = "prepare" /\ g.backup[o] = h.config
         /\ g \in RunnerOk(h, o, cmd) =>
               /\ cmd = "commit" => g.config = doc[o].rev
               /\ cmd = "rollback" => h.state[o] = "bound" /\ g.config = h.backup[o]
  <1>1. CASE g = h
    <2>1. g \in RunnerOk(h, o, cmd) =>
               /\ cmd = "commit" => g.config = doc[o].rev
               /\ cmd = "rollback" => h.state[o] = "bound" /\ g.config = h.backup[o]
      BY DEF RunnerOk, Host
    <2> QED BY <1>1, <2>1
  <1>2. CASE cmd = "prepare" /\ g # h
    <2>1. CASE g = [h EXCEPT !.state[o] = "bound", !.backup[o] = h.config]
      <3>1. /\ g.config = h.config /\ g.state = [h.state EXCEPT ![o] = "bound"]
            /\ g.backup = [h.backup EXCEPT ![o] = h.config]
        BY <2>1 DEF Host
      <3>2. g.backup[o] = h.config
        BY <3>1 DEF Host
      <3> QED BY <1>2, <3>1, <3>2
    <2>2. CASE g = [h EXCEPT !.state[o] = "partial"]
      <3>1. /\ g.config = h.config /\ g.state = [h.state EXCEPT ![o] = "partial"]
            /\ g.backup = h.backup
        BY <2>2 DEF Host
      <3>2. g.state[o] = "partial"
        BY <3>1 DEF Host
      <3> QED BY <1>2, <3>1, <3>2
    <2> QED BY <1>2, <2>1, <2>2 DEF RunnerOk, RunnerFails
  <1>3. CASE cmd = "commit" /\ g # h
    <2>1. g = [h EXCEPT !.config = doc[o].rev]
      BY <1>3 DEF RunnerOk, RunnerFails
    <2> QED BY <1>3, <2>1 DEF Host
  <1>4. CASE cmd = "rollback" /\ g # h
    <2>1. g = [h EXCEPT !.config = h.backup[o]] /\ h.state[o] = "bound"
      BY <1>4 DEF RunnerOk, RunnerFails
    <2> QED BY <1>4, <2>1 DEF Host
  <1>5. CASE cmd = "verify" /\ g # h
    BY <1>5 DEF RunnerOk, RunnerFails
  <1> QED BY <1>1, <1>2, <1>3, <1>4, <1>5 DEF Command

\* The run that waits for the answer is at work.
LEMMA AnswerAwaited ==
  ASSUME Shape, Undisturbed, NEW c \in remote
  PROVE  /\ c.by \in Worker /\ c.op \in Op /\ c.node \in Node /\ c.cmd \in Command
         /\ AtWork(c.by, c.op)
         /\ run[c.by][c.op].pc \in Busy
         /\ c.cmd = CommandOf(run[c.by][c.op].pc)
         /\ c.node = Head(run[c.by][c.op].todo)
  <1>1. c \in Sent /\ c.by # Nobody
    BY DEF Shape, TypeOK, Undisturbed, Awaited
  <1>2. c.by \in Worker /\ c.op \in Op /\ c.node \in Node /\ c.cmd \in Command
    BY <1>1 DEF Sent
  <1> DEFINE r == run[c.by][c.op]
  <1>3. r.call = "sent" /\ c.cmd = CommandOf(r.pc) /\ c.node = Head(r.todo)
    BY <1>1 DEF Shape, RemoteSound
  <1>4. r.pc \in Busy
    BY <1>2, <1>3, RunFacts DEF RunShape
  <1>5. RunManned(c.by, c.op)
    BY <1>2 DEF Undisturbed, Manned
  <1>6. AtWork(c.by, c.op)
    BY <1>4, <1>5 DEF RunManned, OwnsOp, AtWork, Busy
  <1> QED BY <1>2, <1>3, <1>4, <1>6

LEMMA AnswerKnown ==
  ASSUME NEW n, NEW o \in Op, NEW h \in Host, NEW r \in Run, NEW fitting,
         NEW cmd \in Command, cmd = CommandOf(r.pc), r.pc \in Busy, n = Head(r.todo),
         NEW g \in RunnerOk(h, o, cmd) \cup RunnerFails(h, o, cmd),
         NEW how \in {"ok", "error"}, how = "ok" => g \in RunnerOk(h, o, cmd),
         r.pc = "commit" => doc[o].node[n] \in {"prepared", "committed"},
         NodeKnown(n, o, h, doc[o], r, fitting)
  PROVE  NodeKnown(n, o, g, doc[o], [r EXCEPT !.call = how], fitting)
  <1> DEFINE q == [r EXCEPT !.call = how]
             d == doc[o]
  <1>1. q.pc = r.pc /\ q.todo = r.todo /\ q.call = how
    BY DEF Run
  <1>2. /\ cmd = "commit" <=> r.pc = "commit"
        /\ cmd = "prepare" <=> r.pc = "prepare"
        /\ cmd = "rollback" <=> r.pc \in {"undo", "discard"}
    BY DEF CommandOf, Busy
  <1>3. /\ \/ g.config = h.config
           \/ cmd = "commit" /\ g.config = d.rev
           \/ cmd = "rollback" /\ h.state[o] = "bound" /\ g.config = h.backup[o]
        /\ g.state[o] = "bound" =>
               \/ h.state[o] = "bound" /\ g.backup[o] = h.backup[o]
               \/ cmd = "prepare" /\ g.backup[o] = h.config
        /\ how = "ok" =>
               /\ cmd = "commit" => g.config = d.rev
               /\ cmd = "rollback" => h.state[o] = "bound" /\ g.config = h.backup[o]
    BY RunnerEffect
  <1>4. /\ h.state[o] = "bound" => h.backup[o] \in fitting
        /\ r.pc \in {"prepare", "discard", "seal"} \/ d.node[n] \in {"pending", "rolled_back"}
              => h.config \in fitting
        /\ r.pc \in {"commit", "verify", "finalize"} /\ d.node[n] = "committed"
              => h.config = d.rev
    BY DEF NodeKnown
  <1>5. g.state[o] = "bound" => g.backup[o] \in fitting
    BY <1>2, <1>3, <1>4
  <1>6. r.pc \in {"prepare", "discard", "seal"} \/ d.node[n] \in {"pending", "rolled_back"}
           => g.config \in fitting
    <2>1. CASE cmd = "commit"
      BY <1>2, <2>1
    <2>2. CASE cmd # "commit"
      BY <1>3, <1>4, <2>2
    <2> QED BY <2>1, <2>2
  <1>7. r.pc \in {"commit", "verify", "finalize"} /\ d.node[n] = "committed"
           => g.config = d.rev
    BY <1>2, <1>3, <1>4
  <1>8. how = "ok" => /\ r.pc = "commit" => g.config = d.rev
                      /\ r.pc = "undo" => g.config \in fitting
    BY <1>2, <1>3, <1>4
  <1> HIDE DEF q
  <1>9. NodeKnown(n, o, g, d, q, fitting)
    BY <1>1, <1>5, <1>6, <1>7, <1>8 DEF NodeKnown
  <1> QED BY <1>9 DEF q

LEMMA ExecuteUndisturbed ==
  ASSUME Shape, Undisturbed, NEW c \in remote, Execute(c)
  PROVE  Undisturbed'
  <1> DEFINE w == c.by
             o == c.op
             r == run[w][o]
             here == host[c.node]
  <1>1. /\ w \in Worker /\ o \in Op /\ c.node \in Node /\ c.cmd \in Command
        /\ AtWork(w, o) /\ r.pc \in Busy /\ c.cmd = CommandOf(r.pc) /\ c.node = Head(r.todo)
    BY AnswerAwaited
  <1>2. /\ host \in [Node -> Host] /\ here \in Host /\ run \in [Worker -> [Op -> Run]]
        /\ r \in Run /\ w # Nobody /\ RunShape(o, r)
        /\ Manned /\ Whole /\ Working /\ Resting /\ Awaited
    BY <1>1, NullAssumption DEF Undisturbed, Shape, TypeOK, Nobody
  <1>3. PICK how \in {"ok", "error"}, g \in RunnerOk(here, o, c.cmd) \cup RunnerFails(here, o, c.cmd) :
          /\ how = "ok" => g \in RunnerOk(here, o, c.cmd)
          /\ host' = [host EXCEPT ![c.node] = g]
          /\ run' = [run EXCEPT ![w][o].call = how]
    BY <1>2 DEF Execute, Answer
  <1>4. UNCHANGED <<doc, deployed, lock>> /\ remote' \subseteq remote
    BY DEF Execute, store
  <1>5. /\ run'[w][o] = [r EXCEPT !.call = how]
        /\ \A v \in Worker, p \in Op : v # w \/ p # o => run'[v][p] = run[v][p]
    BY <1>1, <1>2, <1>3
  <1>6. \A v \in Worker, p \in Op :
           /\ run'[v][p].pc = run[v][p].pc /\ run'[v][p].next = run[v][p].next
           /\ run'[v][p].retry = run[v][p].retry /\ run'[v][p].todo = run[v][p].todo
           /\ run'[v][p].held = run[v][p].held
    BY <1>2, <1>5 DEF Run
  <1>7. \A v \in Worker, p \in Op : AtWork(v, p)' <=> AtWork(v, p)
    BY <1>4, <1>6 DEF AtWork
  <1>8. \A n \in Node : Fitting(n)' = Fitting(n)
    BY <1>4 DEF Fitting, Excused
  <1>9. Manned'
    <2> SUFFICES ASSUME NEW v \in Worker, NEW p \in Op
                 PROVE  RunManned(v, p)'
      BY DEF Manned
    <2>1. RunManned(v, p)
      BY <1>2 DEF Manned
    <2>2. OwnsOp(v, p)' <=> OwnsOp(v, p)
      BY <1>4 DEF OwnsOp
    <2>3. OwnsLocks(v, p)' <=> OwnsLocks(v, p)
      BY <1>4, <1>6 DEF OwnsLocks
    <2> QED BY <1>4, <1>6, <2>1, <2>2, <2>3 DEF RunManned
  <1>10. Whole'
    <2> SUFFICES ASSUME NEW p \in Op, \A v \in Worker : ~AtWork(v, p)'
                 PROVE  doc'[p].status \in Terminal \/ Untouched(p)'
      BY DEF Whole
    <2>1. p # o
      BY <1>1, <1>7
    <2>2. \A n \in Node : host'[n].state[p] = host[n].state[p]
      <3>1. here \in Host /\ o \in Op /\ c.cmd \in Command
            /\ g \in RunnerOk(here, o, c.cmd) \cup RunnerFails(here, o, c.cmd)
        BY <1>1, <1>2, <1>3
      <3>2. g.state[p] = here.state[p]
        <4> HIDE DEF here, o
        <4> QED BY <2>1, <3>1, RunnerEffect
      <3> QED BY <1>1, <1>2, <1>3, <3>2
    <2>3. doc[p].status \in Terminal \/ Untouched(p)
      BY <1>2, <1>7 DEF Whole
    <2>4. PlanNodes(p) \subseteq Node
      BY <1>1, OrderFacts
    <2> QED BY <1>4, <2>2, <2>3, <2>4 DEF Untouched
  <1>11. Working'
    <2> SUFFICES ASSUME NEW v \in Worker, NEW p \in Op, AtWork(v, p)'
                 PROVE  /\ Progress(p, doc'[p], run'[v][p])
                        /\ \A n \in Shared :
                              NodeKnown(n, p, host'[n], doc'[p], run'[v][p], Fitting(n)')
      BY DEF Working
    <2>1. AtWork(v, p) /\ doc'[p] = doc[p]
      BY <1>4, <1>7
    <2>2. Progress(p, doc[p], run[v][p])
      BY <1>2, <2>1 DEF Working
    <2>3. Progress(p, doc'[p], run'[v][p])
      BY <1>6, <2>1, <2>2 DEF Progress, Behind
    <2>4. ASSUME NEW n \in Shared
          PROVE  NodeKnown(n, p, host'[n], doc[p], run'[v][p], Fitting(n))
      <3>1. NodeKnown(n, p, host[n], doc[p], run[v][p], Fitting(n)) /\ n \in Node
            /\ n \in PlanNodes(o)
        BY <1>1, <1>2, <2>1 DEF Working, Shared
      <3>2. CASE n = c.node
        <4>1. v = w /\ p = o
          <5>1. n \in run[v][p].held /\ OwnsLocks(v, p)
            BY <1>2, <2>1, WorkFacts DEF Shared
          <5> QED BY <1>1, <1>2, <5>1, OneAtWork
        <4>2. host'[n] = g /\ host[n] = here
          BY <1>1, <1>2, <1>3, <3>2
        <4>3. r.pc = "commit" => doc[o].node[n] \in {"prepared", "committed"}
          BY <2>2, <3>1, <4>1 DEF Progress
        <4>4. NodeKnown(n, o, here, doc[o], r, Fitting(n))
          BY <3>1, <4>1, <4>2
        <4>5. NodeKnown(n, o, g, doc[o], [r EXCEPT !.call = how], Fitting(n))
          BY <1>1, <1>2, <1>3, <3>2, <4>3, <4>4, AnswerKnown
        <4> QED BY <1>5, <4>1, <4>2, <4>5
      <3>3. CASE n # c.node /\ v = w /\ p = o
        <4>1. host'[n] = host[n]
          BY <1>2, <1>3, <3>1, <3>3
        <4>2. n # Head(run'[v][p].todo)
          BY <1>1, <1>6, <3>3
        <4> QED BY <1>6, <3>1, <4>1, <4>2 DEF NodeKnown
      <3>4. CASE n # c.node /\ (v # w \/ p # o)
        <4>1. host'[n] = host[n] /\ run'[v][p] = run[v][p]
          BY <1>2, <1>3, <1>5, <3>1, <3>4
        <4> QED BY <3>1, <4>1
      <3> QED BY <3>2, <3>3, <3>4
    <2>5. \A n \in Shared : Fitting(n)' = Fitting(n)
      BY <1>8 DEF Shared
    <2> QED BY <2>1, <2>3, <2>4, <2>5
  <1>12. Resting'
    BY <1>1, <1>7 DEF Resting
  <1> QED BY <1>2, <1>4, <1>9, <1>10, <1>11, <1>12 DEF Undisturbed, Awaited

-----------------------------------------------------------------------------
(* As long as no fault has happened.                                       *)

LEMMA FaultsGrow ==
  ASSUME Shape, [Next]_vars, faults' = 0
  PROVE  /\ faults = 0
         /\ \A w \in Worker : ~Crash(w)
         /\ \A w \in Worker, o \in Op : ~TimeOut(w, o)
  <1>1. faults \in Nat
    BY BoundAssumption DEF Shape, TypeOK
  <1>2. \A kind : ~Fault(kind)
    BY <1>1 DEF Fault
  <1>3. faults' = faults
    <2>1. ASSUME NEW w \in Worker, NEW o \in Op, Step(w, o) PROVE faults' = faults
      <3>1. CASE PrepareFailed(w, o)
        BY <1>2, <3>1 DEF PrepareFailed
      <3>2. CASE Abort(w, o)
        BY <1>2, <3>2 DEF Abort
      <3>3. CASE ReleaseLock(w, o)
        BY <1>2, <3>3 DEF ReleaseLock
      <3>4. CASE ~PrepareFailed(w, o) /\ ~Abort(w, o) /\ ~ReleaseLock(w, o)
        BY <2>1, <3>4 DEF Step, TakeLock, LocksTaken, Send, Prepared, PrepareRejected, Seal,
                         Committed, Verified, CommitFailed, Finalize, FinalizeRejected,
                         Revoke, Undone, Skip, Retry, Finish, EndRun
      <3> QED BY <3>1, <3>2, <3>3, <3>4
    <2>2. CASE \/ EditDraft \/ UNCHANGED vars
               \/ \E w \in Worker, o \in Op : Queue(w, o) \/ Claim(w, o)
               \/ \E c \in remote : Execute(c)
      BY <2>2 DEF EditDraft, Queue, Claim, Execute, vars
    <2>3. CASE \/ \E w \in Worker, o \in Op : TimeOut(w, o)
               \/ \E w \in Worker : Crash(w)
               \/ \E o \in Op : ExpireOp(o)
               \/ \E n \in Node : ExpireLock(n)
      BY <1>2, <2>3 DEF TimeOut, Crash, ExpireOp, ExpireLock, RunsOut
    <2> QED BY <2>1, <2>2, <2>3 DEF Next
  <1> QED BY <1>2, <1>3 DEF Crash, TimeOut

LEMMA InitUndisturbed == Init => Undisturbed
  <1> SUFFICES ASSUME Init PROVE Undisturbed
    OBVIOUS
  <1>1. /\ \A w \in Worker, o \in Op : run[w][o].pc = "idle"
        /\ \A o \in Op : doc[o].status = "none"
        /\ \A o \in Op, n \in Node : doc[o].node[n] = "pending" /\ host[n].state[o] = "absent"
        /\ \A n \in Node : host[n].config = deployed
        /\ deployed \in Revision /\ remote = {}
    BY BoundAssumption DEF Init, Idle, Revision
  <1>2. \A o \in Op : PlanNodes(o) \subseteq Node
    BY PlanAssumption DEF PlanNodes, Range
  <1>3. \A w \in Worker, o \in Op : ~AtWork(w, o)
    BY <1>1 DEF AtWork
  <1>4. Manned
    BY <1>1 DEF Manned, RunManned
  <1>5. Whole
    BY <1>1, <1>2 DEF Whole, Untouched
  <1>6. Working /\ Awaited
    BY <1>1, <1>3 DEF Working, Awaited
  <1>7. Resting
    BY <1>1 DEF Resting, Shared, Fitting
  <1> QED BY <1>4, <1>5, <1>6, <1>7 DEF Undisturbed

LEMMA NextUndisturbed ==
  ASSUME Shape, Record, faults = 0 => Undisturbed, [Next]_vars
  PROVE  (faults = 0 => Undisturbed)'
  <1> SUFFICES ASSUME faults' = 0 PROVE Undisturbed'
    OBVIOUS
  <1>1. /\ faults' = faults /\ Undisturbed
        /\ \A w \in Worker : ~Crash(w)
        /\ \A w \in Worker, o \in Op : ~TimeOut(w, o)
    BY FaultsGrow
  <1>2. CASE EditDraft \/ UNCHANGED vars
    <2>1. UNCHANGED <<doc, deployed, run, host, remote, lock>>
      BY <1>2 DEF EditDraft, vars
    <2>2. Manned'
      BY <1>1, <2>1 DEF Undisturbed, Manned, RunManned, OwnsOp, OwnsLocks
    <2> QED BY <1>1, <2>1, <2>2, LocksDisturb
  <1>3. CASE \E w \in Worker, o \in Op : Queue(w, o) \/ Claim(w, o) \/ Step(w, o)
    BY <1>1, <1>3, QueueUndisturbed, ClaimUndisturbed, StepUndisturbed
  <1>4. CASE \E c \in remote : Execute(c)
    BY <1>1, <1>4, ExecuteUndisturbed
  <1>5. CASE (\E o \in Op : ExpireOp(o)) \/ (\E n \in Node : ExpireLock(n))
    BY <1>1, <1>5, ExpireOpUndisturbed, ExpireLockUndisturbed
  <1> QED BY <1>1, <1>2, <1>3, <1>4, <1>5 DEF Next

\* As long as no process died, no lease ran out under a live run, no database
\* call failed and no command was given up, whatever was queued, edited,
\* refused, undone and deployed by however many processes: once nothing is
\* under way, every node that all operations deploy to runs the deployed
\* revision, or a failed operation has it on record as not undone.
THEOREM DeployedIsRunningHolds == Spec => [](faults = 0 => DeployedIsRunning)
  <1>1. Undisturbed => DeployedIsRunning
    <2> SUFFICES ASSUME Undisturbed, Quiet,
                        NEW n \in {m \in Node : \A o \in Op : m \in PlanNodes(o)}
                 PROVE  \/ host[n].config = deployed
                        \/ \E o \in Op : doc[o].status = "failed" /\ doc[o].node[n] = "failed"
      BY DEF DeployedIsRunning
    <2>1. \A w \in Worker, o \in Op : ~AtWork(w, o)
      BY DEF Quiet, AtWork, Active, Terminal
    <2>2. host[n].config \in Fitting(n)
      BY <2>1 DEF Undisturbed, Resting, Shared
    <2> QED BY <2>2 DEF Fitting, Excused
  <1>2. Spec => [](Shape /\ Record)
    BY InitRecord, NextRecord, ShapeHolds, PTL DEF Spec
  <1>3. Spec => [](faults = 0 => Undisturbed)
    BY <1>2, InitUndisturbed, NextUndisturbed, PTL DEF Spec
  <1> QED BY <1>1, <1>3, PTL

=============================================================================
