----------------------------- MODULE Undeployment -----------------------------
(***************************************************************************)
(* POST /cascade/links/:id/undeploy next to the operations of the topology: *)
(* it rewrites the nodes at the ends of a link without a node lock, sets    *)
(* the deployed revision back to 0, and deletes the operations of the       *)
(* revision the draft has at that moment, whatever state they are in.       *)
(*                                                                          *)
(* A node that an undeployment has rewritten carries no revision, 0.        *)
(***************************************************************************)
EXTENDS TopologyOperation

VARIABLES
    undeploying,    \* the request: what it does next, the nodes to go, the
                    \* revision its reset has read
    purged,         \* operations whose document is deleted
    overlapped      \* history: an operation and an undeployment were under
                    \* way at once

undeployVars == <<undeploying, purged, overlapped>>

NotUndeploying == [pc |-> "idle", todo |-> {}, rev |-> 0]

UndeployInit ==
    /\ Init
    /\ undeploying = NotUndeploying /\ purged = {} /\ overlapped = FALSE

\* An operation that is queued or that a run is still at.
UnderWay(o) == doc[o].status \in {"queued"} \cup Active \/ \E c \in remote : c.op = o

-----------------------------------------------------------------------------
\* The panel's own steps.  An id is never used again, and a process that
\* remembers an operation whose document is gone queues another.
Requeue(w, o) ==
    /\ doc[o].status = "none" /\ o \notin purged
    /\ queuedAs[w][revision] \in purged
    /\ doc' = [doc EXCEPT ![o].status = "queued", ![o].rev = revision, ![o].prior = deployed]
    /\ queuedAs' = [queuedAs EXCEPT ![w][revision] = o]
    /\ UNCHANGED <<revision, deployed, lock, run, remote, host, faults>>

Operate ==
    /\ Next \/ \E w \in Worker, o \in Op : Requeue(w, o)
    /\ \A o \in purged : doc'[o] = doc[o]
    /\ overlapped' = (overlapped \/ (undeploying.pc # "idle" /\ \E o \in Op : UnderWay(o)'))
    /\ UNCHANGED <<undeploying, purged>>

\* undeployLink begins; it asks for no lock.
BeginUndeploy ==
    /\ undeploying.pc = "idle"
    /\ \E ends \in (SUBSET Node) \ {{}} :
        undeploying' = [NotUndeploying EXCEPT !.pc = "strip", !.todo = ends]
    /\ overlapped' = (overlapped \/ \E o \in Op : UnderWay(o))
    /\ UNCHANGED <<vars, purged>>

\* One end is rewritten; a failure is logged and passed over.
StripEnd ==
    /\ undeploying.pc = "strip"
    /\ \E n \in undeploying.todo :
        /\ host' = [host EXCEPT ![n].config = 0]
        /\ undeploying' = [undeploying EXCEPT !.todo = @ \ {n},
                               !.pc = IF undeploying.todo = {n} THEN "reset" ELSE @]
    /\ UNCHANGED <<store, queuedAs, run, remote, faults, purged, overlapped>>

\* Mutant of ResetDeployed: the record is left as it is.
ResetNothing ==
    /\ undeploying.pc = "reset"
    /\ undeploying' = [undeploying EXCEPT !.pc = "purge", !.rev = revision]
    /\ UNCHANGED <<vars, purged, overlapped>>

\* The deployed revision is set back, and the draft's revision read.
ResetDeployed ==
    /\ undeploying.pc = "reset"
    /\ deployed' = 0
    /\ undeploying' = [undeploying EXCEPT !.pc = "purge", !.rev = revision]
    /\ UNCHANGED <<revision, doc, lock, queuedAs, run, remote, host, faults, purged, overlapped>>

\* Mutant of Purgeable: only operations that are under way.
PurgeableActive == {o \in Op : doc[o].status \in Active /\ doc[o].rev = undeploying.rev}

\* What deleteMany matches.
Purgeable == {o \in Op : doc[o].status # "none" /\ doc[o].rev = undeploying.rev}

PurgeOperations ==
    /\ undeploying.pc = "purge"
    /\ purged' = purged \cup Purgeable
    /\ doc' = [o \in Op |-> IF o \in Purgeable
                            THEN [doc[o] EXCEPT !.status = "none", !.live = FALSE,
                                                !.node = [n \in Node |-> "pending"]]
                            ELSE doc[o]]
    /\ undeploying' = NotUndeploying
    /\ UNCHANGED <<revision, deployed, lock, queuedAs, run, remote, host, faults, overlapped>>

UndeployNext ==
    \/ Operate
    \/ BeginUndeploy \/ StripEnd \/ ResetDeployed \/ PurgeOperations

UndeploySpec == UndeployInit /\ [][UndeployNext]_<<vars, undeployVars>>

-----------------------------------------------------------------------------
\* While no operation overlaps with an undeployment, the record never claims
\* what an undeployment has taken down: a node of all operations that was
\* stripped is deployed as revision 0, or a later operation failed on it.
StrippedIsForgotten ==
    Quiet /\ undeploying.pc = "idle" /\ ~overlapped /\ deployed # 0 =>
        \A n \in {m \in Node : \A o \in Op : m \in PlanNodes(o)} :
            \/ host[n].config = deployed
            \/ \E o \in Op : doc[o].status = "failed" /\ doc[o].node[n] = "failed"

\* And then a request for the revision that was undeployed is not answered with
\* the operation that deployed it before.
RedeployStarts ==
    undeploying.pc = "idle" /\ ~overlapped /\ deployed = 0 =>
        \A w \in Worker :
            queuedAs[w][revision] # Nobody => doc[queuedAs[w][revision]].status # "succeeded"

\* An undeployment that meets no operation is forgotten by neither side: the
\* record knows it, and the next request deploys.
UndeployedIsForgotten == StrippedIsForgotten /\ RedeployStarts

\* "Reset the deployed topology state and purge recorded operations of the
\* current revision so the next topology deploy re-queues from scratch": when
\* an undeployment is through, nothing counts as deployed.
UndeployResets ==
    [][PurgeOperations => deployed' = 0]_<<vars, undeployVars>>
===============================================================================
