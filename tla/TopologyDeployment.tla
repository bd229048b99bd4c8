-------------------------- MODULE TopologyDeployment --------------------------
(***************************************************************************)
(* topologyDeploymentService.js: the deployment of a topology in one       *)
(* request.  It pins a revision of the draft, applies and verifies it node *)
(* by node in the order of their ids, and records the revision as deployed *)
(* by a compare-and-set; whatever goes wrong, it restores the nodes it has *)
(* changed, the last one first, and answers with what it could not restore. *)
(* Nothing locks the nodes: requests interleave with one another, with     *)
(* edits of the draft and with the undeployment of a link.                 *)
(*                                                                         *)
(* The deployer, verifier and restorer of a node are parameters of the     *)
(* service; they may do what they were asked to or not, and say so or not. *)
(* A node's configuration is the revision it was drawn from, 0 for none.   *)
(***************************************************************************)
EXTENDS Integers

CONSTANTS
    Deployment,     \* requests for a deployment
    TopoNode,       \* the nodes of the topology, numbered by their ids
    LastDraft,      \* bound: revisions of the draft
    NodeFaults      \* bound: calls of the deployer or the verifier that fail

ASSUME TopoAssumption ==
    TopoNode \subseteq Nat \ {0} /\ LastDraft \in Nat /\ NodeFaults \in Nat

VARIABLES
    topoRev,        \* CascadeTopologyState.revision
    topoDeployed,   \* CascadeTopologyState.deployedRevision
    carries,        \* the configuration of each node
    deployment,     \* the requests
    nodeFaults      \* failed calls so far

deploymentVars == <<topoRev, topoDeployed, carries, deployment, nodeFaults>>

DraftRev == 0 .. LastDraft

\* pc, the pinned revision and deployed revision, the nodes to go; the changed
\* nodes with their rollback tokens; the nodes with evidence; what the answer
\* names.  `alone` and `before` are history: whether nothing else has written a
\* node since the pin, and what the nodes carried then.
NoDeployment ==
    [pc |-> "none", rev |-> 0, prior |-> 0, todo |-> {}, changed |-> {},
     token |-> [n \in TopoNode |-> 0], evidence |-> {}, code |-> "none",
     failedNode |-> 0, rolledBack |-> {}, rollbackFailed |-> {},
     alone |-> FALSE, before |-> [n \in TopoNode |-> 0]]

InFlight(d) == deployment[d].pc \in {"apply", "verify", "mark", "restore"}

DeploymentInit ==
    /\ topoRev = 0 /\ topoDeployed = 0
    /\ carries = [n \in TopoNode |-> 0]
    /\ deployment = [d \in Deployment |-> NoDeployment]
    /\ nodeFaults = 0

Goes(d, r) == deployment' = [deployment EXCEPT ![d] = r]

\* The node a request is at, and the one it restores next.
Current(d, n) ==
    n \in deployment[d].todo /\ \A m \in deployment[d].todo : n <= m

LastChanged(d, n) ==
    n \in deployment[d].changed /\ \A m \in deployment[d].changed : m <= n

NodeFault == nodeFaults < NodeFaults /\ nodeFaults' = nodeFaults + 1

-----------------------------------------------------------------------------
\* pinTopology: in one transaction the revision is compared with the draft's,
\* the draft validated and compiled, and the state document touched.
Pinned(d, rev) ==
    [NoDeployment EXCEPT !.pc = IF TopoNode = {} THEN "mark" ELSE "apply",
        !.rev = rev, !.prior = topoDeployed, !.todo = TopoNode,
        !.before = carries, !.alone = ~\E e \in Deployment : InFlight(e)]

Pin(d) ==
    /\ deployment[d].pc = "none"
    /\ \E expected \in DraftRev :
        \/ /\ expected = topoRev
           /\ deployment' = [e \in Deployment |->
                  IF e = d THEN Pinned(d, expected)
                  ELSE [deployment[e] EXCEPT !.alone = FALSE]]
        \/ /\ expected # topoRev
           /\ Goes(d, [NoDeployment EXCEPT !.pc = "ended", !.code = "stale", !.rev = expected])
        \/ Goes(d, [NoDeployment EXCEPT !.pc = "ended", !.code = "invalid", !.rev = expected])
    /\ UNCHANGED <<topoRev, topoDeployed, carries, nodeFaults>>

\* Mutant of Failing: of the changed nodes only the one that failed is restored.
FailingAlone(d, code, node) ==
    [deployment[d] EXCEPT !.pc = "restore", !.code = code, !.failedNode = node, !.changed = @ \cap {node}]

\* failNode: the nodes changed so far are restored, then the error is thrown.
Failing(d, code, node) == [deployment[d] EXCEPT !.pc = "restore", !.code = code, !.failedNode = node]

\* The deployer changes the node and hands over how to restore it, or finds
\* that it carries the revision already.
Apply(d, n) ==
    LET r == deployment[d]  changed == r.changed \cup {n} IN
    /\ r.pc = "apply" /\ Current(d, n)
    /\ \/ /\ carries' = [carries EXCEPT ![n] = r.rev]
          /\ \/ /\ Goes(d, [r EXCEPT !.pc = "verify", !.changed = changed,
                                     !.token[n] = carries[n]])
                /\ UNCHANGED nodeFaults
             \* It says that it has changed the node, and that it has failed.
             \/ /\ Goes(d, [Failing(d, "nodeFailed", n) EXCEPT !.changed = changed,
                                     !.token[n] = carries[n]])
                /\ NodeFault
       \/ /\ carries[n] = r.rev
          /\ Goes(d, [r EXCEPT !.pc = "verify"])
          /\ UNCHANGED <<carries, nodeFaults>>
    /\ UNCHANGED <<topoRev, topoDeployed>>

\* It throws, fails, or changes the node and brings no rollback token: the
\* service cannot tell what the node carries now.
ApplyFails(d, n) ==
    LET r == deployment[d] IN
    /\ r.pc = "apply" /\ Current(d, n) /\ NodeFault
    /\ \/ UNCHANGED carries
       \/ carries' = [carries EXCEPT ![n] = r.rev]
    /\ \E code \in {"nodeFailed", "contractViolation"} : Goes(d, Failing(d, code, n))
    /\ UNCHANGED <<topoRev, topoDeployed>>

\* The verifier finds the pinned revision on the node, ...
Verify(d, n) ==
    LET r == deployment[d]  rest == r.todo \ {n} IN
    /\ r.pc = "verify" /\ Current(d, n) /\ carries[n] = r.rev
    /\ Goes(d, [r EXCEPT !.pc = IF rest = {} THEN "mark" ELSE "apply",
                         !.todo = rest, !.evidence = @ \cup {n}])
    /\ UNCHANGED <<topoRev, topoDeployed, carries, nodeFaults>>

\* ... or it does not, or throws.
VerifyFails(d, n) ==
    /\ deployment[d].pc = "verify" /\ Current(d, n)
    /\ IF carries[n] = deployment[d].rev THEN NodeFault ELSE UNCHANGED nodeFaults
    /\ Goes(d, Failing(d, "verificationFailed", n))
    /\ UNCHANGED <<topoRev, topoDeployed, carries>>

\* rollbackChangedNodes: the last changed node first, and on past a failure.
Restore(d, n) ==
    LET r == deployment[d] IN
    /\ r.pc = "restore" /\ LastChanged(d, n)
    /\ \/ /\ carries' = [carries EXCEPT ![n] = r.token[n]]
          /\ Goes(d, [r EXCEPT !.changed = @ \ {n}, !.rolledBack = @ \cup {n}])
          /\ UNCHANGED nodeFaults
       \/ /\ NodeFault
          /\ \/ UNCHANGED carries
             \/ carries' = [carries EXCEPT ![n] = r.token[n]]
          /\ Goes(d, [r EXCEPT !.changed = @ \ {n}, !.rollbackFailed = @ \cup {n}])
    /\ UNCHANGED <<topoRev, topoDeployed>>

\* The answer of a deployment that failed.
AnswerFailed(d) ==
    /\ deployment[d].pc = "restore" /\ deployment[d].changed = {}
    /\ Goes(d, [deployment[d] EXCEPT !.pc = "ended"])
    /\ UNCHANGED <<topoRev, topoDeployed, carries, nodeFaults>>

\* Mutant of Unmoved: only the deployed revision is compared.
SameRecord(d) == topoDeployed = deployment[d].prior

\* What markDeployed compares: the draft is the one pinned, and so is the
\* record of what was deployed.
Unmoved(d) == topoRev = deployment[d].rev /\ topoDeployed = deployment[d].prior

MarkDeployed(d) ==
    LET r == deployment[d] IN
    /\ r.pc = "mark"
    /\ \/ /\ Unmoved(d)
          /\ topoDeployed' = r.rev
          /\ \/ /\ Goes(d, [r EXCEPT !.pc = "ended", !.code = "deployed"])
                /\ UNCHANGED nodeFaults
             \* The update is done and its answer lost: the nodes are restored.
             \/ /\ Goes(d, Failing(d, "updateFailed", 0))
                /\ NodeFault
       \/ /\ ~Unmoved(d)
          /\ Goes(d, Failing(d, "stale", 0))
          /\ UNCHANGED <<topoDeployed, nodeFaults>>
       \/ /\ NodeFault
          /\ Goes(d, Failing(d, "updateFailed", 0))
          /\ UNCHANGED topoDeployed
    /\ UNCHANGED <<topoRev, carries>>

\* The draft moves on: TopologyDraft.
NextDraft ==
    /\ topoRev < LastDraft /\ topoRev' = topoRev + 1
    /\ UNCHANGED <<topoDeployed, carries, deployment, nodeFaults>>

\* The undeployment of a link strips a node of its configuration ...
Strip(n) ==
    /\ carries' = [carries EXCEPT ![n] = 0]
    /\ deployment' = [d \in Deployment |-> [deployment[d] EXCEPT !.alone = FALSE]]
    /\ UNCHANGED <<topoRev, topoDeployed, nodeFaults>>

\* ... and forgets what was deployed.
Forget ==
    /\ topoDeployed' = 0
    /\ UNCHANGED <<topoRev, carries, deployment, nodeFaults>>

DeploymentNext ==
    \/ \E d \in Deployment :
        \/ Pin(d) \/ MarkDeployed(d) \/ AnswerFailed(d)
        \/ \E n \in TopoNode :
            \/ Apply(d, n)  \/ ApplyFails(d, n)
            \/ Verify(d, n) \/ VerifyFails(d, n) \/ Restore(d, n)
    \/ NextDraft
    \/ \E n \in TopoNode : Strip(n)
    \/ Forget

DeploymentSpec == DeploymentInit /\ [][DeploymentNext]_deploymentVars

-----------------------------------------------------------------------------
\* All nodes or none: while nothing else writes the nodes, a request that ends
\* as deployed leaves each of them with the pinned revision, and one that fails
\* leaves each as it was, except those its answer names: the failed node and the
\* nodes that could not be restored.
AllOrNothing ==
    \A d \in Deployment :
        LET r == deployment[d]  s == deployment'[d] IN
        r.pc # "ended" /\ s.pc = "ended" /\ r.alone =>
            \A n \in TopoNode :
                IF s.code = "deployed" THEN carries'[n] = s.rev
                ELSE carries'[n] # s.before[n] => n \in s.rollbackFailed \cup {s.failedNode}

\* The deployed revision is only forgotten or moved on to the revision of the
\* draft, never back, and moved on only by a request that has verified every
\* node at that very revision.
AdvanceIsEarned ==
    topoDeployed' \notin {topoDeployed, 0} =>
        /\ topoDeployed' = topoRev /\ topoDeployed < topoDeployed'
        /\ \E d \in Deployment :
            /\ deployment[d].pc = "mark" /\ deployment[d].rev = topoRev
            /\ deployment[d].evidence = TopoNode

\* A deployment request does to the nodes, and to the record, what it answers.
DeploymentsAreHonest == [][AllOrNothing /\ AdvanceIsEarned]_deploymentVars
===============================================================================
