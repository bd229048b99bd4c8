------------------------------ MODULE MCServices ------------------------------
\* One run for the components that share no state: `part` picks one of them, and
\* only its own variables move.
EXTENDS NodeLock, CascadeLinks, TopologyPlan, RoutePolicy, TopologyDraft,
        TopologyDeployment, TLC

CONSTANTS Parts, c1, c2, c3, n1, j1, j2

VARIABLE part

\* NodeLock: the documents of two nodes never meet in one update, so one node is
\* enough; three clients make a holder, its successor and a late comer.
\* CascadeLinks: two reverse links that share a bridge, and a forward link from
\* the portal of one to the portal of the other.
MCPortalOf == (1 :> 1) @@ (2 :> 2) @@ (3 :> 1)
MCBridgeOf == (1 :> 3) @@ (2 :> 3) @@ (3 :> 2)

\* TopologyPlan: two ways out of node 1, a chain of three links, two ways into
\* node 4, and cycles through nodes 2, 3 and 1, 4.
MCLinkFrom == <<1, 2, 2, 1, 3, 3>>
MCLinkTo   == <<2, 3, 4, 4, 4, 2>>

\* TopologyDraft: a chain of two links behind the relay.
MCDraftFrom == <<1, 2>>
MCDraftTo   == <<2, 3>>

ServicesSymmetry ==
    Permutations(Client) \cup Permutations(Job)

ServicesInit ==
    /\ part \in Parts
    /\ Init
    /\ CascadeInit
    /\ IF part = "plan" THEN PlanInit
       ELSE PlanInit /\ roles = [n \in PlanNode |-> IF n = 1 THEN "portal" ELSE "relay"]
    /\ IF part = "routes" THEN RouteInit
       ELSE RouteInit /\ paths = [k \in PathKey |->
                [priority |-> 1, enabled |-> TRUE, complete |-> TRUE, healthy |-> FALSE]]
    /\ DraftInit
    /\ DeploymentInit

ServicesNext ==
    \/ /\ part = "lock"   /\ Next
       /\ UNCHANGED <<part, cascadeVars, planVars, routeVars, draftVars, deploymentVars>>
    \/ /\ part = "links"  /\ CascadeNext
       /\ UNCHANGED <<part, vars, planVars, routeVars, draftVars, deploymentVars>>
    \/ /\ part = "plan"   /\ PlanNext
       /\ UNCHANGED <<part, vars, cascadeVars, routeVars, draftVars, deploymentVars>>
    \/ /\ part = "routes" /\ RouteNext
       /\ UNCHANGED <<part, vars, cascadeVars, planVars, draftVars, deploymentVars>>
    \/ /\ part = "draft"  /\ DraftNext
       /\ UNCHANGED <<part, vars, cascadeVars, planVars, routeVars, deploymentVars>>
    \/ /\ part = "deployment" /\ DeploymentNext
       /\ UNCHANGED <<part, vars, cascadeVars, planVars, routeVars, draftVars>>

ServicesSpec ==
    /\ ServicesInit
    /\ [][ServicesNext]_<<part, vars, cascadeVars, planVars, routeVars, draftVars,
                           deploymentVars>>
===============================================================================
