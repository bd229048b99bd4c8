------------------------------ MODULE MCPanel ------------------------------
\* One run for the panel's components that share no state: `part` picks one of
\* them, and only its own variables move.
EXTENDS UserAccess, RoutingRules, Subscription, SubscriptionFormats,
        DeviceLimit, L2tpRelay, NodeFleet, MarzbanImport, TLC

CONSTANTS Parts, k1, r1, r2, UndeployOps

VARIABLES part, revision, topDoc, deployed, nodeLock, queuedAs, topRun, remote, topHost, topFaults,
          undeploying, purged, undeployMet

\* Undeployment: one process and one node that every operation deploys to, so
\* that each undeployment takes down all of them.
Undeploy == INSTANCE Undeployment WITH
                Worker <- {"w1"}, Op <- UndeployOps, Node <- {1}, Plan <- [o \in UndeployOps |-> <<1>>],
                MaxRevision <- 2, MaxFaults <- 0, FaultKinds <- {},
                doc <- topDoc, lock <- nodeLock, run <- topRun, host <- topHost, faults <- topFaults,
                overlapped <- undeployMet

undeploymentVars == <<revision, topDoc, deployed, nodeLock, queuedAs, topRun, remote, topHost, topFaults,
                      undeploying, purged, undeployMet>>

\* RoutingRules: a name, a list with more names, a list without a rule set, and
\* addresses; the first destination is covered by all but one of them.
MCRuleValue ==
    {<<"domain", "a">>, <<"geosite", "ab">>, <<"geosite", "odd">>, <<"geoip", "cc">>}
MCCovers ==
    (<<"domain", "a">> :> {"a"}) @@ (<<"geosite", "ab">> :> {"a", "b"})
    @@ (<<"geosite", "odd">> :> {"b"}) @@ (<<"geoip", "cc">> :> {"a"})
MCNoRuleSet == {<<"geosite", "odd">>}

PanelInit ==
    /\ part \in Parts
    /\ AccessInit
    /\ RulesInit
    /\ SubInit
    /\ FormatInit
    /\ DeviceInit
    /\ RelayInit
    /\ FleetInit
    /\ Undeploy!UndeployInit
    /\ IF part = "import" THEN ImportInit
       ELSE ImportInit /\ pageOf = [u \in SourceUser |-> 0] /\ panelUser = [u \in SourceUser |-> NoUser]

PanelNext ==
    \/ /\ part = "access" /\ AccessNext
       /\ UNCHANGED <<part, ruleVars, subVars, formatVars, deviceVars, relayVars, fleetVars,
                      undeploymentVars, importVars>>
    \/ /\ part = "rules" /\ RulesNext
       /\ UNCHANGED <<part, accessVars, subVars, formatVars, deviceVars, relayVars, fleetVars,
                      undeploymentVars, importVars>>
    \/ /\ part = "subs" /\ SubNext
       /\ UNCHANGED <<part, accessVars, ruleVars, formatVars, deviceVars, relayVars, fleetVars,
                      undeploymentVars, importVars>>
    \/ /\ part = "formats" /\ FormatNext
       /\ UNCHANGED <<part, accessVars, ruleVars, subVars, deviceVars, relayVars, fleetVars,
                      undeploymentVars, importVars>>
    \/ /\ part = "devices" /\ DeviceNext
       /\ UNCHANGED <<part, accessVars, ruleVars, subVars, formatVars, relayVars, fleetVars,
                      undeploymentVars, importVars>>
    \/ /\ part = "relay" /\ RelayNext
       /\ UNCHANGED <<part, accessVars, ruleVars, subVars, formatVars, deviceVars, fleetVars,
                      undeploymentVars, importVars>>
    \/ /\ part = "fleet" /\ FleetNext
       /\ UNCHANGED <<part, accessVars, ruleVars, subVars, formatVars, deviceVars, relayVars,
                      undeploymentVars, importVars>>
    \/ /\ part = "import" /\ ImportNext
       /\ UNCHANGED <<part, accessVars, ruleVars, subVars, formatVars, deviceVars, relayVars,
                      fleetVars, undeploymentVars>>
    \/ /\ part = "undeploy" /\ Undeploy!UndeployNext
       /\ UNCHANGED <<part, accessVars, ruleVars, subVars, formatVars, deviceVars, relayVars,
                      fleetVars, importVars>>

PanelSpec ==
    PanelInit /\ [][PanelNext]_<<part, accessVars, ruleVars, subVars, formatVars, deviceVars,
                                relayVars, fleetVars, undeploymentVars, importVars>>

\* Undeployment's promise: what was taken down is not on record as deployed, and
\* can be deployed again.
UndeployedIsForgotten == Undeploy!UndeployedIsForgotten
============================================================================
