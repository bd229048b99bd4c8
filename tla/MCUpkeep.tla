------------------------------ MODULE MCUpkeep ------------------------------
\* One run for what goes on around the panel, components that share no state:
\* `part` picks one of them, and only its own variables move.
EXTENDS HysteriaAuth, TrafficAccounting, L2tpAccounts, AccessLogShipping, XrayConfig,
        PanelUpdate, SshPool, TopologyTransfer, PanelProcess, TLC

CONSTANTS Parts, relay1, relay2, relay3

VARIABLE part

\* L2tpAccounts: three relays on one chain and two subnets; two of them hash to
\* the same subnet.
MCFirstOctet == (relay1 :> 1) @@ (relay2 :> 1) @@ (relay3 :> 2)
MCChainOf    == (relay1 :> <<1, 2>>) @@ (relay2 :> <<2>>) @@ (relay3 :> <<3, 1, 2>>)

\* TopologyTransfer: no links yet, a chain into the bridge, or a star around it,
\* the links numbered along and against their direction.
MCLinks(s, t, u, v) == <<[source |-> s, target |-> t], [source |-> u, target |-> v]>>
MCPanels == {<<>>, MCLinks(1, 3, 3, 2), MCLinks(3, 2, 1, 3), MCLinks(1, 2, 3, 2), MCLinks(3, 1, 1, 2),
             MCLinks(2, 3, 1, 3)}

UpkeepInit ==
    /\ part \in Parts
    /\ AuthInit
    /\ TrafficInit
    /\ AccountsInit
    /\ ShippingInit
    /\ IF part = "config" THEN RouteInit
       ELSE RouteInit /\ drawn = CHOOSE d \in Drawings : TRUE
    /\ UpdateInit /\ tag = CHOOSE v \in Version : TRUE
    /\ part # "update" => updateMode = "hub"
    /\ PoolInit
    /\ TransferInit /\ panelLinks \in IF part = "transfer" THEN MCPanels ELSE {<<>>}
    /\ ProcessInit

UpkeepNext ==
    \/ /\ part = "auth" /\ AuthNext
       /\ UNCHANGED <<part, trafficVars, accountVars, shipVars, routeVars,
                      updateVars, poolVars, transferVars, processVars>>
    \/ /\ part = "traffic" /\ TrafficNext
       /\ UNCHANGED <<part, authVars, accountVars, shipVars, routeVars,
                      updateVars, poolVars, transferVars, processVars>>
    \/ /\ part = "accounts" /\ AccountsNext
       /\ UNCHANGED <<part, authVars, trafficVars, shipVars, routeVars,
                      updateVars, poolVars, transferVars, processVars>>
    \/ /\ part = "logs" /\ ShippingNext
       /\ UNCHANGED <<part, authVars, trafficVars, accountVars, routeVars,
                      updateVars, poolVars, transferVars, processVars>>
    \/ /\ part = "config" /\ RouteNext
       /\ UNCHANGED <<part, authVars, trafficVars, accountVars, shipVars,
                      updateVars, poolVars, transferVars, processVars>>
    \* The two modes differ in the updater's steps: source without backups.
    \/ /\ part = "update" /\ UpdateNext
       /\ updateMode = "source" => backups' = {}
       /\ UNCHANGED <<part, authVars, trafficVars, accountVars, shipVars,
                      routeVars, poolVars, transferVars, processVars>>
    \/ /\ part = "ssh" /\ PoolNext
       /\ UNCHANGED <<part, authVars, trafficVars, accountVars, shipVars,
                      routeVars, updateVars, transferVars, processVars>>
    \/ /\ part = "transfer" /\ TransferNext
       /\ UNCHANGED <<part, authVars, trafficVars, accountVars, shipVars,
                      routeVars, updateVars, poolVars, processVars>>
    \/ /\ part = "process" /\ ProcessNext
       /\ UNCHANGED <<part, authVars, trafficVars, accountVars, shipVars,
                      routeVars, updateVars, poolVars, transferVars>>

UpkeepSpec ==
    UpkeepInit /\ [][UpkeepNext]_<<part, authVars, trafficVars, accountVars, shipVars, routeVars,
                                  updateVars, poolVars, transferVars, processVars>>
=============================================================================
