----------------------------- MODULE CascadeLinks -----------------------------
(***************************************************************************)
(* Deploying cascade links one at a time: cascadeService.js.  A link joins *)
(* a portal node to a bridge node; its settings live in the portal's main  *)
(* Xray configuration and, on the bridge, in the main configuration of a   *)
(* forward hop that runs Xray itself or in the separate xray-bridge        *)
(* service.  Each configuration is rebuilt from the links of the database  *)
(* and replaced as a whole, so every deployment of one link decides about  *)
(* all links that share a node with it.                                    *)
(*                                                                         *)
(* A configuration is the set of links whose settings it holds.  A job is  *)
(* one call of deployLink, undeployLink or healthCheckLink; jobs interleave*)
(* between the nodes they change.  The links themselves do not change here, *)
(* so when a job read them makes no difference.  Firewall rules and the    *)
(* topology cache are left out.                                            *)
(***************************************************************************)
EXTENDS Integers, Sequences, FiniteSets, Functions

CONSTANTS
    Link,           \* active cascade links, numbered by falling priority
    Site,           \* the nodes they join
    PortalOf,       \* [Link -> Site]
    BridgeOf,       \* [Link -> Site]
    Forward,        \* links of mode "forward"; the others are reverse
    XraySite,       \* nodes that run Xray as their own service
    Job             \* calls that may be under way at once

ASSUME LinkAssumption ==
    /\ Link \subseteq Nat \ {0} /\ Forward \subseteq Link /\ XraySite \subseteq Site
    /\ PortalOf \in [Link -> Site] /\ BridgeOf \in [Link -> Site]

VARIABLES
    linkStatus,     \* the CascadeLink documents' status
    mainConf,       \* links in each node's main configuration
    sideConf,       \* links in each node's xray-bridge service
    linkJob,        \* the calls under way
    muddled         \* history: links two calls overlapped on since the last
                    \* undisturbed deployment

cascadeVars == <<linkStatus, mainConf, sideConf, linkJob, muddled>>

Shown      == {"deployed", "online", "offline"}
LinkState  == Shown \cup {"pending", "error"}
NoJob      == [kind |-> "none", link |-> 0, todo |-> <<>>]

CascadeInit ==
    /\ linkStatus = [l \in Link |-> "pending"]
    /\ mainConf   = [n \in Site |-> {}]
    /\ sideConf   = [n \in Site |-> {}]
    /\ linkJob    = [j \in Job |-> NoJob]
    /\ muddled    = {}

-----------------------------------------------------------------------------
(* What a rebuilt configuration holds.                                     *)

\* The forward chain that starts at n: all forward links out of n, then those
\* out of the bridge of the last of them, until a node has none or comes up
\* again: the links out of the least set of nodes that holds n and goes on.
ForwardChain(n, without) ==
    LET out(m)    == {l \in Forward \ without : PortalOf[l] = m}
        last(m)   == BridgeOf[CHOOSE l \in out(m) : \A k \in out(m) : k <= l]
        GoesOn(S) == \A m \in S : out(m) # {} => last(m) \in S
        chain     == {m \in Site : \A S \in SUBSET Site : n \in S /\ GoesOn(S) => m \in S}
    IN UNION {out(m) : m \in chain}

\* _deployPortalConfig: reverse links of this portal, its forward chain, and
\* the forward hops that end here.
MainLinks(n, without) ==
    {l \in Link \ (Forward \cup without) : PortalOf[l] = n}
        \cup ForwardChain(n, without)
        \cup {l \in Forward \ without : BridgeOf[l] = n}

\* Mutant of SideLinks: a bridge is configured for the deployed link alone.
SideLinksOfOne(n, l) ==
    LET downstream == {k \in Link : PortalOf[k] = n} IN {l} \cup downstream

\* _deployBridgeConfig: a relay gets its upstream link and what is downstream,
\* a pure bridge all reverse links that end there.
SideLinks(n, l) ==
    LET downstream == {k \in Link : PortalOf[k] = n} IN
    IF downstream # {} THEN {l} \cup downstream
    ELSE {k \in Link \ Forward : BridgeOf[k] = n}

\* The configurations a deployment replaces, in order.
DeploySteps(l) ==
    LET p == PortalOf[l]  b == BridgeOf[l] IN
    IF l \notin Forward THEN <<<<"main", p>>, <<"side", b>>>>
    ELSE <<IF b \in XraySite THEN <<"main", b>> ELSE <<"hop", b>>, <<"main", p>>>>

\* And an undeployment: a forward hop on an Xray node is regenerated, any
\* other bridge rebuilt for the reverse links that remain, or stopped.
UndeploySteps(l) ==
    LET p == PortalOf[l]  b == BridgeOf[l] IN
    <<<<"main", p>>, IF l \in Forward /\ b \in XraySite THEN <<"main", b>>
                                                        ELSE <<"rest", b>>>>

\* The possible contents of one configuration, as job r reads the links.
Rebuilt(r) ==
    LET where == Head(r.todo)[1]  n == Head(r.todo)[2]
        rest  == {k \in Link \ (Forward \cup {r.link}) : BridgeOf[k] = n}
    IN CASE where = "main" -> {MainLinks(n, IF r.kind = "undeploy" THEN {r.link}
                                                                   ELSE {})}
         [] where = "side" -> {SideLinks(n, r.link)}
         [] where = "hop"  -> {{r.link}}
         [] where = "rest" -> IF rest = {} THEN {{}}
                              ELSE {SideLinks(n, k) : k \in rest}

-----------------------------------------------------------------------------
Working(l) == \E j \in Job : linkJob[j].link = l

\* deployLink and undeployLink both start by marking the link pending.
BeginLink(j, kind, l) ==
    /\ linkJob[j].kind = "none"
    /\ linkStatus' = [linkStatus EXCEPT ![l] = "pending"]
    /\ linkJob' = [linkJob EXCEPT ![j] = [kind |-> kind, link |-> l,
                       todo |-> IF kind = "deploy" THEN DeploySteps(l)
                                                   ELSE UndeploySteps(l)]]
    /\ muddled' = IF Working(l) THEN muddled \cup {l} ELSE muddled \ {l}
    /\ UNCHANGED <<mainConf, sideConf>>

DeployLink(j)   == \E l \in Link : BeginLink(j, "deploy", l)
UndeployLink(j) == \E l \in Link : BeginLink(j, "undeploy", l)

Replacing(j) == linkJob[j].kind \in {"deploy", "undeploy"} /\ linkJob[j].todo # <<>>

StepOver(j) == linkJob' = [linkJob EXCEPT ![j].todo = Tail(@)]

\* A configuration is generated from the links, uploaded over SSH and its
\* service restarted.
Upload(j) ==
    LET where == Head(linkJob[j].todo)[1]  n == Head(linkJob[j].todo)[2] IN
    /\ Replacing(j)
    /\ \E f \in Rebuilt(linkJob[j]) :
        IF where = "main"
        THEN mainConf' = [mainConf EXCEPT ![n] = f] /\ UNCHANGED sideConf
        ELSE sideConf' = [sideConf EXCEPT ![n] = f] /\ UNCHANGED mainConf
    /\ StepOver(j)
    /\ UNCHANGED <<linkStatus, muddled>>

\* A node cannot be reached: a deployment ends with the link in error, an
\* undeployment goes on to its next node.
UploadFails(j) ==
    /\ Replacing(j)
    /\ \/ /\ linkJob[j].kind = "deploy"
          /\ linkStatus' = [linkStatus EXCEPT ![linkJob[j].link] = "error"]
          /\ linkJob' = [linkJob EXCEPT ![j] = NoJob]
       \/ /\ linkJob[j].kind = "undeploy"
          /\ StepOver(j)
          /\ UNCHANGED linkStatus
    /\ UNCHANGED <<mainConf, sideConf, muddled>>

\* deployLink measures the tunnel and records what it saw.
Deployed(j) ==
    /\ linkJob[j].kind = "deploy" /\ linkJob[j].todo = <<>>
    /\ \E s \in {"online", "deployed"} :
        linkStatus' = [linkStatus EXCEPT ![linkJob[j].link] = s]
    /\ linkJob' = [linkJob EXCEPT ![j] = NoJob]
    /\ UNCHANGED <<mainConf, sideConf, muddled>>

Undeployed(j) ==
    /\ linkJob[j].kind = "undeploy" /\ linkJob[j].todo = <<>>
    /\ linkJob' = [linkJob EXCEPT ![j] = NoJob]
    /\ UNCHANGED <<linkStatus, mainConf, sideConf, muddled>>

\* healthCheckAll picks the links shown as deployed ...
BeginCheck(j) ==
    /\ linkJob[j].kind = "none"
    /\ \E l \in Link :
        /\ linkStatus[l] \in Shown
        /\ linkJob' = [linkJob EXCEPT ![j] = [kind |-> "check", link |-> l, todo |-> <<>>]]
        /\ muddled' = IF Working(l) THEN muddled \cup {l} ELSE muddled
    /\ UNCHANGED <<linkStatus, mainConf, sideConf>>

\* ... and healthCheckLink records what the measurement brought, whatever the
\* link has become in the meantime.
Checked(j) ==
    /\ linkJob[j].kind = "check"
    /\ \E s \in {"online", "offline", "error"} :
        linkStatus' = [linkStatus EXCEPT ![linkJob[j].link] = s]
    /\ linkJob' = [linkJob EXCEPT ![j] = NoJob]
    /\ UNCHANGED <<mainConf, sideConf, muddled>>

CascadeNext ==
    \E j \in Job :
        \/ DeployLink(j)  \/ UndeployLink(j)
        \/ Upload(j)      \/ UploadFails(j)
        \/ Deployed(j)    \/ Undeployed(j)
        \/ BeginCheck(j)  \/ Checked(j)

CascadeSpec == CascadeInit /\ [][CascadeNext]_cascadeVars

-----------------------------------------------------------------------------
Served(l) ==
    /\ l \in mainConf[PortalOf[l]]
    /\ \/ l \in sideConf[BridgeOf[l]]
       \/ l \in Forward \cap mainConf[BridgeOf[l]]

\* A link the panel shows as deployed is configured at both its ends, however
\* the jobs of other links that rebuild the same configurations interleave;
\* unless calls for this very link overlapped, which nothing in the service
\* prevents and after which its status says nothing.
ShownIsServed ==
    \A l \in Link : linkStatus[l] \in Shown /\ l \notin muddled => Served(l)

\* The drawings for which this can be promised: no two links that end at one
\* node each write that node's xray-bridge service for themselves alone.  They
\* do when the node is a relay, and when one of them is a forward link and the
\* node has no Xray of its own.
OwnService ==
    \A k, l \in Link : k # l /\ BridgeOf[k] = BridgeOf[l] =>
        /\ {k, l} \cap Forward = {} => ~\E m \in Link : PortalOf[m] = BridgeOf[l]
        /\ {k, l} \cap Forward # {} => BridgeOf[l] \in XraySite

\* undeployLink's comments promise configurations regenerated without the link:
\* none that an undeployment writes still holds it.
UndeployExcludes ==
    [][\A j \in Job :
        LET r == linkJob[j]  n == Head(r.todo)[2] IN
        r.kind = "undeploy" /\ Upload(j) =>
            r.link \notin IF Head(r.todo)[1] = "main" THEN mainConf'[n]
                                                     ELSE sideConf'[n]]_cascadeVars
===============================================================================
