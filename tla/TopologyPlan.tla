----------------------------- MODULE TopologyPlan -----------------------------
(***************************************************************************)
(* From a draft to a deployment plan: which node graphs the composer       *)
(* (services/frozenTopologyDeploymentPlanComposer.js) accepts, in which    *)
(* order it deploys their nodes, and how that agrees with the paths the    *)
(* validator accepts and the L2TP path maintenance builds.  The variables  *)
(* are inputs: an operator draws links, marks them as geo branches and     *)
(* assigns roles, and extends or shortens a path by hand.                  *)
(***************************************************************************)
EXTENDS TopologyGraph

CONSTANTS
    PlanLink,       \* links an operator may draw
    LinkFrom,       \* [PlanLink -> PlanNode]
    LinkTo,         \* [PlanLink -> PlanNode]
    PlanNode,       \* node ids, ordered as their strings are
    Longest         \* bound on the hand-made path

ASSUME PlanNodeAssumption ==
    /\ PlanNode \subseteq Nat /\ Longest \in Nat
    /\ LinkFrom \in [PlanLink -> PlanNode] /\ LinkTo \in [PlanLink -> PlanNode]

VARIABLES
    drawn,          \* each link: absent, of the main chain, or a geo branch
    roles,          \* each node's cascade role
    path            \* a path of a route group

planVars == <<drawn, roles, path>>

PlanInit ==
    /\ drawn = [l \in PlanLink |-> "absent"]
    /\ roles \in [PlanNode -> {"portal", "relay", "bridge"}]
    /\ Cardinality({n \in PlanNode : roles[n] = "portal"}) = 1
    /\ path = <<>>

-----------------------------------------------------------------------------
Main  == {l \in PlanLink : drawn[l] = "main"}
Geo   == {l \in PlanLink : drawn[l] = "geo"}
Nodes == Ends(Main \cup Geo, LinkFrom, LinkTo)
Portal == CHOOSE n \in PlanNode : roles[n] = "portal"

\* The nodes reached from the portal over main links, in order.
MainChain ==
    LET next(c) == {l \in Main : LinkFrom[l] = Last(c)}
        walk[i \in 0 .. Cardinality(PlanNode)] ==
            IF i = 0 THEN <<Portal>>
            ELSE IF next(walk[i-1]) = {} THEN walk[i-1]
            ELSE Append(walk[i-1], LinkTo[CHOOSE l \in next(walk[i-1]) : TRUE])
    IN walk[Cardinality(PlanNode)]

Leaves == Nodes \ Range(MainChain)

\* One link out of, and one into, each node of the main chain, which starts at
\* the portal, goes over relays to a bridge and uses every main link.
LinearMain ==
    /\ Portal \in Nodes
    /\ \A k, l \in Main : k # l => /\ LinkFrom[k] # LinkFrom[l]
                                   /\ LinkTo[k] # LinkTo[l]
    /\ IsInjective(MainChain)
    /\ Len(MainChain) = Cardinality(Main) + 1
    /\ roles[Last(MainChain)] = "bridge"
    /\ \A i \in 2 .. Len(MainChain) - 1 : roles[MainChain[i]] = "relay"

\* Mutant of GeoBranches: a branch may start and end anywhere.
GeoAnywhere ==
    \A n \in Leaves : roles[n] = "bridge" /\ \E l \in Geo : LinkTo[l] = n

\* Geo branches lead from the chain to bridges of their own that lead nowhere.
GeoBranches ==
    /\ \A k, l \in Geo : k # l => LinkTo[k] # LinkTo[l]
    /\ \A n \in Leaves :
        /\ roles[n] = "bridge"
        /\ \E l \in Geo : LinkTo[l] = n
        /\ \A l \in Main \cup Geo : LinkFrom[l] # n
    /\ \A l \in Geo : /\ LinkFrom[l] \in Range(MainChain)
                      /\ LinkTo[l] \notin Range(MainChain)

\* orderedChain accepts.
Accepted == LinearMain /\ GeoBranches

\* composeFrozenTopologyDeploymentPlan: the deployment order of a mode.
DeploymentOrder(mode) ==
    LET leaves == SetToSortSeq(Leaves, <) IN
    IF mode = "forward" THEN leaves \o Reverse(MainChain) ELSE MainChain \o leaves

-----------------------------------------------------------------------------
Redraw ==
    /\ \E l \in PlanLink, how \in {"absent", "main", "geo"} :
        drawn' = [drawn EXCEPT ![l] = how]
    /\ path = <<>>
    /\ UNCHANGED <<roles, path>>

EditPath ==
    /\ \A l \in PlanLink : drawn[l] = "absent"
    /\ \/ \E l \in PlanLink : Len(path) < Longest /\ path' = Append(path, l)
       \/ path # <<>> /\ path' = Front(path)
    /\ UNCHANGED <<drawn, roles>>

PlanNext == Redraw \/ EditPath
PlanSpec == PlanInit /\ [][PlanNext]_planVars

-----------------------------------------------------------------------------
\* A path the validator accepts visits no node twice, although it never asks
\* for that: it only looks for gaps and for cycles among the path's links.
ValidPathIsSimple ==
    ValidPath(path, PlanLink, LinkFrom, LinkTo) /\ path # <<>> =>
        IsInjective(<<LinkFrom[path[1]]>> \o [i \in DOMAIN path |-> LinkTo[path[i]]])

\* An accepted topology is deployed with every linked node once, each next hop
\* before its upstream in a forward chain and after it in a reverse chain, geo
\* branches included.
OrderFollowsLinks ==
    Accepted =>
        \A mode \in {"forward", "reverse"} :
            LET o == DeploymentOrder(mode)
                at(n) == CHOOSE i \in DOMAIN o : o[i] = n
            IN /\ IsInjective(o) /\ Range(o) = Nodes
               /\ \A l \in Main \cup Geo :
                   IF mode = "forward" THEN at(LinkTo[l]) < at(LinkFrom[l])
                                       ELSE at(LinkFrom[l]) < at(LinkTo[l])

\* In an accepted topology the path built for an L2TP relay is the rest of the
\* main chain behind it, and one the validator accepts: the two walks, written
\* apart, agree on the default path.
DefaultPathIsMain ==
    Accepted =>
        \A i \in 1 .. Len(MainChain) :
            roles[MainChain[i]] = "relay" =>
                LET w == DefaultChain(Main \cup Geo, LinkFrom, LinkTo, Geo,
                             {n \in PlanNode : roles[n] = "bridge"}, MainChain[i])
                IN /\ w.how = "end"
                   /\ [k \in DOMAIN w.path |-> LinkTo[w.path[k]]]
                          = SubSeq(MainChain, i + 1, Len(MainChain))
                   /\ ValidPath(w.path, Main \cup Geo, LinkFrom, LinkTo)

\* What the composer, the validator and the maintenance of paths make of a
\* drawing, each with a walk of its own, fits together.
PlansAreSound == ValidPathIsSimple /\ OrderFollowsLinks /\ DefaultPathIsMain
===============================================================================
