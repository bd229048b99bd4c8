----------------------------- MODULE XrayConfig -----------------------------
(***************************************************************************)
(* The routing of the Xray configurations composed for a deployed chain    *)
(* (frozenTopologyDeploymentPlanComposer.js, services/configGenerator.js)  *)
(* and a connection that travels through them.                             *)
(*                                                                         *)
(* A configuration is a sequence of rules; Xray takes the first that       *)
(* matches the inbound and the destination, and the first outbound if none *)
(* does.  Main nodes are numbered along the chain, the portal 0; a link is *)
(* named by the node it ends at.  Inbounds, outbounds and destinations are *)
(* pairs of a kind and a link or node.                                     *)
(***************************************************************************)
LOCAL INSTANCE Integers
LOCAL INSTANCE Sequences
LOCAL INSTANCE FiniteSets
LOCAL INSTANCE FiniteSetsExt
LOCAL INSTANCE SequencesExt

CONSTANTS
    MaxRelays,  \* bound on the relays of the chain
    Leaf        \* nodes that may be geo-routing bridges

ASSUME LeafAssumption ==
    /\ MaxRelays \in Nat
    /\ Leaf \subseteq Nat \ (0 .. MaxRelays + 1)

VARIABLES
    drawn,   \* the chain deployed: mode, relays, geo branches, L2TP relays
    packet   \* a connection, where it is now

routeVars == <<drawn, packet>>

\* The chains orderedChain accepts: a geo branch leaves the portal or a relay
\* and ends at a bridge of its own.
Drawings ==
    UNION {UNION {
        [mode   : {"forward", "reverse"},
         relays : {n},
         leaves : [g -> 0 .. n],           \* the node each branch leaves from
         path   : 0 .. n]                  \* where the L2TP path starts, if any
        : g \in SUBSET Leaf} : n \in 0 .. MaxRelays}

Exit(d)      == d.relays + 1
Leaves(d)    == DOMAIN d.leaves
AllNodes(d)  == (0 .. Exit(d)) \cup Leaves(d)
LinkSource(d, l) == IF l \in Leaves(d) THEN d.leaves[l] ELSE l - 1
BranchesAt(d, n) == {l \in Leaves(d) : d.leaves[l] = n}

Client == <<"client", 0>>
Freedom == <<"freedom", 0>>
Blackhole == <<"blackhole", 0>>
Plain == <<"plain", 0>>
Private == <<"private", 0>>
Ipv6 == <<"ipv6", 0>>

\* A rule: the inbounds and destinations it matches ({} for any) and where to.
RuleFor(from, to, out) == [from |-> from, to |-> to, out |-> out]
EachLeaf(leaves, R(_)) == [i \in 1 .. Cardinality(leaves) |-> R(SetToSeq(leaves)[i])]

----------------------------------------------------------------------------
(* The configuration of each role.                                         *)

\* relayPathIngress: a listener for the path, if it crosses the link behind the
\* relay; it runs from its first relay to the exit.
Ingress(d, n) == IF d.path \in 1 .. n THEN {<<"cascade", n>>} ELSE {}

Ipv6Block == RuleFor({}, {Ipv6}, Blackhole)

\* The handshake of the reverse tunnel of link l reaches its portal.
Connectors(links) ==
    EachLeaf(links, LAMBDA l : RuleFor({<<"connector", l>>}, {<<"domain", l>>}, <<"portal", l>>))

GeoRules(sources, kind, leaves) ==
    EachLeaf(leaves, LAMBDA l : RuleFor(sources, {<<"geo", l>>}, <<kind, l>>))

\* applyReversePortal
ReversePortal(d) ==
    Connectors({1} \cup BranchesAt(d, 0))
        \o GeoRules({Client}, "portal", BranchesAt(d, 0))
        \o <<RuleFor({Client}, {}, <<"portal", 1>>)>>

\* The L2TP clients are left out of the geo rules.
GeoSourcesOfChain(d, n) == {<<"bridge", n>>}

\* Where a relay's geo rules apply: what comes down the chain, and what its own
\* L2TP clients send.
GeoSources(d, n) == {<<"bridge", n>>} \cup Ingress(d, n)

\* generateRelayConfig, applyCascadePathIngress
ReverseRelay(d, n) ==
    Connectors({n + 1} \cup BranchesAt(d, n))
        \o <<RuleFor({}, {<<"domain", n>>}, <<"tunnel", n>>)>>
        \o GeoRules(GeoSources(d, n), "portal", BranchesAt(d, n))
        \o <<RuleFor({<<"bridge", n>>}, {}, <<"portal", n + 1>>)>>
        \o (IF Ingress(d, n) = {} THEN <<>>
            ELSE <<RuleFor(Ingress(d, n), {}, <<"portal", n + 1>>)>>)
        \o <<Ipv6Block>>

\* generateCombinedBridgeConfig, the last hop of link l
ReverseBridge(l) ==
    <<RuleFor({}, {<<"domain", l>>}, <<"tunnel", l>>),
      RuleFor({<<"bridge", l>>}, {}, Freedom),
      Ipv6Block>>

\* applyForwardChain: every outbound leaves from the portal, a branch through
\* the prefix of the chain that reaches the node it leaves from.
ForwardPortal(d) ==
    GeoRules({Client}, "chain", Leaves(d)) \o <<RuleFor({Client}, {}, <<"chain", Exit(d)>>)>>

\* applyForwardHopInbound; on a relay with L2TP clients applyForwardChain from
\* this relay on, with no branches.
ForwardHop(d, n) ==
    <<RuleFor({<<"hop", n>>}, {}, Freedom)>>
        \o (IF n \in 1 .. d.relays /\ Ingress(d, n) # {}
            THEN <<RuleFor(Ingress(d, n), {}, <<"chain", Exit(d)>>)>>
            ELSE <<>>)

\* ensurePrivateIpBlock: the last rule
PrivateBlock == RuleFor({}, {Private}, Blackhole)

RulesOf(d, n) ==
    CASE d.mode = "reverse" /\ n = 0               -> Append(ReversePortal(d), PrivateBlock)
      [] d.mode = "reverse" /\ n \in 1 .. d.relays -> Append(ReverseRelay(d, n), PrivateBlock)
      [] d.mode = "reverse"                        -> Append(ReverseBridge(n), PrivateBlock)
      [] n = 0                                     -> Append(ForwardPortal(d), PrivateBlock)
      [] OTHER                                     -> Append(ForwardHop(d, n), PrivateBlock)

\* The first outbound: the tunnel upwards on a reverse relay, direct elsewhere.
FirstOutbound(d, n) ==
    IF d.mode = "reverse" /\ n \in 1 .. d.relays THEN <<"tunnel", n>> ELSE Freedom

OutboundFor(d, n, from, to) ==
    LET matching == {i \in DOMAIN RulesOf(d, n) :
                        LET r == RulesOf(d, n)[i]
                        IN (r.from = {} \/ from \in r.from) /\ (r.to = {} \/ to \in r.to)}
    IN IF matching = {} THEN FirstOutbound(d, n) ELSE RulesOf(d, n)[Min(matching)].out

----------------------------------------------------------------------------
(* A connection.  hops are the nodes a forward chain still has to reach.   *)

Sent(n, from, to) == [at |-> n, from |-> from, to |-> to, hops |-> <<>>, end |-> "none", start |-> <<n, from>>]
NoPacket          == Sent(0, Client, Plain)

RouteInit ==
    /\ drawn \in Drawings
    /\ packet = [NoPacket EXCEPT !.end = "exit"]

\* A client of the portal, an L2TP client of a relay, the bridge end of a link
\* that opens its tunnel.  A private destination of an L2TP client is blocked
\* before the chain (l2tpXrayFragmentProvider.js).
Destinations(d) == {Plain, Private, Ipv6} \cup {<<"geo", l>> : l \in Leaves(d)}

Send ==
    /\ packet.end # "none"
    /\ \/ \E to \in Destinations(drawn) : packet' = Sent(0, Client, to)
       \/ \E r \in {r \in 1 .. drawn.relays : Ingress(drawn, r) # {}}, to \in Destinations(drawn) \ {Private} :
             packet' = Sent(r, <<"cascade", r>>, to)
       \/ /\ drawn.mode = "reverse"
          /\ \E l \in AllNodes(drawn) \ {0} : packet' = Sent(l, <<"bridge", l>>, <<"domain", l>>)
    /\ UNCHANGED drawn

\* What the node sees: the next hop's address, or the destination.
Visible(p) == IF p.hops = <<>> THEN p.to ELSE <<"node", Head(p.hops)>>

\* The hops of the outbound towards node l that leaves from node n: the prefix
\* of the main chain, then l.
Chain(d, n, l) ==
    LET last == LinkSource(d, l) IN [i \in 1 .. last - n |-> n + i] \o <<l>>

Moved(d, p, out) ==
    CASE out[1] = "portal" ->
            IF p.to = <<"domain", out[2]>> THEN [p EXCEPT !.end = "established"]
            ELSE [p EXCEPT !.at = out[2], !.from = <<"bridge", out[2]>>]
      [] out[1] = "tunnel" ->
            [p EXCEPT !.at = LinkSource(d, out[2]), !.from = <<"connector", out[2]>>]
      [] out[1] = "chain" ->
            LET hops == Chain(d, p.at, out[2])
            IN [p EXCEPT !.at = Head(hops), !.from = <<"hop", Head(hops)>>, !.hops = Tail(hops)]
      [] out = Freedom /\ p.hops # <<>> ->
            [p EXCEPT !.at = Head(p.hops), !.from = <<"hop", Head(p.hops)>>, !.hops = Tail(p.hops)]
      [] out = Freedom /\ p.hops = <<>> -> [p EXCEPT !.end = "exit"]
      [] out = Blackhole -> [p EXCEPT !.end = "dropped"]

Hop ==
    /\ packet.end = "none"
    /\ packet' = Moved(drawn, packet, OutboundFor(drawn, packet.at, packet.from, Visible(packet)))
    /\ UNCHANGED drawn

\* Another deployment, between two connections.
Redraw ==
    /\ packet.end # "none"
    /\ drawn' \in Drawings
    /\ packet' = [NoPacket EXCEPT !.end = "exit"]

RouteNext == Send \/ Hop \/ Redraw

RouteSpec == RouteInit /\ [][RouteNext]_routeVars

----------------------------------------------------------------------------
\* The node a connection should leave from: the geo branch that owns its
\* destination, as far as the branch lies ahead, or else the end of the chain.
\* On a forward relay the branches are the portal's: L2TP traffic takes the
\* chain's end.
ExitDrawn(d, p) ==
    IF /\ p.to[1] = "geo"
       /\ (p.start[2] = Client \/ d.mode = "reverse")
       /\ d.leaves[p.to[2]] >= p.start[1]
    THEN p.to[2] ELSE Exit(d)

\* Whatever chain was drawn, a connection leaves from the node the drawing
\* says, through every hop's own rules in order, and every reverse tunnel's
\* handshake reaches the node that awaits it.
ExitsAsDrawn ==
    [][(packet.end = "none" /\ packet'.end # "none" /\ packet.to # Ipv6) =>
          IF packet.to[1] = "domain"
          THEN packet'.end = "established" /\ packet'.at = LinkSource(drawn, packet.to[2])
          ELSE packet'.end = "exit" /\ packet'.at = ExitDrawn(drawn, packet)]_routeVars

\* "reject IPv6 targets instantly (blackhole closes the connection) so
\* dual-stack clients fall back to IPv4" (configGenerator.js:1313): on a bridge
\* the rule stands behind the one that releases all that comes down the tunnel.
Ipv6IsRejected ==
    [][(drawn.mode = "reverse" /\ packet.end = "none" /\ packet'.end # "none" /\ packet.to = Ipv6) =>
          packet'.end = "dropped"]_routeVars

============================================================================
