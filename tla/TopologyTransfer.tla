-------------------------- MODULE TopologyTransfer --------------------------
(***************************************************************************)
(* Carrying a topology from one panel to another as a document without     *)
(* database ids (domain/topologyTransfer.js with its draft service,        *)
(* repository and model): the export reads four collections one by one     *)
(* while the panel goes on changing them, and any panel must take what it  *)
(* answers.                                                                *)
(*                                                                         *)
(* A database id is a number and stands for the record's name as well; a   *)
(* key of a document is the position its record had when it was exported.  *)
(* All links and the one route group are of one mode.                      *)
(***************************************************************************)
LOCAL INSTANCE Integers
LOCAL INSTANCE Sequences
LOCAL INSTANCE FiniteSets
LOCAL INSTANCE SequencesExt
LOCAL INSTANCE TLC
LOCAL Graph == INSTANCE TopologyGraph

CONSTANTS
    XNode,         \* ids of nodes
    XLink,         \* ids of links
    FirstBridge,   \* the node that is the bridge at first
    MaxXEdits,     \* bound on changes of the topology
    MaxDrafts      \* bound on stored drafts

ASSUME TransferAssumption ==
    /\ XNode \cup XLink \cup {MaxXEdits, MaxDrafts} \subseteq Nat /\ IsFiniteSet(XNode \cup XLink)
    /\ FirstBridge \in XNode

VARIABLES
    panelNodes,    \* node -> role, and whether it is an active Xray node
    panelLinks,    \* link -> its ends
    panelPaths,    \* paths of the route group: pathKey -> links, priority
    panelRelays,   \* relay -> desiredState, for the relays that have a state
    reading,       \* the export under way, and what it read before some edit
    answer,        \* the document the last export answered, or why there is none
    drafts,        \* stored drafts
    xEdits

panel == <<panelNodes, panelLinks, panelPaths, panelRelays>>
transferVars == <<panelNodes, panelLinks, panelPaths, panelRelays,
                  reading, answer, drafts, xEdits>>

Portable  == {"absent", "installed"}
PathKeys  == {1, 2}
Nothing   == [is |-> "nothing"]
Idle      == [on |-> FALSE, early |-> <<>>]
From(ls)  == [l \in DOMAIN ls |-> ls[l].source]
To(ls)    == [l \in DOMAIN ls |-> ls[l].target]

----------------------------------------------------------------------------
(* The panel's own operations on the topology.                             *)

ValidPaths(ps, ls) ==
    \A k \in DOMAIN ps : Graph!ValidPath(ps[k].links, DOMAIN ls, From(ls), To(ls))

Value(part) == CASE part = "nodes" -> panelNodes [] part = "links" -> panelLinks
                 [] part = "paths" -> panelPaths [] part = "relays" -> panelRelays

\* An edit changes some collections.  An export under way may have read any of
\* them before.
Edit(parts) ==
    /\ xEdits < MaxXEdits /\ xEdits' = xEdits + 1
    /\ Cardinality(drafts) < MaxDrafts
    /\ answer' = Nothing
    /\ \E first \in SUBSET (parts \ DOMAIN reading.early) :
          reading' = [reading EXCEPT !.early = [p \in first |-> Value(p)] @@ @]
    /\ reading.on \/ reading' = reading
    /\ UNCHANGED drafts

\* A node changes its role or is switched off, whatever refers to it.
ChangeNode(n, role, live) ==
    /\ panelNodes[n] # [role |-> role, live |-> live]
    /\ Edit({"nodes"})
    /\ panelNodes' = [panelNodes EXCEPT ![n] = [role |-> role, live |-> live]]
    /\ UNCHANGED <<panelLinks, panelPaths, panelRelays>>

CreateLink(l, s, t) ==
    /\ l \notin DOMAIN panelLinks /\ s # t
    /\ Edit({"links"})
    /\ panelLinks' = [k \in DOMAIN panelLinks \cup {l} |->
           IF k = l THEN [source |-> s, target |-> t] ELSE panelLinks[k]]
    /\ UNCHANGED <<panelNodes, panelPaths, panelRelays>>

\* The paths that use the link go with it.
DeleteLink(l) ==
    /\ l \in DOMAIN panelLinks
    /\ Edit({"links", "paths"})
    /\ panelLinks' = [k \in DOMAIN panelLinks \ {l} |-> panelLinks[k]]
    /\ panelPaths' = [k \in {j \in DOMAIN panelPaths : l \notin ToSet(panelPaths[j].links)}
                        |-> panelPaths[k]]
    /\ UNCHANGED <<panelNodes, panelRelays>>

\* What normalizeRouteGroupInput takes: paths without a link twice, and with
\* priorities of their own.
PathSets ==
    {ps \in UNION {[K -> [links : {<<l>> : l \in XLink} \cup {<<l, m>> : l, m \in XLink},
                         priority : {1, 2}]] : K \in SUBSET PathKeys \ {{}}} :
        /\ \A k \in DOMAIN ps : IsInjective(ps[k].links)
        /\ \A j, k \in DOMAIN ps : j # k => ps[j].priority # ps[k].priority}

\* PUT of the route group.
SetPaths(ps) ==
    /\ Edit({"paths"})
    /\ ValidPaths(ps, panelLinks)
    /\ panelPaths' = ps
    /\ UNCHANGED <<panelNodes, panelLinks, panelRelays>>

\* Installing a relay gives it the chain that leaves it as a path of the shared
\* group, at priority 1 whatever the others have, in place of the paths that
\* start inside it.  Of the paths that cover the relay already the longest stays.
InstallRelayAt(n, k) ==
    LET bridges == {m \in XNode : panelNodes[m].role = "bridge"}
        chain   == Graph!DefaultChain(DOMAIN panelLinks, From(panelLinks), To(panelLinks), {}, bridges, n)
        links(j)  == panelPaths[j].links
        covering  == {j \in DOMAIN panelPaths : chain.path # <<>> /\ chain.path[1] \in ToSet(links(j))}
        outside   == {j \in DOMAIN panelPaths : chain.path # <<>> /\ links(j)[1] \notin ToSet(Tail(chain.path))}
    IN /\ Edit({"paths", "relays"})
       /\ panelNodes[n].role = "relay" /\ chain.how # "ambiguous"
       /\ \/ chain.path = <<>> /\ panelPaths # <<>> /\ UNCHANGED panelPaths
          \/ /\ chain.path # <<>> /\ covering = {} /\ k \notin outside
             /\ panelPaths' = [j \in outside \cup {k} |->
                    IF j = k THEN [links |-> chain.path, priority |-> 1] ELSE panelPaths[j]]
          \/ /\ k \in covering /\ \A j \in covering : Len(links(j)) <= Len(links(k))
             /\ panelPaths' = [j \in (DOMAIN panelPaths \ covering) \cup {k} |-> panelPaths[j]]
       /\ panelRelays' = [m \in DOMAIN panelRelays \cup {n} |->
                             IF m = n THEN "installed" ELSE panelRelays[m]]
       /\ UNCHANGED <<panelNodes, panelLinks>>

\* Uninstalling it writes a state that the model's enum does not have.
UninstallRelayAt(n) ==
    /\ n \in DOMAIN panelRelays /\ panelRelays[n] = "installed"
    /\ Edit({"relays"})
    /\ panelRelays' = [panelRelays EXCEPT ![n] = "not_installed"]
    /\ UNCHANGED <<panelNodes, panelLinks, panelPaths>>

----------------------------------------------------------------------------
(* Documents.                                                              *)

\* Paths go by priority, and by key where it is the same.
Before(a, b) == a.priority < b.priority \/ (a.priority = b.priority /\ a.pathKey < b.pathKey)

\* In the order in which the records came.
AliasReversed(S, x) == Cardinality({y \in S : y >= x})

\* buildAliases: the position among the records, in the order of their ids.
Alias(S, x) == Cardinality({y \in S : y <= x})

ByNumber(S) == [i \in 1 .. Cardinality(S) |-> CHOOSE x \in S : Cardinality({y \in S : y <= x}) = i]

\* loadCurrentTopology keeps the active Xray nodes that have a cascade role,
\* and all links, groups and relay states.
Live(r) == {n \in DOMAIN r.nodes : r.nodes[n].live}

\* exportTopologyTransfer finds an alias for every reference, or fails.
Exportable(r) ==
    /\ \A l \in DOMAIN r.links : {r.links[l].source, r.links[l].target} \subseteq Live(r)
    /\ \A k \in DOMAIN r.paths : ToSet(r.paths[k].links) \subseteq DOMAIN r.links
    /\ \A n \in DOMAIN r.relays : n \in Live(r) /\ r.relays[n] \in Portable

Exported(r) ==
    LET node(n) == Alias(Live(r), n)
        link(l) == Alias(DOMAIN r.links, l)
        ns == ByNumber(Live(r))  ls == ByNumber(DOMAIN r.links)  rs == ByNumber(DOMAIN r.relays)
        path(k) == [pathKey |-> k, priority |-> r.paths[k].priority,
                    links |-> [i \in DOMAIN r.paths[k].links |-> link(r.paths[k].links[i])]]
    IN [nodes  |-> [i \in DOMAIN ns |-> [key |-> i, name |-> ns[i], role |-> r.nodes[ns[i]].role]],
        links  |-> [i \in DOMAIN ls |-> [key |-> i, name |-> ls[i],
                        source |-> node(r.links[ls[i]].source), target |-> node(r.links[ls[i]].target)]],
        paths  |-> SortSeq(SetToSeq({path(k) : k \in DOMAIN r.paths}), Before),
        relays |-> [i \in DOMAIN rs |-> [node |-> node(rs[i]), desired |-> r.relays[rs[i]]]]]

Keys(s)       == {s[i].key : i \in DOMAIN s}
Distinct(s)   == \A i, j \in DOMAIN s : i # j => s[i].key # s[j].key
ByKey(s)      == SortSeq(s, LAMBDA a, b : a.key < b.key)
ByNode(s)     == SortSeq(s, LAMBDA a, b : a.node < b.node)
DuplicatePriority(d) == \E i, j \in DOMAIN d.paths : i # j /\ d.paths[i].priority = d.paths[j].priority

\* canonicalizeTopologyTransfer: keys and references hold together, ...
WellFormed(d) ==
    /\ Distinct(d.nodes) /\ Distinct(d.links)
    /\ \A i \in DOMAIN d.links : {d.links[i].source, d.links[i].target} \subseteq Keys(d.nodes)
    /\ \A i \in DOMAIN d.paths : /\ ToSet(d.paths[i].links) \subseteq Keys(d.links)
                                 /\ IsInjective(d.paths[i].links)
    /\ \A i, j \in DOMAIN d.paths : i # j => d.paths[i].pathKey # d.paths[j].pathKey
    /\ ~DuplicatePriority(d)
    /\ \A i \in DOMAIN d.relays : d.relays[i].node \in Keys(d.nodes) /\ d.relays[i].desired \in Portable
    /\ \A i, j \in DOMAIN d.relays : i # j => d.relays[i].node # d.relays[j].node

\* ... and the records are put in order.
Canonical(d) == [nodes |-> ByKey(d.nodes), links |-> ByKey(d.links),
                 paths |-> SortSeq(d.paths, Before), relays |-> ByNode(d.relays)]

\* validateDocumentTopology: relay states are of relays, and paths are valid.
ValidDocument(d) ==
    LET role(n) == (CHOOSE i \in DOMAIN d.nodes : d.nodes[i].key = n)
        ends == [l \in Keys(d.links) |-> d.links[CHOOSE i \in DOMAIN d.links : d.links[i].key = l]]
    IN /\ \A i \in DOMAIN d.relays : d.nodes[role(d.relays[i].node)].role = "relay"
       /\ \A i \in DOMAIN d.paths : Graph!ValidPath(d.paths[i].links, DOMAIN ends, From(ends), To(ends))

----------------------------------------------------------------------------
(* Export and import.                                                      *)

StartExport ==
    /\ ~reading.on
    /\ Cardinality(drafts) < MaxDrafts
    /\ reading' = [on |-> TRUE, early |-> <<>>]
    /\ answer' = Nothing
    /\ UNCHANGED <<panel, drafts, xEdits>>

\* The four queries run side by side; what was not read early is read now.
ReadNow == [part \in {"nodes", "links", "paths", "relays"} |->
               IF part \in DOMAIN reading.early THEN reading.early[part] ELSE Value(part)]

\* The document is answered, or stored as a draft if the draft's model, which
\* wants it canonical, takes it.
FinishExport(store) ==
    /\ reading.on
    /\ LET d  == Exported(ReadNow)
           ok == Exportable(ReadNow) /\ ValidDocument(d)
           takes == ok /\ WellFormed(d) /\ Canonical(d) = d
       IN /\ answer' = IF ok /\ (store => takes)
                       THEN [is |-> "document", doc |-> d, read |-> ReadNow]
                       ELSE IF ok THEN [is |-> "refused by the model", doc |-> d] ELSE [is |-> "refused"]
          /\ IF store /\ takes
             THEN Cardinality(drafts) < MaxDrafts /\ drafts' = drafts \cup {[doc |-> d, of |-> d]}
             ELSE UNCHANGED drafts
    /\ reading' = Idle
    /\ UNCHANGED <<panel, xEdits>>

\* Another panel imports the answered document, its records in some order.
Import(doc) ==
    /\ answer.is = "document"
    /\ Cardinality(drafts) < MaxDrafts
    /\ WellFormed(doc) /\ ValidDocument(Canonical(doc))
    /\ drafts' = drafts \cup {[doc |-> Canonical(doc), of |-> answer.doc]}
    /\ UNCHANGED <<panel, reading, answer, xEdits>>

Shuffled(d) == {[d EXCEPT !.nodes = Reverse(@)], [d EXCEPT !.links = Reverse(@), !.relays = Reverse(@)],
                [d EXCEPT !.paths = Reverse(@)]}

LinkSets == UNION {[K -> [source : XNode, target : XNode]] : K \in SUBSET XLink}

\* A panel with links, and no L2TP so far.
TransferInit ==
    /\ panelNodes = [n \in XNode |->
          [role |-> IF n = FirstBridge THEN "bridge" ELSE "relay", live |-> TRUE]]
    /\ panelLinks \in {ls \in LinkSets : /\ \A l \in DOMAIN ls : ls[l].source # ls[l].target
                                        /\ IsInjective([l \in DOMAIN ls |-> {ls[l].source, ls[l].target}])}
    /\ panelPaths = <<>> /\ panelRelays = <<>>
    /\ reading = Idle /\ answer = Nothing /\ drafts = {} /\ xEdits = 0

TransferNext ==
    \/ \E n \in XNode, role \in {"relay", "bridge"}, live \in BOOLEAN : ChangeNode(n, role, live)
    \/ \E l \in XLink, s, t \in XNode : CreateLink(l, s, t)
    \/ \E l \in XLink : DeleteLink(l)
    \/ xEdits < MaxXEdits /\ \E ps \in PathSets : SetPaths(ps)
    \/ \E n \in XNode, k \in PathKeys : InstallRelayAt(n, k)
    \/ \E n \in XNode : UninstallRelayAt(n)
    \/ StartExport
    \/ \E store \in BOOLEAN : FinishExport(store)
    \/ answer.is = "document" /\ \E doc \in Shuffled(answer.doc) : Import(doc)

TransferSpec == TransferInit /\ [][TransferNext]_transferVars

----------------------------------------------------------------------------
\* A document's topology, told by the names of its records.
Told(d) ==
    LET name(s, k) == s[CHOOSE i \in DOMAIN s : s[i].key = k].name
    IN [nodes  |-> {<<d.nodes[i].name, d.nodes[i].role>> : i \in DOMAIN d.nodes},
        links  |-> {<<d.links[i].name, name(d.nodes, d.links[i].source), name(d.nodes, d.links[i].target)>>
                       : i \in DOMAIN d.links},
        paths  |-> {<<d.paths[i].pathKey, d.paths[i].priority,
                      [j \in DOMAIN d.paths[i].links |-> name(d.links, d.paths[i].links[j])]>>
                       : i \in DOMAIN d.paths},
        relays |-> {<<name(d.nodes, d.relays[i].node), d.relays[i].desired>> : i \in DOMAIN d.relays}]

ToldBy(r) ==
    [nodes  |-> {<<n, r.nodes[n].role>> : n \in Live(r)},
     links  |-> {<<l, r.links[l].source, r.links[l].target>> : l \in DOMAIN r.links},
     paths  |-> {<<k, r.paths[k].priority, r.paths[k].links>> : k \in DOMAIN r.paths},
     relays |-> {<<n, r.relays[n]>> : n \in DOMAIN r.relays}]

\* What is exported is the topology that was read, whatever its ids; every
\* import of it, in whatever order its records come, stores the same topology;
\* and unless two paths share a priority, importers and the draft's model take it.
TransfersAgree ==
    /\ answer.is = "document" =>
          /\ Told(answer.doc) = ToldBy(answer.read)
          /\ DuplicatePriority(answer.doc)
                \/ (WellFormed(answer.doc) /\ Canonical(answer.doc) = answer.doc)
    /\ answer.is = "refused by the model" => DuplicatePriority(answer.doc)
    /\ \A d \in drafts : Told(d.doc) = Told(d.of) /\ Canonical(d.doc) = d.doc

\* Every document that an export answers can be imported.
ExportsCanBeImported == answer.is = "document" => WellFormed(answer.doc)

============================================================================
