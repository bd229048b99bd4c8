------------------------- MODULE SubscriptionFormats -------------------------
(***************************************************************************)
(* The servers of a subscription in each format (subscription.js).  A node  *)
(* yields one entry per enabled port or published inbound; a virtual node   *)
(* yields a group over the entries of its sources.  Formats name an entry   *)
(* by its node and number; Xray profiles retag the entries of a balancer.   *)
(***************************************************************************)
EXTENDS Naturals, Sequences, SequencesExt, FiniteSets

CONSTANTS
    MaxNodes,       \* bound on the nodes of the list
    MaxEntries      \* bound on the entries of a node

VARIABLE listed     \* what getActiveNodes returns, in some order

formatVars == <<listed>>

FormatInit == listed = <<>>

\* A Hysteria node with its ports, all of which may be disabled, or an Xray node
\* with its main inbound and the extra ones.
AddReal ==
    /\ Len(listed) < MaxNodes
    /\ \E kind \in {"hysteria", "xray"}, n \in 0..MaxEntries :
        /\ kind = "xray" => n > 0
        /\ listed' = Append(listed, [kind |-> kind, entries |-> n, sources |-> <<>>])

\* A virtual node: its sources are real nodes of the list, each once.
AddVirtual ==
    /\ Len(listed) < MaxNodes
    /\ LET real == {i \in DOMAIN listed : listed[i].kind # "virtual"} IN
       \E chosen \in SUBSET real \ {{}} :
           listed' = Append(listed, [kind |-> "virtual", entries |-> 0,
                                     sources |-> SetToSortSeq(chosen, <)])

FormatNext == AddReal \/ AddVirtual
FormatSpec == FormatInit /\ [][FormatNext]_formatVars

-----------------------------------------------------------------------------
Nodes(kinds) == SelectSeq([i \in DOMAIN listed |-> i], LAMBDA i : listed[i].kind \in kinds)
\* The outbound that bypasses the servers.
Direct == <<0, 0>>

Real    == Nodes({"hysteria", "xray"})
Virtual == Nodes({"virtual"})

\* getNodeConfigs and getXrayPublishedInbounds.
Entries(n) == [i \in 1..listed[n].entries |-> <<n, i>>]
EntriesOf(nodes) == FlattenSeq([i \in DOMAIN nodes |-> Entries(nodes[i])])

\* generateURIList, generateV2rayJSON and the HTML page leave virtual nodes out.
URIList == EntriesOf(Real)

\* generateClashYAML: url-test groups over the sources, above the proxies.
ClashGroups == SelectSeq(Virtual, LAMBDA v : EntriesOf(listed[v].sources) # <<>>)
Clash ==
    [proxies |-> EntriesOf(Real),
     groups  |-> [i \in DOMAIN ClashGroups |->
                     [name |-> <<ClashGroups[i], 0>>,
                      members |-> EntriesOf(listed[ClashGroups[i]].sources)]],
     select  |-> Reverse([i \in DOMAIN ClashGroups |-> <<ClashGroups[i], 0>>]) \o EntriesOf(Real)]

\* generateSingboxJSON: the same groups, the selector with "direct" last.
Singbox == [Clash EXCEPT
    !.select = [i \in DOMAIN ClashGroups |-> <<ClashGroups[i], 0>>] \o EntriesOf(Real)
               \o <<Direct>>]

\* Mutant of BalancerTags: each source starts anew.
BalancerTagsPerNode(v) ==
    FlattenSeq([i \in DOMAIN listed[v].sources |->
        [j \in DOMAIN Entries(listed[v].sources[i]) |-> <<"proxy", j>>]])

\* A balancer's outbounds are numbered across its sources: the first is "proxy".
BalancerTags(v) == [i \in DOMAIN EntriesOf(listed[v].sources) |-> <<"proxy", i>>]

\* generateXrayJSON: a profile per virtual node and per entry of a real one.
ProfilesOf(n) ==
    IF listed[n].kind = "virtual"
    THEN IF BalancerTags(n) = <<>> THEN <<>>
         ELSE <<[tags |-> BalancerTags(n), fallback |-> <<"proxy", 1>>]>>
    ELSE [i \in DOMAIN Entries(n) |-> [tags |-> <<<<"proxy", 1>>>>, fallback |-> <<"proxy", 1>>]]

Profiles == FlattenSeq([n \in DOMAIN listed |-> ProfilesOf(n)])

-----------------------------------------------------------------------------
Distinct(seq) == \A i, j \in DOMAIN seq : seq[i] = seq[j] => i = j
Elements(seq) == {seq[i] : i \in DOMAIN seq}

\* Clients refuse a whole configuration for one doubled or missing tag: in every
\* profile the tags differ and the fallback exists, and every name that a Clash
\* or sing-box group or selector lists is defined once.
NoDanglingTags ==
    /\ \A i \in DOMAIN Profiles :
        /\ Distinct(Profiles[i].tags)
        /\ Profiles[i].fallback \in Elements(Profiles[i].tags)
    /\ \A config \in {Clash, Singbox} :
        LET names == config.proxies \o [i \in DOMAIN config.groups |-> config.groups[i].name] IN
        /\ Distinct(names) /\ Distinct(config.select)
        /\ Elements(config.select) \subseteq Elements(names) \cup {Direct}
        /\ \A i \in DOMAIN config.groups :
            /\ config.groups[i].members # <<>>
            /\ Elements(config.groups[i].members) \subseteq Elements(config.proxies)
    /\ Elements(URIList) = Elements(Clash.proxies)
=============================================================================
