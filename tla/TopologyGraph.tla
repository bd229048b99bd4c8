----------------------------- MODULE TopologyGraph -----------------------------
(***************************************************************************)
(* Walks over cascade links that the topology code shares: the validator's *)
(* view of a path (domain/topologyValidator.js) and the default chain that *)
(* an L2TP relay's traffic takes (domain/defaultChainPath.js).  A link is  *)
(* an id; `from` and `to` map it to its portal and bridge node.            *)
(***************************************************************************)
EXTENDS Integers, Sequences, FiniteSets, SequencesExt

Ends(S, from, to) == {from[l] : l \in S} \cup {to[l] : l \in S}

\* hasDirectedCycle: nodes without incoming links are taken away until none is
\* left to take; self-loops do not count.
HasDirectedCycle(S, from, to) ==
    LET entered(N) == {n \in N : \E l \in S : /\ to[l] = n
                                              /\ from[l] \in N \ {n}}
        left[i \in 0 .. Cardinality(S) + 1] ==
            IF i = 0 THEN Ends(S, from, to) ELSE entered(left[i-1])
    IN left[Cardinality(S) + 1] # {}

\* validateTopology, for one path of links of one mode: known links, no
\* self-loop, no cycle, no gap.
ValidPath(p, known, from, to) ==
    /\ Range(p) \subseteq known
    /\ \A i \in 1 .. Len(p) : from[p[i]] # to[p[i]]
    /\ ~HasDirectedCycle(Range(p), from, to)
    /\ \A i \in 1 .. Len(p) - 1 : to[p[i]] = from[p[i+1]]

MaxHops == 16

\* The links to follow out of a node: the only one, or those without geo rules.
MainHops(S, geo) == IF Cardinality(S) > 1 THEN S \ geo ELSE S

\* buildDefaultChainLinkIds: from `start`, follow the one link there is to follow
\* up to a bridge (`stop`), a dead end or MaxHops; no such link where some leave
\* the node, several, or a loop make the chain ambiguous.
DefaultChain(L, from, to, geo, stop, start) ==
    LET out(n)  == {l \in L : from[l] = n}
        hops(n) == MainHops(out(n), geo)
        step(w) ==
            IF w.how # "on" THEN w
            ELSE IF out(w.at) = {} THEN [w EXCEPT !.how = "end"]
            ELSE IF Cardinality(hops(w.at)) # 1 THEN [w EXCEPT !.how = "ambiguous"]
            ELSE LET l == CHOOSE x \in hops(w.at) : TRUE IN
                 [path |-> Append(w.path, l), at |-> to[l],
                  seen |-> w.seen \cup {to[l]},
                  how  |-> IF to[l] \in w.seen THEN "ambiguous"
                           ELSE IF to[l] \in stop THEN "end" ELSE "on"]
        walk[i \in 0 .. MaxHops] ==
            IF i = 0 THEN [path |-> <<>>, at |-> start, seen |-> {start}, how |-> "on"]
            ELSE step(walk[i-1])
    IN walk[MaxHops]
===============================================================================
