-------------------------- MODULE MCTopologyFaults --------------------------
\* The topology from both of its ends: the operations that deploy it, with
\* faults, and the map that draws it.  They share no state: `part` picks one of
\* them, and only its own variables move.
EXTENDS MCTopologyOperation, NetworkMap

CONSTANTS Parts, m1

VARIABLE part

EndsInit ==
    /\ part \in Parts
    /\ Init
    /\ MapInit /\ (part # "map" => mapLinks = NoLinks)

EndsNext ==
    \/ part = "operations" /\ Next /\ UNCHANGED <<part, mapVars>>
    \/ part = "map" /\ MapNext /\ UNCHANGED <<part, vars>>

EndsSpec == EndsInit /\ [][EndsNext]_<<part, vars, mapVars>>
=============================================================================
