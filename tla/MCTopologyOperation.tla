------------------------ MODULE MCTopologyOperation ------------------------
\* Model values for TopologyOperation.  The plans run against the order of
\* the node ids, so that taking locks and deploying go opposite ways.
EXTENDS TopologyOperation, TLC

CONSTANTS o1, o2, w1, w2

OneNode  == [o \in Op |-> <<1>>]
TwoNodes == [o \in Op |-> <<2, 1>>]
\* o1 deploys both nodes, o2 only the one o1 changes first.
Overlap  == (o1 :> <<2, 1>>) @@ (o2 :> <<2>>)

WorkerSymmetry == Permutations(Worker)

===========================================================================
