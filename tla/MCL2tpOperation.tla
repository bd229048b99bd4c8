-------------------------- MODULE MCL2tpOperation --------------------------
\* Model values for L2tpOperation, and a run of two instances: without faults
\* up to the bounds on an installed relay, or with faults and one operation
\* and one secret less on any.
EXTENDS L2tpOperation, TLC

CONSTANTS w1, w2, u1, u2

VARIABLE mode

WorkerSymmetry == Permutations(Worker)

BothInit ==
    /\ Init
    /\ mode \in {"long", "faulty"}
    /\ mode = "long" => relay.status = "installed"

BothNext ==
    /\ Next
    /\ mode' = mode
    /\ mode = "long" => faults' = faults
    /\ mode = "faulty" => doc'[MaxOps] = doc[MaxOps] /\ relay'.secret < MaxSecret

BothSpec == BothInit /\ [][BothNext]_<<vars, mode>>
===========================================================================
