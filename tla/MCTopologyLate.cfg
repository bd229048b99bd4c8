SPECIFICATION Spec
CONSTANTS
    o1 = o1
    o2 = o2
    w1 = w1
    w2 = w2
    Worker = {w1,w2}
    Op = {o1}
    Node = {1, 2}
    Plan <- TwoNodes
    MaxRevision = 1
    MaxFaults = 2
    FaultKinds = {"crash", "stall", "timeout", "late"}
CHECK_DEADLOCK FALSE
SYMMETRY WorkerSymmetry
INVARIANTS NodesInOrder
