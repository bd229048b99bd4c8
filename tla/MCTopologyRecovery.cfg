SPECIFICATION Spec
CONSTANTS
    o1 = o1
    o2 = o2
    w1 = w1
    w2 = w2
    Worker = {w1}
    Op = {o1,o2}
    Node = {1, 2}
    Plan <- OneNode
    MaxRevision = 2
    MaxFaults = 1
    FaultKinds = {"crash"}
CHECK_DEADLOCK FALSE
INVARIANT DeployedIsRunning
