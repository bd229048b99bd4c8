SPECIFICATION FairSpec
CONSTANTS
    o1 = o1
    o2 = o2
    w1 = w1
    w2 = w2
    Worker = {w1}
    Op = {o1,o2}
    Node = {1, 2}
    Plan <- Overlap
    MaxRevision = 2
    MaxFaults = 0
    FaultKinds = {}
CHECK_DEADLOCK FALSE
INVARIANTS DeployedIsRunning
PROPERTIES LedgerSpec Completion
