SPECIFICATION LiveSpec
CONSTANTS
    o1 = o1
    w1 = w1
    w2 = w2
    Worker = {w1, w2}
    Op = {o1}
    Node = {1, 2}
    Plan <- TwoNodes
    MaxRevision = 1
    MaxFaults = 1
    FaultKinds = {"crash"}
    User = {"u1"}
    MaxOps = 2
    MaxSecret = 2
    L2tpFaultKinds = {"crash", "timeout"}
    Subscriber = {"s1"}
    MaxTime = 2
    MaxDelay = 1
    MaxSaves = 2
    MaxRestarts = 1
    MaxDbFaults = 1
    Checker = {"health", "poll"}
    Threshold = 3
    MaxChanges = 4
CHECK_DEADLOCK FALSE
INVARIANTS OneTimer
PROPERTIES TopologySettles L2tpCompletion OverdueIsDisabled StatusSettles
