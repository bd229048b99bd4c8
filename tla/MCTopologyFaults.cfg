SPECIFICATION EndsSpec
CONSTANTS
    Parts = {"operations", "map"}
    o1 = o1
    o2 = o2
    w1 = w1
    w2 = w2
    Worker = {w1,w2}
    Op = {o1}
    Node = {1, 2}
    Plan <- TwoNodes
    MaxRevision = 1
    MaxFaults = 2
    FaultKinds = {"crash", "stall", "database"}
    Tab = {"t1"}
    m1 = m1
    MapLink = {m1}
    MaxChanges = 3
    MapTools = TRUE
CHECK_DEADLOCK FALSE
SYMMETRY WorkerSymmetry
INVARIANTS HonestOutcome
PROPERTIES NoLateActivation UntouchedSaveIsSafe
