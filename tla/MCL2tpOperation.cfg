SPECIFICATION BothSpec
CONSTANTS
    w1 = w1
    w2 = w2
    u1 = u1
    u2 = u2
    Worker = {w1, w2}
    User = {u1}
    MaxOps = 3
    MaxSecret = 3
    MaxFaults = 2
    FaultKinds = {"crash", "database"}
CHECK_DEADLOCK FALSE
SYMMETRY WorkerSymmetry
 
PROPERTIES SuccessIsReal FinalIsFinal
