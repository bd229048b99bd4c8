SPECIFICATION BothSpec
CONSTANTS
    w1 = w1
    w2 = w2
    u1 = u1
    u2 = u2
    Worker = {w1}
    User = {u1}
    MaxOps = 2
    MaxSecret = 2
    MaxFaults = 0
    FaultKinds = {}
CHECK_DEADLOCK FALSE
INVARIANTS CanRollBack
