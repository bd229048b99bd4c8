SPECIFICATION ServicesSpec
CONSTANTS
    Parts = {"lock", "links", "plan", "routes", "draft", "deployment"}
    c1 = c1
    c2 = c2
    c3 = c3
    n1 = n1
    j1 = j1
    j2 = j2
    Node = {n1}
    Client = {c1, c2, c3}
    LeaseMs = 1
    MaxTime = 3
    Link = {1, 2, 3}
    Site = {1, 2, 3}
    PortalOf <- MCPortalOf
    BridgeOf <- MCBridgeOf
    Forward = {3}
    XraySite = {1, 2}
    Job = {j1, j2}
    PlanLink = {1, 2, 3, 4, 5, 6}
    LinkFrom <- MCLinkFrom
    LinkTo <- MCLinkTo
    PlanNode = {1, 2, 3, 4}
    Longest = 3
    PathKey = {"p", "q", "s"}
    MaxPriority = 2
    DraftLink = {1, 2}
    DraftFrom <- MCDraftFrom
    DraftTo <- MCDraftTo
    GeoLink = {}
    BridgeNode = {3}
    RelayNode = 1
    Group = {"g"}
    Editor = {j1, j2}
    DirectEdits = TRUE
    MaxDraft = 3
    Deployment = {j1, j2}
    TopoNode = {1, 2}
    LastDraft = 2
    NodeFaults = 1
SYMMETRY ServicesSymmetry
INVARIANTS MutualExclusion  PlansAreSound 
PROPERTIES NoTheft DraftStaysSound DeploymentsAreHonest
CHECK_DEADLOCK FALSE
