SPECIFICATION PanelSpec
CONSTANTS
    k1 = k1
    Call = {k1}
    What = {"off", "renew"}
    RuleValue <- MCRuleValue
    Covers <- MCCovers
    Destination = {"a", "b"}
    NoRuleSet <- MCNoRuleSet
    MaxRules = 3
    r1 = r1
    r2 = r2
    Req = {r1}
    Client = {"uri", "happ", "happ-ios"}
    MaxEvents = 2
    MaxNodes = 4
    MaxEntries = 2
    Hwid = {"h1", "h2"}
    NoHwid = "none"
    Fetch = {"f1", "f2"}
    Limit = 1
    MaxRelayOps = 2
    MaxRelayKills = 1
    FleetId = {"n1", "n2"}
    FleetReq = {"q1", "q2"}
    Cred = {"c1", "c2"}
    MaxFleetRequests = 2
    SourceUser = {"u1", "u2"}
    Accepted = {"u1", "u2"}
    MaxPage = 2
    BatchSize = 2
    Import = {"i1"}
    Fetcher = {1, 2}
    Panel = "panel"
    UndeployOps = {"o1", "o2"}
    Parts = {"access", "rules", "subs", "formats", "devices", "relay", "fleet", "import", "undeploy"}
CHECK_DEADLOCK FALSE
INVARIANTS  CacheIsSound NoDanglingTags LimitHolds  RollbackRestores TokenAgrees UndeployedIsForgotten
PROPERTIES ImportsAreFaithful
