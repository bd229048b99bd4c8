SPECIFICATION UpkeepSpec
CONSTANTS
    Ip = {"i1", "i2", "i3"}
    AuthReq = {"r1", "r2"}
    DeviceCap = 1
    CopyTtl = 1
    MaxAnswer = 1
    MaxDisturbances = 1
    Poll = {"p1"}
    MaxSlot = 4
    HourSlots = 2
    DayHours = 1
    MaxCarried = 1
    MaxPanelStops = 1
    relay1 = relay1
    relay2 = relay2
    relay3 = relay3
    Relay = {relay1, relay2, relay3}
    Login = {"a", "b", "c"}
    Password = {"p", "q"}
    PoolSize = 2
    Octet = {1, 2}
    FirstOctet <- MCFirstOctet
    ChainLink = {1, 2, 3}
    ChainOf <- MCChainOf
    MaxCalls = 5
    MaxAccountFaults = 1
    MaxLines = 3
    MaxBatches = 3
    RotateAt = 2
    SpoolCap = 1
    MaxShipFaults = 2
    MaxRelays = 2
    Leaf = {11, 12}
    Version = {"v1", "v2"}
    KeepLast = 3
    MaxBackups = 4
    MaxOverlap = 2
    MaxUpdateFaults = 1
    Session = {"a", "b"}
    MaxRetries = 1
    MaxDirect = 1
    MaxAttempts = 3
    MaxLineFaults = 2
    XNode = {1, 2, 3}
    XLink = {1, 2}
    FirstBridge = 2
    MaxXEdits = 2
    MaxDrafts = 1
    MaxModels = 7
    MaxBoots = 3
    Parts = {"auth", "traffic", "accounts", "logs", "config", "update", "ssh", "transfer", "process"}
CHECK_DEADLOCK FALSE
INVARIANTS CountedOnce InstalledRelayServes   PoolIsSound TransfersAgree 
PROPERTIES AdmissionsAreSound ExitsAsDrawn
