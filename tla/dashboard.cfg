CONSTANTS
    Macs <- MCMacs
    Proto <- MCProto
    LinkedMacs <- MCLinked
    Responders <- MCResponders
    Banner <- MCBanner
    MaxEdits = 1
    MaxMinted = 4
    MaxAccess = 2
    MaxFails = 1
    MaxFaults = 2
    MaxTokens = 2
    MaxRemote = 2
    MaxCuts = 1
    Alerts = {"a1", "a2", "a3"}
    SeverityOf <- MCSeverityOf
    TypeOf <- MCTypeOf
    MaxSwallowed = 1
    FindingIps = {1, 2}
    DeviceOf <- MCDeviceOf
    MaxChanges = 3
    MaxVaultKeys = 4
    MaxVaultCrashes = 2
    HostAddrs = {"h1", "h2"}
    OwnAddrs = {"o1", "o2"}
    MaxIssued = 8
    MaxFalls = 2
    MaxMoves = 2
SPECIFICATION DashboardSpec
INVARIANTS
    DashboardTypeOK
    SnapshotSeesOverlay
    
    DisplayedTokenWorks
    FileIsCurrent
    StateTokenOnce
    RecordsAgree
    UnreadKeepsBadge
    SecretsReadable
    BoundAsChosen
PROPERTIES
    HumanValueKept
    OneRowPerDevice
    FoldKeepsValues
    AlertsNeedNews
    TrustKept
