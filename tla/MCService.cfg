SPECIFICATION MCSpec
CONSTANTS
    Hooks = {h1}
    Dispatchers = {d1, d2}
    HookEvents = {e1}
    MaxRetryAttempts = 3
    MaxHookChanges = 2
    MaxHookFaults = 2
    Watchers = {c1}
    TotalResults = 2
    ScanWorkers = 2
    BusBuffer = 2
    MessageBuffer = 1
    ForeignEvents = 2
    Workers = {w1, w2}
    Hosts = {h1}
    PerHostLimit = 1
    PerTenantLimit = 2
    DialMaxRetries = 0
    MaxCommands = 3
    MaxRotations = 1
    MaxPeerFaults = 1
    ClosingPool = TRUE
    MaxWork = 1
    SchemaTables = {"sessions", "audit"}
PROPERTIES
    DeliveriesSettle
    DeliveriesAreSound
    StartsAndStopsAreClean
    ConnectionsAreSound
CHECK_DEADLOCK FALSE
