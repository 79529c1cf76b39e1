SPECIFICATION MCSpec
CONSTANTS
    NoFleet = NoFleet
    NoSession = NoSession
    Sessions = {s1, s2}
    Fleets = {f1}
    Callers = {c1}
    NumRobots = 1
    NumChecks = 1
    WorkerLimit = 1
    HealthFailureThreshold = 1
    Serialized = FALSE
    MaxFaults = 1
    MaxCrashes = 0
    Seeds = {"p", "q"}
    DemoTenants = {"acme", "globex"}
    WantedSessions = 2
    MaxSeedings = 3
    MaxMeddling = 1
    CronFleets = {f1}
    Servers = {i1, i2}
    Admins = {a1, a2}
    MaxFleetChanges = 2
    MaxRestarts = 1
    MaxRecords = 2
    RobotIds = {r1}
    HostKeys = {k1, k2}
    RobotCalls = {q1, q2}
    MaxCredentials = 3
    DriftWindow = 4
    MinAnomalySamples = 4
    PeerFleet = {q1, q2, q3, q4}
    MaxDuration = 5
    MaxSamples = 5
    Varying = r1
    Steady = {r2, r3}
    Readings = {"fail", "slow"}
    MaxSessions = 5
    MaxOverlap = 2
    MaxManualRuns = 1
    MaxDismissals = 1
    Askers = {q1, q2}
    Providers = {"ollama"}
    DefaultMaxToolCalls = 1
    MostToolCalls = 2
    TokenLimit = 2
    CallTokens = 1
    MaxConversations = 1
    MaxTurns = 4
    AuditTenants = {t1, t2}
    Windows = {1, 2}
    Appended = {"user_role.synced", "audit.replication.failover", "robot.created"}
    MaxDays = 2
    MaxEvents = 2
    Customers = {t1}
    GateCalls = {c1, c2}
    RobotsMaxes = {0, 1}
    ScansPerDays = {1}
    ExpiryDays = {1, 2}
    MaxQuotaDays = 2
    MaxCreated = 3
INVARIANTS
    OneLiveSessionPerFleet
    AdvisorIsSound
    QuotasAreSound
    RobotsAreKept
    SessionsStartAsAsked
PROPERTIES
    FindingsAreSound
CHECK_DEADLOCK FALSE
