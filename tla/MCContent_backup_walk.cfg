SPECIFICATION EvidenceSpec
CONSTANTS
    Sessions = {s1}
    ReportChecks = {k1, k2}
    Signers = {x1, x2}
    ListLimit = 1
    MaxSnapshots = 2
    MaxReports = 2
    MaxKeys = 2
    MaxChain = 2
    ScanSessions = {s1}
    Controls = {c1, c2}
    MappableChecks = {k1}
    ScannedRobots = {r1}
    Snappers = {y1, y2}
    MaxSnaps = 2
    Offered = {1, 2}
    Unlisted = {9}
    CandidateLimit = 1
    TopN = 2
    Askers = {q1, q2}
    Deciders = {d1, d2}
    MaxAsks = 3
    Releases <- TwoReleases
    PackActors = {p1, p2}
    MaxPackTime = 3
    MaxMoves = 2
    MaxPackBoots = 2
    CheckIds = {"k1", "k2"}
    ManualIds = {"k1", "k2"}
    MaxKeyPairs = 2
    EvTenants = {t1}
    Blobs = {b1, b2}
    EvCallers = {v1}
    MaxEvFaults = 1
    MaxBackups = 1
    MaxRestores = 0
    TextLength = 5
    MarkLength = 2
    maxMatchesPerRule = 2
    MaxMarks = 3
    SchedulerOwners = {o1, o2}
    WitnessTenants = 2
    CheckpointHashes = {k1}
    MaxWitnesses = 2
    AnchorRetries = 1
    MaxStarts = 2
    MaxFolds = 2
    MaxRacedFolds = 0
INVARIANT BackupHasItsEvidence
CHECK_DEADLOCK FALSE
