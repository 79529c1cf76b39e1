SPECIFICATION MCSpec
CONSTANTS
    Subs = {a}
    BlockSubs = {}
    Publishers = {p1, p2}
    Capacity = 1
    MaxPublish = 2
    Rotators = {i1, i2}
    Placeholder = boot
    MaxKeyEpoch = 3
    MaxTrail = 4
    MaxBoots = 2
    MaxSeq = 7
    MaxAborts = 2
    People = {u1}
    Clients = {c1, c2}
    MaxTokens = 3
    MaxTokenFaults = 1
    Emails = {m1, m2}
    InviteRoles = {"admin", "operator"}
    InviteRequests = {q1, q2}
    MaxInvitations = 2
    Subjects = {s1}
    Groups = {g1}
    SsoRoles = {"operator", "auditor"}
    DefaultRole = "operator"
    SsoScopes = {"tenant", "fleet"}
    Attempts = {a1, a2}
    Callbacks = {k1, k2}
    MaxMappings = 2
    FleetIds = {"f1", "f2"}
    BindRoles = {"admin", "fleet-admin", "operator"}
    MaxBindings = 2
    Pods = {n1, n2}
    NoPod = NoPod
    MaxTimeline = 3
    Intakes = {i1}
    Reviews = {v1, v2}
    Seeds = {s1, s2}
    PlanRequests = {"community", "pro", "gold"}
    MaxCustomers = 3
    KeyTenants = {"t1", "t2"}
    KeyPrefixes = {"p1", "p2"}
    Bodies = {"b1", "b2"}
    OidcLogins = {a1, a2}
    Persons = {s1, s2}
    Nobody = nobody
    MaxJwks = 2
    Regions = {"east", "west", "south"}
    MaxFailovers = 2
    MaxOtherEntries = 1
    MaxBeatClock = 2
    MaxBeats = 2
    Senders = {"west"}
INVARIANTS
    OrderPreserved
    KeyHistoryIsSound
    SegmentsAreSound
PROPERTIES
    RightsAreSound
    TimelinesAreSound
    FailoverIsSound
    NobodyElseIsLetIn
CHECK_DEADLOCK FALSE
