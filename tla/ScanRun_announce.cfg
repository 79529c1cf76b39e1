SPECIFICATION Spec
CONSTANTS
    s1 = s1
    s2 = s2
    f1 = f1
    c1 = c1
    c2 = c2
    NoFleet = NoFleet
    NoSession = NoSession
    Sessions <- OneSession
    Fleets <- OneFleet
    Callers <- OneCaller
    NumRobots = 1
    NumChecks = 1
    WorkerLimit = 1
    HealthFailureThreshold = 1
    Serialized = TRUE
    MaxFaults = 0
    MaxCrashes = 0
INVARIANT EveryEndIsAnnounced
