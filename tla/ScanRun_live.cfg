SPECIFICATION FairSpec
CONSTANTS
    s1 = s1
    s2 = s2
    f1 = f1
    c1 = c1
    c2 = c2
    NoFleet = NoFleet
    NoSession = NoSession
    Sessions <- OneSession
    Fleets <- OneFleet
    Callers <- OneCaller
    NumRobots = 1
    NumChecks = 3
    WorkerLimit = 2
    HealthFailureThreshold = 1
    Serialized = TRUE
    MaxFaults = 1
    MaxCrashes = 0
INVARIANT HealthWindowBound
PROPERTY RunsEnd
