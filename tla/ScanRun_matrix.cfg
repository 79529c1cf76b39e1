SPECIFICATION Spec
CONSTANTS
    s1 = s1
    s2 = s2
    f1 = f1
    c1 = c1
    c2 = c2
    NoFleet = NoFleet
    NoSession = NoSession
    Sessions <- OneSession
    Fleets <- OneFleet
    Callers <- OneCaller
    NumRobots = 2
    NumChecks = 2
    WorkerLimit = 2
    HealthFailureThreshold = 1
    Serialized = TRUE
    MaxFaults = 1
    MaxCrashes = 1
INVARIANT AggregateIsFinal
INVARIANT CompletedCoversMatrix
INVARIANT EndIsAnnouncedLast
