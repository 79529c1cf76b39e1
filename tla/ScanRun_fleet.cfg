SPECIFICATION Spec
CONSTANTS
    s1 = s1
    s2 = s2
    f1 = f1
    c1 = c1
    c2 = c2
    NoFleet = NoFleet
    NoSession = NoSession
    Sessions <- TwoSessions
    Fleets <- OneFleet
    Callers <- TwoCallers
    NumRobots = 1
    NumChecks = 1
    WorkerLimit = 1
    HealthFailureThreshold = 1
    Serialized = TRUE
    MaxFaults = 0
    MaxCrashes = 1
INVARIANT CancelReplyIsTrue
PROPERTY TerminalIsFinal
PROPERTY SessionSpec
