CONSTANTS
    c1 = c1
    c2 = c2
    c3 = c3
    c4 = c4
    c5 = c5
    p1 = p1
    p2 = p2
    NoCall = NoCall
    Call = {c1, c2, c3, c4, c5}
    Replica = {p1, p2}
    Home <- Homes
    Outer <- Commits
    Expensive = {c2, c4, c5}
    GlobalLimit = 2
    ExpensiveLimit = 1
    PrincipalLimit = 2
    StandardDeadline = 1
    ExpensiveDeadline = 3
    Grace = 3
    QueueTime = 1
    MaxSkew = 1
    Slack = 0
    MaxTime = 5
    LastArrival = 0
SPECIFICATION FairSpec
INVARIANTS FleetLimitHolds
PROPERTIES EveryCallEnds
CHECK_DEADLOCK FALSE
