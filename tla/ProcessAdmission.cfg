CONSTANTS
    c1 = c1
    c2 = c2
    c3 = c3
    u1 = u1
    u2 = u2
    Call = {c1, c2, c3}
    User = {u1, u2}
    UserOf <- TwoUsers
    Expensive = {c2, c3}
    Task = {c3}
    GlobalLimit = 2
    PrincipalLimit = 1
    ExpensiveLimit = 1
    RateLimit = 1
    Window = 2
    StateLimit = 1
    StateTTL = 2
    Grace = 1
    MaxTime = 2
SPECIFICATION FairSpec
INVARIANTS PrincipalLimitHolds LocalRateHolds
PROPERTIES DrainedMeansFinished EveryCallEnds
CHECK_DEADLOCK FALSE
