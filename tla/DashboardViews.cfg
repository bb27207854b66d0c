SPECIFICATION Spec
CONSTANTS
    r1 = r1
    r2 = r2
    r3 = r3
    Request <- MCRequest
    TTL = 2
    MaxAttempts = 2
    MaxTime = 3
INVARIANTS
    UseKeepsAlive
PROPERTIES
    BuildsOnLatest
    StaysGone
CHECK_DEADLOCK FALSE
