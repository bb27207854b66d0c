CONSTANTS
    Request = {r1, r2, r3, r4}
    RateLimit = 2
    Window = 4
    MaxSkew = 1
    MaxTime = 7
SYMMETRY RequestSymmetry
SPECIFICATION RateSpec
INVARIANTS RateHolds
PROPERTIES RefusedOnlyWhenFull
CHECK_DEADLOCK FALSE
