CONSTANTS
    Request = {r1, r2, r3}
    Digest = {d1}
    NoClaim = NoClaim
    NoDigest = NoDigest
    NoAnswer = NoAnswer
    OpKind = "task"
    Lease = 1
    PendingTTL = 2
    Retention = 1
    CasAttempts = 2
    MaxCalls = 2
    MaxTime = 3
    MaxSkew = 0
    Reconcilable = TRUE
    Resendable = FALSE
SYMMETRY RequestSymmetry
SPECIFICATION Spec
INVARIANTS ActsAtMostOnce FailedMeansNothingHappened
CONSTRAINT Undropped
CHECK_DEADLOCK FALSE
