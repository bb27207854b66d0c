CONSTANTS
    Request = {r1, r2}
    Digest = {d1}
    NoClaim = NoClaim
    NoDigest = NoDigest
    NoAnswer = NoAnswer
    OpKind = "commit"
    Lease = 1
    PendingTTL = 1
    Retention = 2
    CasAttempts = 2
    MaxCalls = 1
    MaxTime = 2
    MaxSkew = 1
    Reconcilable = TRUE
    Resendable = TRUE
SPECIFICATION FairSpec
INVARIANTS SavedRepliesAreReal
PROPERTIES NoLateFirstClaim EveryRequestEnds LapsedClaimIsResolved
CHECK_DEADLOCK FALSE
