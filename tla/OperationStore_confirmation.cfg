CONSTANTS
    Request = {r1, r2, r3}
    Digest = {d1, d2}
    NoClaim = NoClaim
    NoDigest = NoDigest
    NoAnswer = NoAnswer
    OpKind = "confirmation"
    Lease = 2
    PendingTTL = 2
    Retention = 3
    CasAttempts = 2
    MaxCalls = 1
    MaxTime = 2
    MaxSkew = 0
    Reconcilable = FALSE
    Resendable = TRUE
SYMMETRY RequestAndDigestSymmetry
SPECIFICATION Spec
INVARIANTS TypeOK ActsAtMostOnce ClaimableMeansUntouched DeclinedNeverActs
PROPERTIES AnswerNeverChanges TerminalStaysTerminal KeepsPromise
CHECK_DEADLOCK FALSE
