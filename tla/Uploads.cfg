SPECIFICATION Spec
CONSTANTS
    u1 = u1
    u2 = u2
    u3 = u3
    s1 = s1
    s2 = s2
    c1 = c1
    c2 = c2
    Upload <- MCUpload
    Storer <- MCStorer
    Caller <- MCCaller
    Batch <- MCBatch
    Backends = {"s3", "disk", "local"}
    TTL = 2
    Staging = 1
    HashGrace = 1
    OrphanAge = 1
    Quota = 2
    MayStall = FALSE
    MaxTime = 3
    None = None
SYMMETRY Symmetry
INVARIANTS
    StoredCanBeRead
    QuotaHolds
    DeletedStaysDeleted
    BytesAreAccountedFor
CHECK_DEADLOCK FALSE
