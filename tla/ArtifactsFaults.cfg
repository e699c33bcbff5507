SPECIFICATION FairSpec
CONSTANTS
    r1 = r1
    r2 = r2
    r3 = r3
    a1 = a1
    a2 = a2
    Requests = {r1, r2}
    Attempts = {a1, a2}
    Owned <- SplitOwned
    Unsuited = {}
    NoRequest = NoRequest
    NoAttempt = NoAttempt
    LostAck = TRUE
    HostLoss = TRUE
INVARIANTS
    ResponseIsCommitted
    OrphanIsExplained
    AuditMatchesRow
PROPERTIES
    WorkSettlesAttempt
