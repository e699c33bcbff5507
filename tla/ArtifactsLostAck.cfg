SPECIFICATION Spec
CONSTANTS
    r1 = r1
    r2 = r2
    r3 = r3
    a1 = a1
    a2 = a2
    Requests = {r1}
    Attempts = {a1}
    Owned <- AllOwned
    Unsuited = {}
    NoRequest = NoRequest
    NoAttempt = NoAttempt
    LostAck = TRUE
    HostLoss = FALSE
INVARIANT GeneratedHasArtifact
