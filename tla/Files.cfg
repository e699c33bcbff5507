SPECIFICATION FilesSpec
CONSTANTS
    r1 = r1
    r2 = r2
    r3 = r3
    a1 = a1
    a2 = a2
    d1 = d1
    Requests = {r1, r2}
    Attempts = {a1}
    Owned <- AllOwned
    Unsuited = {r2}
    NoRequest = NoRequest
    NoAttempt = NoAttempt
    LostAck = TRUE
    HostLoss = TRUE
    Readers = {d1}
INVARIANTS
    BreachesAreReported
    AlarmsAreReal
    DownloadsAreOnRecord
CHECK_DEADLOCK FALSE
