SPECIFICATION Spec
CONSTANTS
    u1 = u1
    u2 = u2
    u3 = u3
    s1 = s1
    s2 = s2
    s3 = s3
    Uploads = {u1, u2}
    VersionOf <- Distinct
    Sessions = {s1, s2, s3}
    NoVersion = NoVersion
    Nobody = Nobody
SYMMETRY Symmetric
INVARIANTS
    RepliesAreTrue
PROPERTIES
    ChangesWereSeen
    ImplementsActiveTemplate
