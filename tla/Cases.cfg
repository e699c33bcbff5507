SPECIFICATION Spec
CONSTANTS
    s1 = s1
    s2 = s2
    s3 = s3
    Sessions = {s1, s2, s3}
    Nobody = Nobody
SYMMETRY Symmetric
INVARIANTS
    AuditTellsTheCase
    RepliesAreTrue
PROPERTIES
    ArchivedIsFrozen
    ImplementsSharedRecord
