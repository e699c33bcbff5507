SPECIFICATION Spec
CONSTANTS
    s1 = s1
    s2 = s2
    t1 = t1
    t2 = t2
    Sessions = {s1, s2}
    Nobody = Nobody
    Templates = {t1, t2}
    NoTemplate = NoTemplate
    MaxCaseRevision = 2
    MaxDraftRevision = 2
    MaxTokens = 2
SYMMETRY Symmetric
INVARIANTS
    EventsTellTheChange
    AttemptsAgree
PROPERTIES
    ReservesWhatWasShown
    
    ImplementsSharedRecord
