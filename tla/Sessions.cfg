SPECIFICATION SSpec
CONSTANTS
    l1 = l1
    l2 = l2
    q1 = q1
    q2 = q2
    Logins = {l1, l2}
    Requests = {q1, q2}
    Nobody = Nobody
    Inactivity = 2
    Absolute = 3
    MaxTime = 3
    MaxChanges = 1
SYMMETRY Symmetric
INVARIANTS
    SurvivorsWereLoggingIn

    
    
    
CHECK_DEADLOCK FALSE
