SPECIFICATION Spec
CONSTANTS
    s1 = s1
    s2 = s2
    s3 = s3
    c1 = c1
    c2 = c2
    e1 = e1
    e2 = e2
    a1 = a1
    o1 = o1
    o2 = o2
    Sessions = {s1}
    Nobody = Nobody
    Courts = {c1}
    Entities = {e1}
    Addresses = {}
    Officials = {o1}
INVARIANTS
    OfficialsAreIndividuals
