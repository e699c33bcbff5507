SPECIFICATION Spec
CONSTANTS
    s1 = s1
    s2 = s2
    s3 = s3
    c1 = c1
    c2 = c2
    e1 = e1
    e2 = e2
    a1 = a1
    o1 = o1
    o2 = o2
    Sessions = {s1, s2}
    Nobody = Nobody
    Courts = {c1, c2}
    Entities = {e1, e2}
    Addresses = {a1}
    Officials = {o1}
SYMMETRY Symmetric
PROPERTIES
    OnlyOvertakenSeparates
    OnlyOvertakenRevives
    OnlyOvertakenIsSilent
    DeactivationsAreWhole
