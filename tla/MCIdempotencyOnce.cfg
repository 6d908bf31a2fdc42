CONSTANTS
    None = None
    k1 = k1
    p1 = p1
    b1 = b1
    s1 = s1
    s2 = s2
    p2 = p2
    b2 = b2
    s3 = s3
    Keys = {k1}
    Places = {p1}
    Bodies = {b1}
    Sessions = {s1, s2}
    MaxRuns = 2

SPECIFICATION Spec

INVARIANTS
    OncePerKey
