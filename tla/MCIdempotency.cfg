CONSTANTS
    None = None
    k1 = k1
    p1 = p1
    b1 = b1
    b2 = b2
    s1 = s1
    s2 = s2
    s3 = s3
    p2 = p2
    Keys = {k1}
    Places = {p1}
    Bodies = {b1, b2}
    Sessions = {s1, s2, s3}
    MaxRuns = 3

SPECIFICATION Spec

SYMMETRY Symmetry

INVARIANTS
    TypeOK
    AnswersMatch
    RepeatsExcused
