CONSTANTS
    None = None
    k1 = k1
    p1 = p1
    p2 = p2
    b1 = b1
    s1 = s1
    b2 = b2
    s2 = s2
    s3 = s3
    Keys = {k1}
    Places = {p1, p2}
    Bodies = {b1}
    Sessions = {s1}
    MaxRuns = 1

SPECIFICATION Spec

INVARIANTS
    AnswersAreForTheTarget
