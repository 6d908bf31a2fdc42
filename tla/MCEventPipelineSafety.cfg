CONSTANTS
    t1 = t1
    t2 = t2
    w1 = w1
    w2 = w2
    Nobody = Nobody
    MaxEvents = 2
    Ticks = {t1, t2}
    Workers = {w1}
    BatchSize = 2
    MaxPublishAttempts = 1
    MaxJobAttempts = 1
    MaxCrashes = 1

SPECIFICATION Spec

SYMMETRY Symmetry

INVARIANTS
    TypeOK
    NothingLostInSilence

CHECK_DEADLOCK FALSE
