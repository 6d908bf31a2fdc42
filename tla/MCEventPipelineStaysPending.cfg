CONSTANTS
    t1 = t1
    t2 = t2
    w1 = w1
    w2 = w2
    Nobody = Nobody
    MaxEvents = 1
    Ticks = {t1}
    Workers = {w1}
    BatchSize = 1
    MaxPublishAttempts = 2
    MaxJobAttempts = 2
    MaxCrashes = 0

SPECIFICATION Spec

INVARIANTS
    StaysPending

CHECK_DEADLOCK FALSE
