CONSTANTS
    ScoreWorkers = {w1}
    Callers = {c1, c2}
    MaxRevisions = 3
    MaxTries = 2
    CacheReaders = {r1}
    CacheWriters = {u1, u2}
    DefaultTtl = 120
    MaxChanges = 2
    BedEditors = {e1, e2}
    MaxBeds = 2
    Unset = Unset

SPECIFICATION Spec

INVARIANTS
    RecordsTypeOK
    ScoreExcused
    ApprovedAsReviewed
    StaleExcused
    OverbookedExcused

PROPERTIES
    ScoreSettles
    FreshInTheEnd

CHECK_DEADLOCK FALSE
