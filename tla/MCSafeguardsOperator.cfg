CONSTANTS
    Calls = {c1, c2, c3}
    FailureThreshold = 2
    MaxCount = 4
    Arrivals = {q1, q2, q3}
    Limit = 2
    MaxLosses = 2
    MaxAttempts = 3
    InitialDelay = 20
    MaxDelay = 35
    Signals = {s1, s2}
    MaxRequests = 2
    People = {ana, ben}
    FirstAdmin = ana
    Emails = {e1, e2}
    Requests = {r1, r2}
    MaxChanges = 3
    Nobody = Nobody

SPECIFICATION Spec

INVARIANTS
    OnlyOperatorsOperate

CHECK_DEADLOCK FALSE
