CONSTANTS
    i1 = i1
    r1 = r1
    r2 = r2
    a1 = a1
    a2 = a2
    s1 = s1
    w1 = w1
    x1 = x1
    x2 = x2
    None = None
    Incidents = {i1}
    Resources = {r1, r2}
    AssignmentIds = {a1, a2}
    Requests = {s1}
    Workers = {w1}
    Sessions = {s1, w1}
    Editors = {x1}
    MaxEdits = 1
    MaxJobAttempts = 2
    MaxTransactions = 2
    CreatorRoles = {"ADMIN"}
    StatusTargets = {}
    StaffStatuses = {"FAILED"}

SYMMETRY Symmetry

CHECK_DEADLOCK FALSE

SPECIFICATION FRSpec

INVARIANTS
    FRTypeOK
    AttemptsHaveCause
