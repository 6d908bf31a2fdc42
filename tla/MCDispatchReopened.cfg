CONSTANTS
    i1 = i1
    i2 = i2
    r1 = r1
    r2 = r2
    a1 = a1
    a2 = a2
    a3 = a3
    s1 = s1
    s2 = s2
    None = None
    Incidents = {i1}
    Resources = {r1, r2}
    AssignmentIds = {a1, a2}
    Sessions = {s1}
    CreatorRoles = {"ADMIN"}
    StatusTargets = {}
    StaffStatuses = {}

SYMMETRY Symmetry

SPECIFICATION Spec

PROPERTIES
    ClosedIsFinal
