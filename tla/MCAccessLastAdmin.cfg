\* Two Super Admins act on each other at the same time.
SPECIFICATION Spec
CONSTANTS
    s = s
    t = t
    u = u
    c = c
    Users = {s, t, u}
    Custom = {}
    RolesEdit = "ROLES.EDIT"
    StaffEdit = "STAFF.EDIT"
    Permissions = {"ROLES.EDIT", "STAFF.EDIT", "p"}
    Matrices = {}
    None = None
    p1 = p1
    p2 = p2
    Procs = {p1, p2}
    Start <- TwoAdminsAtOnce
    MaxRequests = 2
INVARIANTS SuperAdminRemains
\* No request is let in after the bound.
CHECK_DEADLOCK FALSE
