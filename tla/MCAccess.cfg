\* Three requests one by one: the guards keep the tiers, the ceiling and a role manager;
\* two requests at a time: the tables, and who may become a Super Admin.
SPECIFICATION Spec
CONSTANTS
    s = s
    t = t
    u = u
    c = c
    Users = {s, t, u}
    Custom = {c}
    RolesEdit = "ROLES.EDIT"
    StaffEdit = "STAFF.EDIT"
    Permissions = {"ROLES.EDIT", "STAFF.EDIT", "p"}
    Matrices <- Sets
    None = None
    p1 = p1
    p2 = p2
    Procs = {p1, p2}
    Start <- Both
    MaxRequests = 3
INVARIANTS TypeOK RoleManagerRemains
PROPERTIES GrantCeiling TierConferred AuthorityIsKept
\* No request is let in after the bound.
CHECK_DEADLOCK FALSE
