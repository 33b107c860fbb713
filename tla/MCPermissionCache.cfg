\* Two lookups race two edits of one role, and edits of another.
SPECIFICATION Spec
CONSTANTS
    Roles = {r1, r2}
    Requests = {q1, q2}
    Editors = {e1, e2}
    None = None
    MaxEdits = 2
SYMMETRY Symmetric
INVARIANTS CachedIsCurrent AssignedRoleIsCurrent
