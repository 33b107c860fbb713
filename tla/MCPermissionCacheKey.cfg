\* A lookup by key joins a query that is older than an edit already answered.
SPECIFICATION Spec
CONSTANTS
    Roles = {r1}
    Requests = {q1, q2}
    Editors = {e1, e2}
    None = None
    MaxEdits = 1
SYMMETRY Symmetric
INVARIANTS EditIsLiveNextRequest
