\* Two handlers re-link a deposit and a withdrawal between two accounts, among manual entries.
SPECIFICATION Spec
CONSTANTS
    Users = {u1}
    Accounts = {a1, a2}
    Deposits = {d1}
    Withdrawals = {w1}
    Keys = {}
    References = {x1}
    Amounts = {1}
    Procs = {p1, p2}
    Served = {"manual", "create", "approve", "relink", "entry"}
    MaxEntries = 2
    None = None
    Absent = Absent
    Clean = Clean
SYMMETRY Symmetric
INVARIANTS LinkMatchesLedger AccountIsItsLedger
