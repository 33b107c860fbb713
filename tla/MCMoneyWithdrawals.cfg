\* Three handlers: a deposit funds a wallet that two withdrawals and a correction draw on.
SPECIFICATION Spec
CONSTANTS
    Users = {u1, u2}
    Accounts = {a1}
    Deposits = {d1}
    Withdrawals = {w1, w2}
    Keys = {k1}
    References = {x1}
    Amounts = {1}
    Procs = {p1, p2, p3}
    Served = {"manual", "create", "approve", "reject", "adjust"}
    MaxEntries = 2
    None = None
    Absent = Absent
    Clean = Clean
SYMMETRY Symmetric
INVARIANTS PaidExactlyOnce NeverOverdrawn WalletIsItsHistory SnapshotsMatchHistory
PROPERTIES ImplementsAtomic
CHECK_DEADLOCK FALSE
