\* A debit is sent twice with one idempotency key and the wallet covers it once.
SPECIFICATION FairSpec
CONSTANTS
    Users = {u1}
    Accounts = {a1}
    Deposits = {d1}
    Withdrawals = {}
    Keys = {k1}
    References = {x1}
    Amounts = {1}
    Procs = {p1, p2}
    Served = {"manual", "adjust"}
    MaxEntries = 0
    None = None
    Absent = Absent
    Clean = Clean
PROPERTIES RetryIsReplayed
CHECK_DEADLOCK FALSE
