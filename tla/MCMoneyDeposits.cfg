\* Two handlers submit, record, reject and re-link two deposits; every request ends.
SPECIFICATION FairSpec
CONSTANTS
    Users = {u1}
    Accounts = {a1, a2}
    Deposits = {d1, d2}
    Withdrawals = {}
    Keys = {}
    References = {x1, x2}
    Amounts = {1}
    Procs = {p1, p2}
    Served = {"create", "manual", "reject", "relink"}
    MaxEntries = 2
    None = None
    Absent = Absent
    Clean = Clean
INVARIANTS ReferenceLivesOnce OnlyRelinksDeadlock
PROPERTIES ImplementsAtomic EveryRequestEnds
\* Pending deposits whose references are all taken may be all that is left.
CHECK_DEADLOCK FALSE
