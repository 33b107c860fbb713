\* A run that is tried again after it broke off.
SPECIFICATION Spec
CONSTANTS
    m1 = m1
    Movies = {m1}
    Tiers = {1, 2}
    Files <- OneFile
    Bundle <- JustMaster
    Chunks = {1}
    AdminStatuses = {"ARCHIVED"}
    Procs = {p1}
    None = None
    MaxVideos = 1
    MaxSessions = 1
    MaxRequests = 2
    Start <- Retries
INVARIANTS OfferedIsComplete
\* No request is let in after the bound.
CHECK_DEADLOCK FALSE
