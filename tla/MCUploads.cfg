\* Chunked uploads, the pipeline and its restart, bundles, an administrator, one crash.
SPECIFICATION Spec
CONSTANTS
    m1 = m1
    Movies = {m1}
    Tiers = {1, 2}
    Files <- TwoFiles
    Bundle <- JustMaster
    Chunks = {1}
    AdminStatuses = {"ARCHIVED", "UPLOADING"}
    Procs = {p1, p2}
    None = None
    MaxVideos = 2
    MaxSessions = 2
    MaxRequests = 2
    Start <- Beginnings
INVARIANTS ClaimsAreKept UploadingIsWorkedOn ReadyIsBacked
PROPERTIES ImplementsLifecycle SweepSparesResumable RunsEnd
\* No request is let in after the bound.
CHECK_DEADLOCK FALSE
