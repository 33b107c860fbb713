\* Multipart uploads of one title, the nightly sweep, aborts, one crash.
SPECIFICATION MultipartSpec
CONSTANTS
    Movies = {m}
    Assets = {"original", "master"}
    Large = "original"
    Parts = {1, 2}
    Procs = {p1, p2}
    None = None
    MaxUploads = 2
    MaxRequests = 3
    MaxCrashes = 1
INVARIANTS SessionsAreTrue
PROPERTIES SweepSparesYoung LeftoversReclaimed
\* No request is let in after the bound.
CHECK_DEADLOCK FALSE
