\* One book at seven kinds of work: two requests or conversions at a time.
SPECIFICATION Spec
CONSTANTS
    Procs = {p1, p2}
    Hands = {1, 2}
    Languages = {"en", "my"}
    None = None
    MaxPages = 3
    MaxRows = 4
    MaxRequests = 3
    MaxCrashes = 1
    Start <- Beginnings
INVARIANTS ContentsAreWhole ConversionIsSafe
PROPERTIES ChangesKeepOrder ClaimsEnd
\* No request is let in after the bound.
CHECK_DEADLOCK FALSE
