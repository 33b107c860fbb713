\* One catalogue at ten kinds of work: two requests at a time.
SPECIFICATION Spec
CONSTANTS
    Procs = {p1, p2}
    None = None
    Lower <- Lowers
    Queries <- Lists
    Pictures = {"a", "b"}
    TTL = 2
    MaxClock = 4
    MaxRows = 4
    MaxRequests = 3
    Start <- Beginnings
SYMMETRY Alike
INVARIANTS AnswersAreRight RowsAreSound
PROPERTIES StepsKeepRules
\* No request is let in after the bound.
CHECK_DEADLOCK FALSE
