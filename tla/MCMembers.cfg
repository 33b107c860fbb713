\* One platform at fifteen kinds of work: two requests at a time.
SPECIFICATION Spec
CONSTANTS
    Procs = {p1, p2}
    None = None
    Phones <- Numbers0
    Identities <- Googles
    Clients <- Devices
    CodeTTL = 2
    Cooldown = 1
    Hour = 2
    MaxCodes = 2
    MaxAttempts = 2
    TokenTTL = 2
    MaxTries = 2
    MaxFeedback = 2
    Throttle = 2
    Window = 1
    MaxDelta = 2
    Hours = 2
    Days = 2
    MaxNodes = 5
    MaxDepth = 4
    ActivityLimit = 2
    MaxClock = 3
    MaxRows = 6
    MaxRequests = 3
    Start <- Beginnings
SYMMETRY Alike
INVARIANTS AccountsAreSafe TracesAreTrue ReportsAreRight
PROPERTIES RulesHoldAlone
\* No request is let in after the bound.
CHECK_DEADLOCK FALSE
