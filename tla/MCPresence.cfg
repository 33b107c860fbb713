\* Sockets of two users and of the staff come and go while peaks are recorded.
SPECIFICATION PresenceSpec
CONSTANTS
    a1 = a1
    a2 = a2
    b1 = b1
    w1 = w1
    ann = ann
    bob = bob
    wim = wim
    Sockets = {a1, a2, b1, w1}
    Users = {ann, bob, wim}
    Owner <- MCOwner
    Audience = {ann, bob}
    Null = Null
INVARIANTS OnlineIsSound PeakWasReached
\* Every socket may be closed for good.
CHECK_DEADLOCK FALSE
