\* A socket closes while its account is being read.
SPECIFICATION PresenceSpec
CONSTANTS
    a1 = a1
    a2 = a2
    b1 = b1
    w1 = w1
    ann = ann
    bob = bob
    wim = wim
    Sockets = {a1, a2, b1, w1}
    Users = {ann, bob, wim}
    Owner <- MCOwner
    Audience = {ann, bob}
    Null = Null
INVARIANTS OnlineIsOpen
\* Every socket may be closed for good.
CHECK_DEADLOCK FALSE
