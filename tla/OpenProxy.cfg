SPECIFICATION Spec
CONSTANTS
    Requests = {r1, r2}
    Connections = {k1, k2}
    Signers = {s1}
    Texts = {t1, t2}
    Bodies <- SmallBodies
    t1 = t1
    None = None
    Bad = Bad
    Ttl = 1
    Max = 1
    MaxTime = 1
INVARIANTS
    RelayedIsVerified
    UnansweredIsGone
PROPERTIES
    NoGhostRequest
    EveryForwardedEnds
CHECK_DEADLOCK FALSE
