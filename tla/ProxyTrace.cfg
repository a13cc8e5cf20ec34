SPECIFICATION Spec
CONSTANTS
    Requests = {r1, r2}
    Connections = {k1, k2}
    Signers = {s1}
    Texts = {t1}
    Bodies <- SmallBodies
    t1 = t1
    None = None
    Bad = Bad
    Ttl = 1
    Max = 1
    MaxTime = 0
INVARIANT TraceIsOwn
CHECK_DEADLOCK FALSE
