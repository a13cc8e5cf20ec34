SPECIFICATION Spec
CONSTANTS
    Calls = {c1, c2, c3, c4, c5}
    Signers = {k1, k2, k3}
    None = None
    Ttl = 1
    Max = 2
    MaxTime = 2
SYMMETRY Symmetry
INVARIANTS
    OneFlightPerSigner
    CacheIsLastProved
PROPERTIES
    AcceptedIsAttested
    OncePerTtl
CHECK_DEADLOCK FALSE
