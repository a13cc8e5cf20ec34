SPECIFICATION RecencySpec
CONSTANTS
    Calls = {c1, c2, c3, c4}
    Signers = {k1, k2, k3}
    None = None
    Ttl = 1
    Max = 2
    MaxTime = 0
PROPERTY EvictsLeastRecentlyUsed
CHECK_DEADLOCK FALSE
