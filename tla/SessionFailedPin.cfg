SPECIFICATION Spec
CONSTANTS
    Sends = {s1}
    Asks = {a1}
    Chains = {k1, k2}
    BadIds = {b1}
    None = None
INVARIANT RefusesOnlyWhenBound
CHECK_DEADLOCK FALSE
