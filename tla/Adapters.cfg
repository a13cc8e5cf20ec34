SPECIFICATION AdaptersSpec
CONSTANTS
    Sends = {s1, s2, s3}
    Asks = {a1}
    Chains = {k1, k2}
    BadIds = {b1}
    None = None
SYMMETRY Symmetry
INVARIANTS
    MemoIsLive
    OneBootstrap
    DeclaredChainOnly
    OneClient
    FailedLoadIsForgotten
PROPERTIES
    VerifierStays
    KeepsBinding
    AbortedIsNotHanded
CHECK_DEADLOCK FALSE
