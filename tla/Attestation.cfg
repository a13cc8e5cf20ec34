SPECIFICATION Spec
CONSTANTS
    Attempts = {a1, a2}
    Keys = {k1, k2}
    Composes = {c1, c2}
    None = None
    Bad = Bad
    MaxQuotes = 1
INVARIANT
    ProvedIsGenuine
PROPERTY
    NothingIsLeftRunning
CHECK_DEADLOCK FALSE
