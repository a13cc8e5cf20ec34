SPECIFICATION Spec
CONSTANTS
    A = A
    B = B
    ChainIds <- Configured
    NodeChains <- Served
    Graphic <- Letters
    Space = Space
    Wide = Wide
    MaxLen = 2
    Requests = {r1, r2}
    Bodies = {b1, b2}
    Keys = {k1, k2}
    NodeIds = {n1}
    U64Max = 2
    MaxDecimal = 3
    MaxNow = 2
    Window = 1
    MaxSigned = 2
    MaxEdits = 1
    Absent = Absent
    Malformed = Malformed
    OutOfRange = OutOfRange
SYMMETRY Symmetry
INVARIANTS
    VerifiedIsSigned
    StaleIsSigned
    UntouchedIsVerified
    RejectedIsTyped
CHECK_DEADLOCK FALSE
