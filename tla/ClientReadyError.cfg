SPECIFICATION Spec
CONSTANTS
    Requests = {q1}
    Readies = {y1}
    Nodes = {n1}
    None = None
    Ttl = 1
    MaxTime = 1
INVARIANT ReadySaysUnknown
