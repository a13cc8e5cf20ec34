SPECIFICATION Spec
CONSTANTS
    Requests = {q1, q2}
    StartUp = y1
    Nodes = {n1}
    None = None
    Ttl = 1
    MaxTime = 1
INVARIANTS
    EveryClientIsTold
    ErrorTellsExecution
PROPERTIES
    NothingSentForTheGone
    EveryRequestEnds
CHECK_DEADLOCK FALSE
