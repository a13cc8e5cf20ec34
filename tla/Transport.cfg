SPECIFICATION Spec
CONSTANTS
    Sends = {e1, e2}
    Signals = {g1}
    Cap = 1
    MaxSize = 2
    None = None
INVARIANTS
    AbortReachesEveryone
    OneListenerWhileWaiting
    CapHolds
PROPERTIES
    ReasonWins
    RequestsAreTornDown
CHECK_DEADLOCK FALSE
