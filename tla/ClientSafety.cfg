SPECIFICATION Spec
CONSTANTS
    Requests = {q1, q2}
    Readies = {y1}
    Nodes = {n1, n2}
    None = None
    Ttl = 1
    MaxTime = 1
SYMMETRY Symmetry
INVARIANTS
    SingleFlight
    BlamedPinGone
    ExecutedTruthful
    AnsweredByPinnedNode
PROPERTIES
    OnlyBlameDropsPin
    UseNeverExtends
    FlightEndsByItself
    KeepsPromise
