\* Two individuals, two requests at a time, one SSE client, one fault.
SPECIFICATION Spec
CONSTANTS
    None = None
    Other = Other
    Streams = {s1}
    QueueSize = 2
    Statuses <- MCStatuses
    Named <- MCNamed
    Individuals = {i1, i2}
    Evaluations <- MCEvaluations
    HigherIsBetter = TRUE
    Chains = {k1}
    DefaultChain = k1
    Calls = {c1, c2}
    MaxRequests = 5
    MaxFaults = 1
    WatchFrom = 4
INVARIANTS
    TypeOK
    InOrder
    TornDown
    AcceptanceRecorded
    PromotedOnce
    BestIsBest
    CaughtUp
PROPERTIES
    DecisionsStand
SYMMETRY Symmetry
CHECK_DEADLOCK FALSE
