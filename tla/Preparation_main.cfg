\* One experiment prepared by the consumer, one by its route; two requests to start, stop or drop them, one fault.
SPECIFICATION FairSpec
CONSTANTS
    None = None
    Exps = {e1, e2}
    Direct = {e2}
    MaxRequests = 2
    MaxFaults = 1
INVARIANTS
    TypeOK
    Ready
    OneRun
    DroppedStopped
PROPERTIES
    Settles
CHECK_DEADLOCK FALSE
