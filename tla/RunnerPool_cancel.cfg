\* A stop while a start is under way.
SPECIFICATION Spec
CONSTANTS
    None = None
    Scheduler = Scheduler
    Experiments = {1, 2}
    Runners = {r1}
    Clients = {c1, c2}
    OperatorStatuses = {}
    MaxRequests = 3
    MaxFaults = 0
PROPERTY CancelledNotDispatched
SYMMETRY Symmetry
CHECK_DEADLOCK FALSE
