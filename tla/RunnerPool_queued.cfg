\* A poll of a queued experiment, one request at a time.
SPECIFICATION Spec
CONSTANTS
    None = None
    Scheduler = Scheduler
    Experiments = {1, 2}
    Runners = {r1}
    Clients = {c1}
    OperatorStatuses = {}
    MaxRequests = 5
    MaxFaults = 0
PROPERTY QueuedNotFailed
CHECK_DEADLOCK FALSE
