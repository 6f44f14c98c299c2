\* One start and one unanswered health probe.
SPECIFICATION FairSpec
CONSTANTS
    None = None
    Scheduler = Scheduler
    Experiments = {1, 2}
    Runners = {r1}
    Clients = {c1}
    OperatorStatuses = {}
    MaxRequests = 1
    MaxFaults = 1
PROPERTY FinishedRunnerReleased
CHECK_DEADLOCK FALSE
