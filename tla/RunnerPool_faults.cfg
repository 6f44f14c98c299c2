\* Two starts for one runner, with lost and late calls, missed probes and crashes.
SPECIFICATION FairSpec
CONSTANTS
    None = None
    Scheduler = Scheduler
    Experiments = {1, 2}
    Runners = {r1}
    Clients = {c1}
    OperatorStatuses = {}
    MaxRequests = 2
    MaxFaults = 2
INVARIANTS
    RunnerHeld
    NoRunnerLeaked
PROPERTIES
    BusyRunnerReleased
    QueuedDispatched
CHECK_DEADLOCK FALSE
