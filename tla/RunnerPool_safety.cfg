\* Two requests at a time, the scheduler, the reconciler and the operator; no faults.
SPECIFICATION Spec
CONSTANTS
    None = None
    Scheduler = Scheduler
    Experiments = {1, 2}
    Runners = {r1, r2}
    Clients = {c1, c2}
    OperatorStatuses = {"ready"}
    MaxRequests = 3
    MaxFaults = 0
INVARIANTS
    TypeOK
    RunnerHeld
    SettledRunsNowhere
PROPERTIES
    NeverStolen
SYMMETRY Symmetry
CHECK_DEADLOCK FALSE
