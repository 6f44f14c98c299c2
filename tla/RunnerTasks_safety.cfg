\* One worker, as deployed, two requests in flight at a time, no faults.
SPECIFICATION Spec
CONSTANTS
    e1 = e1
    None = None
    Tasks = {t1, t2}
    AuxTasks = {}
    Experiments = {e1}
    Workers = {w1}
    Clients = {c1, c2}
    ExpOf <- MCExpOf
    RunTasks <- MCRunTasks
    MaxRequests = 4
    MaxFaults = 0
    PutStatuses = {"queued", "completed"}
INVARIANTS
    TypeOK
    ExecutedOnce
    IndexSound
    NoTaskStranded
    CancelHonoured
    RunningExperimentHasTask
PROPERTIES
    ImplementsWorkQueue
SYMMETRY Symmetry
CHECK_DEADLOCK FALSE
