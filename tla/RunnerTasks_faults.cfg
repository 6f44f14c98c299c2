\* One request at a time, but one crash, shutdown, lost reply or Redis error, and a task
\* of another type beside the RUN_EXPERIMENT task.
SPECIFICATION FairSpec
CONSTANTS
    e1 = e1
    None = None
    Tasks = {t1, t2}
    AuxTasks = {t2}
    Experiments = {e1}
    Workers = {w1}
    Clients = {c1}
    ExpOf <- MCExpOf
    RunTasks <- MCRunTasks
    MaxRequests = 3
    MaxFaults = 1
    PutStatuses = {"completed"}
INVARIANTS
    NoTaskStranded
    RunningExperimentHasTask
PROPERTIES
    CancelFreesWorker
CHECK_DEADLOCK FALSE
