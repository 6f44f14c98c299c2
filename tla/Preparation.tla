------------------------------ MODULE Preparation ------------------------------
(***************************************************************************)
(* The life of experiments from the request that creates them to the run   *)
(* on a runner, and drop_all_experiments.                                  *)
(*                                                                         *)
(* POST /ml stores a row and publishes the configuration; the workflow     *)
(* consumer takes one message at a time, builds the experiment's files,    *)
(* uploads them and writes the row (services/workflow_consumer.py,         *)
(* kafka_service.py, experiment_creation_service.py).  The other routes    *)
(* (prompts, chains, carl-chains: Direct) do so within the request. Users *)
(* start, stop and drop experiments meanwhile (experiment_service.py).     *)
(*                                                                         *)
(* A step is what a handler does between two awaits that let others run:   *)
(* a query of the database or a request to a runner.  The storage client   *)
(* and the builders are synchronous, so files are built and uploaded in    *)
(* one step.  There always is a free runner, runs do not end by themselves *)
(* and one start of an experiment is in flight at a time: module           *)
(* RunnerPool is about the rest of a start.                                *)
(***************************************************************************)
EXTENDS Naturals, Sequences

CONSTANTS
    Exps,        \* experiments, created at most once each
    Direct,      \* those whose route builds their files itself
    None,
    MaxRequests, \* bound on requests to start, stop and drop
    MaxFaults    \* bound on lost writes, lost messages, crashes

ASSUME PreparationAssumption ==
    /\ Direct \subseteq Exps /\ None \notin Exps
    /\ MaxRequests \in Nat /\ MaxFaults \in Nat

VARIABLES
    row,       \* the experiments table
    uploaded,  \* the experiments with files under experiments/<id>/
    data,      \* the experiments whose dataset is under data/
    creator,   \* the request that creates each experiment
    topic,     \* the configuration messages, oldest first
    next,      \* the consumer's position
    committed, \* what it has committed of it at least
    alive,     \* its task has not ended
    job,       \* its handler
    starter,   \* start_experiment_forward of each experiment
    stopper,   \* stop_experiment_forward, called by a user and by drop_all_experiments
    drop,      \* drop_all_experiments
    runs,      \* how many runners execute the experiment
    requests, faults,
    harmed,      \* history: the experiments a fault has hit
    crossed,     \* history: those that were started while their handler was at work
    overwritten, \* history: those whose RUNNING their handler or a user's cancellation
                 \* overwrote while they ran
    overtaken    \* history: those that were being started during drop_all_experiments

storage == <<uploaded, data>>
kafka == <<topic, next, committed, alive>>
bounds == <<requests, faults, harmed>>
elusive == <<overwritten, overtaken>>
vars == <<row, storage, creator, kafka, job, starter, stopper, drop, runs, bounds, crossed, elusive>>

\* ExperimentStatus, "none" for no row.
Status == {"none", "pending", "initializing", "prepared", "preparation_failed", "preparing",
           "running", "failed", "cancelled"}
Paths == {"data", "prefix"} \* data_path: the dataset as uploaded, or the prepared files
Row == [status : Status,
        files : BOOLEAN, \* config has experiment_files_path
        path : Paths]
Creating == {"new", "ml", "prompt", "chain", "uploaded", "preparation_failed", "failed", "done"}
Job == [pc : {"idle", "taken", "build", "uploaded", "path", "status", "failed", "raised"},
        exp : Exps \cup {None}, path : Paths]
Starter == [pc : {"idle", "allocated", "initializing", "preparing"}, path : Paths]
Callers == {"user", "drop"}
Stopping == {"idle", "begin", "runner", "cancel"}
Drop == [pc : {"idle", "stopping", "data"}, seen : [Exps -> Status], todo : SUBSET Exps]

TypeOK ==
    /\ row \in [Exps -> Row]
    /\ uploaded \subseteq Exps /\ data \subseteq Exps
    /\ creator \in [Exps -> Creating]
    /\ topic \in Seq(Exps) /\ alive \in BOOLEAN
    /\ next \in 1..Len(topic) + 1 /\ committed \in 1..next
    /\ job \in Job
    /\ starter \in [Exps -> Starter]
    /\ stopper \in [Callers \X Exps -> Stopping]
    /\ drop \in Drop
    /\ runs \in [Exps -> Nat]
    /\ requests \in 0..MaxRequests /\ faults \in 0..MaxFaults
    /\ harmed \subseteq Exps /\ crossed \subseteq Exps
    /\ overwritten \subseteq Exps /\ overtaken \subseteq Exps

NoJob == [pc |-> "idle", exp |-> None, path |-> "data"]
Resting == [pc |-> "idle", path |-> "data"]

Init ==
    /\ row = [e \in Exps |-> [status |-> "none", files |-> FALSE, path |-> "data"]]
    /\ uploaded = {} /\ data = Exps
    /\ creator = [e \in Exps |-> "new"]
    /\ topic = <<>> /\ next = 1 /\ committed = 1 /\ alive = TRUE
    /\ job = NoJob
    /\ starter = [e \in Exps |-> Resting]
    /\ stopper = [c \in Callers \X Exps |-> "idle"]
    /\ drop = [pc |-> "idle", seen |-> [e \in Exps |-> "none"], todo |-> {}]
    /\ runs = [e \in Exps |-> 0]
    /\ requests = 0 /\ faults = 0
    /\ harmed = {} /\ crossed = {} /\ overwritten = {} /\ overtaken = {}

Request == requests < MaxRequests /\ requests' = requests + 1 /\ UNCHANGED <<faults, harmed>>
Fault(hit) == /\ faults < MaxFaults /\ faults' = faults + 1
              /\ harmed' = harmed \cup hit
              /\ UNCHANGED requests

Exists(e) == row[e].status # "none"

\* update_experiment: no row, no update; an error of the database is logged and forgotten.
Update(e, new) ==
    \/ /\ row' = IF Exists(e) THEN [row EXCEPT ![e] = new] ELSE row
       /\ UNCHANGED bounds
    \/ Fault({e}) /\ UNCHANGED row
UpdateStatus(e, status) == Update(e, [row[e] EXCEPT !.status = status])

----------------------------------------------------------------------------
\* Every route checks its request and stores the row.
CreateRow(e, kind) ==
    /\ creator[e] = "new"
    /\ row' = [row EXCEPT ![e].status = "pending"]
    /\ creator' = [creator EXCEPT ![e] = kind]
    /\ UNCHANGED <<storage, kafka, job, starter, stopper, drop, runs, bounds, crossed, elusive>>

CreateMl(e) == e \notin Direct /\ CreateRow(e, "ml")
CreatePrompt(e) == e \in Direct /\ CreateRow(e, "prompt")
CreateChain(e) == e \in Direct /\ CreateRow(e, "chain")

\* POST /ml publishes the configuration.  Without a producer it skips that, an error is raised
\* whether or not the message was sent, and the producer may send it twice.
Publish(e) ==
    /\ creator[e] = "ml"
    /\ creator' = [creator EXCEPT ![e] = "done"]
    /\ \/ topic' = Append(topic, e) /\ UNCHANGED bounds
       \/ topic' = topic \o <<e, e>> /\ Fault({})
       \/ UNCHANGED topic /\ Fault({e})
    /\ UNCHANGED <<row, storage, next, committed, alive, job, starter, stopper, drop, runs, crossed, elusive>>

\* _prepare_dataset: what was prepared already is no dataset.
HasDataset(e, path) == path = "data" /\ e \in data
\* upload_experiment_files
Upload(e) == uploaded' = uploaded \cup {e}

\* The other routes build the files.  Whether they upload them or fail, and how: a prompt
\* whose dataset or folder cannot be had is left pending, a chain is not.
BuildDirect(e, failures) ==
    /\ \/ /\ HasDataset(e, "data")
          /\ creator' = [creator EXCEPT ![e] = "uploaded"]
          /\ Upload(e)
       \/ /\ \E end \in failures : creator' = [creator EXCEPT ![e] = end]
          /\ UNCHANGED uploaded
    /\ UNCHANGED <<row, data, kafka, job, starter, stopper, drop, runs, bounds, crossed, elusive>>

BuildPrompt(e) == creator[e] = "prompt" /\ BuildDirect(e, {"done", "failed"})
BuildChain(e) == creator[e] = "chain" /\ BuildDirect(e, {"preparation_failed", "failed"})

\* One write for the files and the prefix, or the status of the failure.
RecordDirect(e) ==
    /\ \/ /\ creator[e] = "uploaded"
          /\ Update(e, [status |-> "prepared", files |-> TRUE, path |-> "prefix"])
       \/ /\ creator[e] \in {"preparation_failed", "failed"}
          /\ UpdateStatus(e, creator[e])
    /\ creator' = [creator EXCEPT ![e] = "done"]
    /\ UNCHANGED <<storage, kafka, job, starter, stopper, drop, runs, crossed, elusive>>

----------------------------------------------------------------------------
\* The workflow consumer.
Goes(pc) == job' = [job EXCEPT !.pc = pc]
Done == job' = NoJob
HandlerOnly == UNCHANGED <<creator, kafka, starter, stopper, drop, runs, crossed>>

\* A status is written over that of an experiment, maybe over RUNNING while a runner executes it.
Overwrites(e) ==
    /\ overwritten' = IF runs[e] > 0 /\ row[e].status = "running"
                      THEN overwritten \cup {e} ELSE overwritten
    /\ UNCHANGED overtaken

\* Mutant of Take: the position goes one too far.
TakeOffByOne ==
    /\ alive /\ job.pc = "idle" /\ next <= Len(topic)
    /\ next' = next + 2
    /\ job' = [pc |-> "taken", exp |-> topic[next], path |-> row[topic[next]].path]
    /\ UNCHANGED <<row, storage, creator, topic, committed, alive, starter, stopper, drop, runs,
                   bounds, crossed, elusive>>

Take ==
    /\ alive /\ job.pc = "idle" /\ next <= Len(topic)
    /\ next' = next + 1
    /\ job' = IF Exists(topic[next])
              THEN [pc |-> "taken", exp |-> topic[next], path |-> row[topic[next]].path]
              ELSE NoJob
    /\ UNCHANGED <<row, storage, creator, topic, committed, alive, starter, stopper, drop, runs,
                   bounds, crossed, elusive>>

Initialize ==
    /\ job.pc = "taken"
    /\ UpdateStatus(job.exp, "initializing")
    /\ Goes("build")
    /\ HandlerOnly /\ Overwrites(job.exp) /\ UNCHANGED storage

\* Mutant of BuildFiles: the handler builds from the dataset whatever the path it read.
BuildFilesAnew ==
    /\ job.pc = "build"
    /\ \/ Upload(job.exp) /\ Goes("uploaded")
       \/ (Goes("failed") \/ Goes("raised")) /\ UNCHANGED uploaded
    /\ HandlerOnly /\ UNCHANGED <<row, data, bounds, elusive>>

\* The task's row, the dataset, the folder and its upload, each of which may fail.
BuildFiles ==
    /\ job.pc = "build"
    /\ \/ HasDataset(job.exp, job.path) /\ Upload(job.exp) /\ Goes("uploaded")
       \/ (Goes("failed") \/ Goes("raised")) /\ UNCHANGED uploaded
    /\ HandlerOnly /\ UNCHANGED <<row, data, bounds, elusive>>

\* create_experiment_files writes the first half, its caller the rest.
RecordFiles ==
    /\ job.pc = "uploaded"
    /\ \/ /\ Update(job.exp, [row[job.exp] EXCEPT !.status = "prepared", !.files = TRUE])
          /\ Goes("path") /\ Overwrites(job.exp)
       \/ Fault({}) /\ Goes("failed") /\ UNCHANGED <<row, elusive>> \* the row cannot be read
    /\ HandlerOnly /\ UNCHANGED storage

\* Mutant of RecordPath: data_path is left as it was.
RecordPathSkipped ==
    /\ job.pc = "path"
    /\ Goes("status")
    /\ HandlerOnly /\ UNCHANGED <<row, storage, bounds, elusive>>

RecordPath ==
    /\ job.pc = "path"
    /\ Update(job.exp, [row[job.exp] EXCEPT !.path = "prefix"])
    /\ Goes("status")
    /\ HandlerOnly /\ UNCHANGED <<storage, elusive>>

RecordStatus ==
    /\ job.pc = "status"
    /\ UpdateStatus(job.exp, "prepared")
    /\ Done
    /\ HandlerOnly /\ Overwrites(job.exp) /\ UNCHANGED storage

\* Mutant of RecordFailure: the handler tries again.
RecordFailureRetries ==
    /\ job.pc \in {"failed", "raised"}
    /\ UpdateStatus(job.exp, "preparation_failed")
    /\ Goes("build")
    /\ HandlerOnly /\ Overwrites(job.exp) /\ UNCHANGED storage

\* A failure is written twice, an exception of the handler once.
RecordFailure ==
    /\ job.pc \in {"failed", "raised"}
    /\ UpdateStatus(job.exp, "preparation_failed")
    /\ IF job.pc = "failed" THEN Goes("raised") ELSE Done
    /\ HandlerOnly /\ Overwrites(job.exp) /\ UNCHANGED storage

Handle == \/ Initialize \/ BuildFiles \/ RecordFiles \/ RecordPath \/ RecordStatus
          \/ RecordFailure

\* An error of the consumer itself ends its task.
ConsumerEnds ==
    /\ alive /\ job.pc = "idle"
    /\ Fault({})
    /\ alive' = FALSE
    /\ UNCHANGED <<row, storage, creator, topic, next, committed, job, starter, stopper, drop,
                   runs, crossed, elusive>>

\* The process restarts.  The position committed in the background may include the message in
\* hand, or be behind it; while nothing is committed, the consumer starts at the end.
InFlight == {e \in Exps : \/ creator[e] \notin {"new", "done"}
                          \/ job.exp = e
                          \/ starter[e].pc # "idle"
                          \/ \E c \in Callers : stopper[<<c, e>>] # "idle"
                          \/ drop.pc # "idle"}
Skipped(position) == {topic[k] : k \in next..position - 1}

Restart ==
    /\ \/ next' \in committed..next
       \/ committed = 1 /\ next' = Len(topic) + 1
    /\ Fault(InFlight \cup Skipped(next'))
    /\ committed' = next' /\ alive' = TRUE
    /\ Done
    /\ creator' = [e \in Exps |-> IF creator[e] = "new" THEN "new" ELSE "done"]
    /\ starter' = [e \in Exps |-> Resting]
    /\ stopper' = [c \in Callers \X Exps |-> "idle"]
    /\ drop' = [drop EXCEPT !.pc = "idle", !.todo = {}]
    /\ UNCHANGED <<row, storage, topic, runs, crossed, elusive>>

----------------------------------------------------------------------------
\* start_experiment_forward.  Any other status is refused, or has been queued already.
Startable(e) == row[e].files /\ row[e].status \in {"prepared", "failed"}
AtWork(e) == job.exp = e
StartOnly == UNCHANGED <<storage, creator, kafka, job, stopper, drop>>

Start(e) ==
    /\ Request
    /\ starter[e].pc = "idle" /\ Startable(e)
    /\ starter' = [starter EXCEPT ![e] = [pc |-> "allocated", path |-> row[e].path]]
    /\ crossed' = IF AtWork(e) THEN crossed \cup {e} ELSE crossed
    /\ overtaken' = IF drop.pc = "stopping" THEN overtaken \cup {e} ELSE overtaken
    /\ StartOnly /\ UNCHANGED <<row, runs, overwritten>>

StartInitializing(e) ==
    /\ starter[e].pc = "allocated"
    /\ UpdateStatus(e, "initializing")
    /\ starter' = [starter EXCEPT ![e].pc = "initializing"]
    /\ StartOnly /\ UNCHANGED <<runs, crossed, elusive>>

\* The runner's answer to initialize.
Initialized(e) ==
    /\ starter[e].pc = "initializing"
    /\ \/ UpdateStatus(e, "preparing") /\ starter' = [starter EXCEPT ![e].pc = "preparing"]
       \/ UpdateStatus(e, "failed") /\ starter' = [starter EXCEPT ![e] = Resting]
    /\ StartOnly /\ UNCHANGED <<runs, crossed, elusive>>

\* Its answer to start, which may be lost.
Started(e) ==
    /\ starter[e].pc = "preparing"
    /\ starter' = [starter EXCEPT ![e] = Resting]
    /\ \/ UpdateStatus(e, "running") /\ runs' = [runs EXCEPT ![e] = @ + 1]
       \/ UpdateStatus(e, "failed") /\ UNCHANGED runs
       \/ /\ Fault({e}) /\ runs' = [runs EXCEPT ![e] = @ + 1]
          /\ row' = IF Exists(e) THEN [row EXCEPT ![e].status = "failed"] ELSE row
    /\ StartOnly /\ UNCHANGED <<crossed, elusive>>

----------------------------------------------------------------------------
\* stop_experiment_forward.
StopsAt(c, e, pc) == stopper' = [stopper EXCEPT ![<<c, e>>] = pc]
StopOnly == UNCHANGED <<storage, creator, kafka, job, starter, drop>>

Stop(e) ==
    /\ Request
    /\ stopper[<<"user", e>>] = "idle" /\ Exists(e)
    /\ StopsAt("user", e, "begin")
    /\ StopOnly /\ UNCHANGED <<row, runs, crossed, elusive>>

\* Only a running experiment is stopped at its runner, any other is just cancelled.
StopReads(c, e) ==
    /\ stopper[<<c, e>>] = "begin"
    /\ StopsAt(c, e, IF ~Exists(e) THEN "idle"
                     ELSE IF row[e].status = "running" THEN "runner" ELSE "cancel")
    /\ StopOnly /\ UNCHANGED <<row, runs, bounds, crossed, elusive>>

\* The runner's answer, lost or refused in the second case.
StopRunner(c, e) ==
    /\ stopper[<<c, e>>] = "runner"
    /\ LET stopped == [runs EXCEPT ![e] = IF @ = 0 THEN 0 ELSE @ - 1]
       IN  \/ runs' = stopped /\ StopsAt(c, e, "cancel") /\ UNCHANGED bounds
           \/ runs' \in {runs, stopped} /\ StopsAt(c, e, "idle") /\ Fault({e})
    /\ StopOnly /\ UNCHANGED <<row, crossed, elusive>>

StopCancels(c, e) ==
    /\ stopper[<<c, e>>] = "cancel"
    /\ UpdateStatus(e, "cancelled")
    /\ StopsAt(c, e, "idle")
    /\ IF c = "user" THEN Overwrites(e) ELSE UNCHANGED elusive
    /\ StopOnly /\ UNCHANGED <<runs, crossed>>

----------------------------------------------------------------------------
\* drop_all_experiments: the running experiments are stopped, those on their way cancelled,
\* then every row and every dataset is deleted.
Inflight == {"pending", "initializing", "preparing", "prepared"}
DropOnly == UNCHANGED <<uploaded, creator, kafka, job, starter, runs, crossed, overwritten>>

DropLists ==
    /\ Request
    /\ drop.pc = "idle"
    /\ drop' = [pc |-> "stopping", seen |-> [e \in Exps |-> row[e].status],
                todo |-> {e \in Exps : Exists(e)}]
    /\ overtaken' = overtaken \cup {e \in Exps : starter[e].pc # "idle"}
    /\ DropOnly /\ UNCHANGED <<row, data, stopper>>

\* Mutant of DropStops: a running experiment is cancelled like the others.
DropStopsNone(e) ==
    /\ drop.pc = "stopping" /\ e \in drop.todo
    /\ drop' = [drop EXCEPT !.todo = @ \ {e}]
    /\ UpdateStatus(e, "cancelled")
    /\ DropOnly /\ UNCHANGED <<data, stopper, overtaken>>

DropStops(e) ==
    /\ drop.pc = "stopping" /\ e \in drop.todo
    /\ drop' = [drop EXCEPT !.todo = @ \ {e}]
    /\ \/ /\ drop.seen[e] = "running"
          /\ StopsAt("drop", e, "begin") /\ UNCHANGED <<row, bounds>>
       \/ /\ drop.seen[e] \in Inflight
          /\ UpdateStatus(e, "cancelled") /\ UNCHANGED stopper
       \/ /\ drop.seen[e] \notin Inflight \cup {"running"}
          /\ UNCHANGED <<row, stopper, bounds>>
    /\ DropOnly /\ UNCHANGED <<data, overtaken>>

DropRows ==
    /\ drop.pc = "stopping" /\ drop.todo = {}
    /\ \A e \in Exps : stopper[<<"drop", e>>] = "idle"
    /\ drop' = [drop EXCEPT !.pc = "data"]
    /\ \/ /\ row' = [e \in Exps |-> [status |-> "none", files |-> FALSE, path |-> "data"]]
          /\ UNCHANGED bounds
       \/ Fault(Exps) /\ UNCHANGED row
    /\ DropOnly /\ UNCHANGED <<data, stopper, overtaken>>

\* The listing is not recursive: it finds the datasets but none of the experiments' files.
DropData ==
    /\ drop.pc = "data"
    /\ drop' = [drop EXCEPT !.pc = "idle"]
    /\ data' = {}
    /\ DropOnly /\ UNCHANGED <<row, stopper, bounds, overtaken>>

----------------------------------------------------------------------------
Create(e) == CreateMl(e) \/ CreatePrompt(e) \/ CreateChain(e)
Proceed(e) == Publish(e) \/ BuildPrompt(e) \/ BuildChain(e) \/ RecordDirect(e)
Launch(e) == Start(e) \/ StartInitializing(e) \/ Initialized(e) \/ Started(e)
Halt(c, e) == StopReads(c, e) \/ StopRunner(c, e) \/ StopCancels(c, e)
DropAll == DropLists \/ DropRows \/ DropData \/ \E e \in Exps : DropStops(e)

Next ==
    \/ Take \/ Handle \/ ConsumerEnds \/ Restart \/ DropAll
    \/ \E e \in Exps : Create(e) \/ Proceed(e) \/ Launch(e) \/ Stop(e) \/ \E c \in Callers : Halt(c, e)

\* The Master goes on with what it has begun: its loop runs every handler that is ready, and
\* a request it makes is answered or times out.
Fairness ==
    /\ WF_vars(Take) /\ WF_vars(Handle)
    /\ \A e \in Exps : WF_vars(Proceed(e))

Spec == Init /\ [][Next]_vars
FairSpec == Spec /\ Fairness

----------------------------------------------------------------------------
\* An experiment that has a files path or the prepared prefix has its files in storage; one
\* that is prepared has the path and, once its handler is done with it, the prefix, which is
\* what a runner is given.  Only a fault leaves it half-way.
Ready ==
    \A e \in Exps :
        /\ row[e].files \/ row[e].path = "prefix" => e \in uploaded
        /\ row[e].status = "prepared" /\ e \notin harmed =>
              /\ row[e].files
              /\ row[e].path = "prefix" \/ (job.exp = e /\ job.pc = "path")

\* An experiment is executed twice at a time only if a fault hit it, or if it was started
\* while its handler was at work.  A message delivered again finds the prepared prefix,
\* cannot be prepared from it and leaves the experiment where it cannot be started.
OneRun == \A e \in Exps : runs[e] > 1 => e \in harmed \cup crossed

\* No runner executes a dropped experiment.  It takes a fault, a start that was under way while
\* the experiments were being dropped, or a status written over RUNNING (by a handler that took
\* the experiment's message, or a user's cancellation decided before it ran),
\* which hides from the drop that it runs.
Dropped(e) == creator[e] # "new" /\ ~Exists(e)
DroppedStopped ==
    \A e \in Exps :
        Dropped(e) /\ runs[e] > 0 => e \in harmed \cup overwritten \cup overtaken

\* Every experiment leaves "pending", and every handler comes to its end, unless a fault hit
\* the experiment or ended the consumer, or a prompt's dataset could not be had.
Waiting(e) == row[e].status = "pending" \/ AtWork(e)
Excused(e) == e \in harmed \/ ~alive \/ (e \in Direct /\ creator[e] = "done")
Settles == \A e \in Exps : []<>(~Waiting(e) \/ Excused(e))
=============================================================================
