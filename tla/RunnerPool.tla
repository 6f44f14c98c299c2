------------------------------ MODULE RunnerPool ------------------------------
(***************************************************************************)
(* The Master API's pool of runners: the rows of the experiments and       *)
(* runners tables, the handlers of services/experiment_service.py that     *)
(* start, stop and poll an experiment, its queue scheduler, and the        *)
(* reconciler and the health monitor of services/runner_instance_service.py.*)
(*                                                                         *)
(* Each runner executes one experiment                                     *)
(* (max_concurrent_experiments_per_runner = 1, the default).  An operation *)
(* of database_service.py is one transaction; a handler loses the event    *)
(* loop between two of them and during every HTTP call, so an action is a  *)
(* single transaction or call with the local decisions that follow it.     *)
(* What a handler carries across is kept in `call`.  The Runner APIs       *)
(* themselves (module RunnerTasks) appear as the status each reports.      *)
(***************************************************************************)
EXTENDS Naturals, FiniteSets

CONSTANTS
    Experiments,  \* numbered in the order of created_at
    Runners,
    Clients,      \* concurrent API requests
    Scheduler,    \* the coroutine of _queue_scheduler_loop
    None,
    OperatorStatuses, \* what the instance endpoints (stop, initialize, restart) write
    MaxRequests,  \* bound on API requests
    MaxFaults     \* bound on failed, late or unanswered calls, probes and crashes

ASSUME PoolAssumption ==
    /\ Experiments \subseteq Nat
    /\ None \notin Experiments \cup Runners
    /\ Scheduler \notin Clients \cup Runners
    /\ Clients \cap Runners = {}
    /\ OperatorStatuses \subseteq {"offline", "ready", "error"}
    /\ MaxRequests \in Nat /\ MaxFaults \in Nat

VARIABLES
    exp,        \* ExperimentModel.status
    assigned,   \* config["assigned_runner_id"]
    runner,     \* RunnerInstanceModel.status
    cur,        \* RunnerInstanceModel.current_experiment_id
    remote,     \* the status runner r reports for experiment e, "absent" for a 404
    late,       \* <<r, e>>: an initialize request that timed out and r has yet to finish
    call,       \* what a request, the scheduler, or the reconciler's turn with a runner carries
    health,     \* the status the health monitor is about to write, None when none
    requests, faults,
    disturbed   \* history: experiments a start of which was interfered with

tables == <<exp, assigned, runner, cur>>
outside == <<remote, late>>
bounds == <<requests, faults>>
vars == <<tables, outside, call, health, bounds, disturbed>>

Terminal == {"completed", "failed", "terminated", "cancelled"}
Waiting == {"prepared", "queued", "dispatching"}
ExperimentStatus == Waiting \cup {"initializing", "preparing", "running"} \cup Terminal
RunnerStatus == {"offline", "initializing", "ready", "busy", "error"}
RemoteStatus == {"absent", "initialized", "running"} \cup Terminal

ASSUME NoneAssumption == None \notin Terminal

\* Steps of start_experiment_forward, and of the other handlers.
StartOps == {"read", "alloc", "queue", "requeue", "init", "post_init", "preparing", "post_start",
             "running", "failed", "unwind"}
OtherOps == {"cancel", "post_stop", "stopped", "release", "poll", "poll_write", "poll_read",
             "final", "probe", "upload_alloc", "upload"}
Callers == Clients \cup {Scheduler} \cup Runners
Calls == [op : {"idle"} \cup StartOps \cup OtherOps, exp : Experiments \cup {None},
          runner : Runners \cup {None}, seen : ExperimentStatus \cup {None}]
Poll(op, e, r, seen) == [op |-> op, exp |-> e, runner |-> r, seen |-> seen]
Step(op, e, r) == Poll(op, e, r, None)
Idle == Step("idle", None, None)

\* Experiments whose files are prepared, and runners the health monitor has found ready.
Init ==
    /\ exp = [e \in Experiments |-> "prepared"]
    /\ assigned = [e \in Experiments |-> None]
    /\ runner = [r \in Runners |-> "ready"]
    /\ cur = [r \in Runners |-> None]
    /\ remote = [r \in Runners |-> [e \in Experiments |-> "absent"]]
    /\ late = {}
    /\ call = [c \in Callers |-> Idle]
    /\ health = [r \in Runners |-> None]
    /\ requests = 0 /\ faults = 0
    /\ disturbed = {}

-----------------------------------------------------------------------------
(* Pieces several handlers share.                                          *)

Request == requests < MaxRequests /\ requests' = requests + 1 /\ UNCHANGED faults
Fault == faults < MaxFaults /\ faults' = faults + 1 /\ UNCHANGED requests

Goto(c, op, step) == call[c].op = op /\ call' = [call EXCEPT ![c] = step]
At(c, op) == [call[c] EXCEPT !.op = op]
Begin(c, step) == c \in Clients /\ call[c] = Idle /\ Request /\ call' = [call EXCEPT ![c] = step]

InFlight(e) == \E c \in Callers : call[c].exp = e
Starting(e) == \E c \in Callers : call[c].exp = e /\ call[c].op \in StartOps
Disturb(e, when) == disturbed' = IF when THEN disturbed \cup {e} ELSE disturbed

SetStatus(e, status) ==
    /\ exp' = [exp EXCEPT ![e] = status]
    /\ UNCHANGED <<assigned, runner, cur>>

\* Mutant of Free: the row says READY.
FreeByStatus(r) == runner[r] = "ready"

Free(r) == runner[r] = "ready" /\ cur[r] = None

\* allocate_runner_for_experiment and allocate_specific_runner_for_experiment.
Occupy(r, e) ==
    /\ Free(r)
    /\ runner' = [runner EXCEPT ![r] = "busy"]
    /\ cur' = [cur EXCEPT ![r] = e]
    /\ assigned' = [assigned EXCEPT ![e] = r]
    /\ UNCHANGED exp

\* Mutant of Release: whoever holds the runner loses it.
ReleaseUnowned(r, e) ==
    /\ IF r # None
       THEN /\ runner' = [runner EXCEPT ![r] = "ready"]
            /\ cur' = [cur EXCEPT ![r] = None]
       ELSE UNCHANGED <<runner, cur>>
    /\ UNCHANGED <<exp, assigned>>

\* release_runner_by_id_if_experiment.
Release(r, e) ==
    /\ IF r # None /\ cur[r] = e
       THEN /\ runner' = [runner EXCEPT ![r] = "ready"]
            /\ cur' = [cur EXCEPT ![r] = None]
       ELSE UNCHANGED <<runner, cur>>
    /\ UNCHANGED <<exp, assigned>>

SetRemote(r, e, status) == remote' = [remote EXCEPT ![r][e] = status] /\ UNCHANGED late

-----------------------------------------------------------------------------
(* start_experiment_forward, from POST /start or from the scheduler.       *)

Startable == {"prepared", "completed", "failed", "terminated"}

\* The request reads the status; QUEUED and DISPATCHING are answered 202 with no effect,
\* and every other status refused.
StartRead(c, e) ==
    /\ exp[e] \in Startable
    /\ Begin(c, Step("alloc", e, None))
    /\ Disturb(e, InFlight(e))
    /\ UNCHANGED <<tables, outside, health>>

\* claim_next_queued_for_dispatching, when has_ready_runner_capacity: the oldest.
ClaimQueued(e) ==
    /\ \E r \in Runners : Free(r)
    /\ exp[e] = "queued" /\ \A f \in Experiments : exp[f] = "queued" => e <= f
    /\ Goto(Scheduler, "idle", Step("read", e, None))
    /\ SetStatus(e, "dispatching")
    /\ Disturb(e, InFlight(e))
    /\ UNCHANGED <<outside, health, bounds>>

\* Mutant of ScheduledRead: the scheduler is answered like a client.
ScheduledReadQueued(e) ==
    /\ call[Scheduler].exp = e
    /\ Goto(Scheduler, "read",
            IF exp[e] \in {"queued", "dispatching"} THEN At(Scheduler, "requeue")
            ELSE IF exp[e] \in Startable THEN At(Scheduler, "alloc") ELSE Idle)
    /\ UNCHANGED <<tables, outside, health, bounds, disturbed>>

ScheduledRead(e) ==
    /\ call[Scheduler].exp = e
    /\ Goto(Scheduler, "read",
            IF exp[e] \in Startable \cup {"queued", "dispatching"} THEN At(Scheduler, "alloc") ELSE Idle)
    /\ UNCHANGED <<tables, outside, health, bounds, disturbed>>

Allocate(c, r, e) ==
    /\ call[c].exp = e
    /\ Goto(c, "alloc", Step("init", e, r))
    /\ Occupy(r, e)
    /\ UNCHANGED <<outside, health, bounds, disturbed>>

NoCapacity(c) ==
    /\ \A r \in Runners : ~Free(r)
    /\ Goto(c, "alloc", At(c, "queue"))
    /\ UNCHANGED <<tables, outside, health, bounds, disturbed>>

\* QUEUED is written whatever the status is by now, and by the scheduler once more.
QueueExperiment(c, e) ==
    /\ call[c].exp = e
    /\ \/ Goto(c, "queue", IF c = Scheduler THEN At(c, "requeue") ELSE Idle)
       \/ Goto(c, "requeue", Idle)
    /\ SetStatus(e, "queued")
    /\ UNCHANGED <<outside, health, bounds, disturbed>>

\* The three unconditional status updates of a start that goes well.
Advance(c, e) ==
    /\ call[c].exp = e
    /\ \/ Goto(c, "init", At(c, "post_init")) /\ SetStatus(e, "initializing")
       \/ Goto(c, "preparing", At(c, "post_start")) /\ SetStatus(e, "preparing")
       \/ Goto(c, "running", Idle) /\ SetStatus(e, "running")
    /\ UNCHANGED <<outside, health, bounds, disturbed>>

\* POST /initialize.  An attempt that times out is repeated, and the runner finishes it
\* when it has downloaded the files.
PostInitialize(c, r, e) ==
    /\ call[c].exp = e /\ call[c].runner = r
    /\ \/ /\ Goto(c, "post_init", At(c, "preparing"))
          /\ SetRemote(r, e, "initialized")
          /\ UNCHANGED <<bounds, disturbed>>
       \/ /\ Goto(c, "post_init", At(c, "post_init"))
          /\ late' = late \cup {<<r, e>>} /\ UNCHANGED remote
          /\ Fault /\ Disturb(e, TRUE)
    /\ UNCHANGED <<tables, health>>

FinishLate(r, e) ==
    /\ <<r, e>> \in late
    /\ remote' = [remote EXCEPT ![r][e] = "initialized"]
    /\ late' = late \ {<<r, e>>}
    /\ UNCHANGED <<tables, call, health, bounds, disturbed>>

\* POST /start.  When its reply is lost it is repeated, and refused.  A runner that cannot
\* enqueue the task reports the experiment as failed.
PostStart(c, r, e) ==
    /\ call[c].exp = e /\ call[c].runner = r
    /\ IF remote[r][e] \in {"initialized", "failed"}
       THEN \/ /\ SetRemote(r, e, "running")
               /\ \/ Goto(c, "post_start", At(c, "running")) /\ UNCHANGED <<bounds, disturbed>>
                  \/ Goto(c, "post_start", At(c, "post_start")) /\ Fault /\ Disturb(e, TRUE)
            \/ /\ SetRemote(r, e, "failed")
               /\ Goto(c, "post_start", At(c, "failed")) /\ Fault /\ UNCHANGED disturbed
       ELSE /\ Goto(c, "post_start", At(c, "failed"))
            /\ UNCHANGED <<outside, bounds, disturbed>>
    /\ UNCHANGED <<tables, health>>

\* No attempt got through, or the runner answered with another error.
PostFails(c) ==
    /\ \/ Goto(c, "post_init", At(c, "failed"))
       \/ Goto(c, "post_start", At(c, "failed"))
    /\ Fault
    /\ UNCHANGED <<tables, outside, health, disturbed>>

\* Mutant of StartFailed: the runner of a failed start is kept.
StartFailedKeepsRunner(c, e) ==
    /\ call[c].exp = e
    /\ Goto(c, "failed", Idle)
    /\ SetStatus(e, "failed")
    /\ UNCHANGED <<outside, health, bounds, disturbed>>

StartFailed(c, e) ==
    /\ call[c].exp = e
    /\ Goto(c, "failed", At(c, "unwind"))
    /\ SetStatus(e, "failed")
    /\ UNCHANGED <<outside, health, bounds, disturbed>>

\* recover_stale_dispatching, at the top of the scheduler's loop.
RecoverStale ==
    /\ call[Scheduler] = Idle
    /\ \E e \in Experiments : exp[e] = "dispatching"
    /\ exp' = [e \in Experiments |-> IF exp[e] = "dispatching" THEN "queued" ELSE exp[e]]
    /\ UNCHANGED <<assigned, runner, cur, outside, call, health, bounds, disturbed>>

-----------------------------------------------------------------------------
(* stop_experiment_forward.                                                *)

\* Mutant of StopRead: a running experiment is cancelled like a waiting one.
StopReadCancels(c, e) ==
    /\ Begin(c, Step("cancel", e, assigned[e]))
    /\ Disturb(e, Starting(e))
    /\ UNCHANGED <<tables, outside, health>>

StopRead(c, e) ==
    /\ Begin(c, Step(IF exp[e] = "running" THEN "post_stop" ELSE "cancel", e, assigned[e]))
    /\ Disturb(e, Starting(e))
    /\ UNCHANGED <<tables, outside, health>>

\* POST /stop; without an answer the request ends with an error.
PostStop(c, r, e) ==
    /\ call[c].exp = e /\ call[c].runner = r
    /\ \/ Goto(c, "post_stop", At(c, "stopped")) /\ SetRemote(r, e, "cancelled") /\ UNCHANGED bounds
       \/ Goto(c, "post_stop", Idle) /\ SetRemote(r, e, "cancelled") /\ Fault
       \/ Goto(c, "post_stop", Idle) /\ UNCHANGED outside /\ Fault
    /\ UNCHANGED <<tables, health, disturbed>>

\* CANCELLED is written whatever the status is by now.
StopWrite(c, e) ==
    /\ call[c].exp = e
    /\ \/ Goto(c, "cancel", At(c, "release"))
       \/ Goto(c, "stopped", At(c, "release"))
    /\ SetStatus(e, "cancelled")
    /\ UNCHANGED <<outside, health, bounds, disturbed>>

-----------------------------------------------------------------------------
(* get_experiment_status and upload_to_memory.                             *)

\* What the poll has read can concern an attempt before the one that is starting.
PollRead(c, e) ==
    /\ assigned[e] # None
    /\ Begin(c, Poll("poll", e, assigned[e], exp[e]))
    /\ Disturb(e, Starting(e) /\ (exp[e] \in Terminal \/ cur[assigned[e]] # e))
    /\ UNCHANGED <<tables, outside, health>>

\* The release at the end of the handler goes by the status it last read.
Finish(c) == IF call[c].seen \in Terminal THEN At(c, "final") ELSE Idle

\* Mutant of PollRemote: any status of the runner that differs is reflected.
PollReflects(c, r, e) ==
    /\ call[c].exp = e /\ call[c].runner = r
    /\ Goto(c, "poll", IF remote[r][e] = call[c].seen THEN Idle
                       ELSE Poll("poll_write", e, r, remote[r][e]))
    /\ Disturb(e, Starting(e))
    /\ UNCHANGED <<tables, outside, health, bounds>>

\* GET /status of the assigned runner.  A terminal status is reflected when it differs, and
\* a failure also when it brings an error message.  A 404 releases the runner once it has
\* come twice and the experiment's start is long enough ago: the model keeps the choice.
PollRemote(c, r, e) ==
    /\ call[c].exp = e /\ call[c].runner = r
    /\ \/ /\ remote[r][e] \in Terminal
          /\ \/ /\ remote[r][e] # call[c].seen \/ remote[r][e] = "failed"
                /\ Goto(c, "poll", Poll("poll_write", e, r, remote[r][e]))
             \/ remote[r][e] = call[c].seen /\ Goto(c, "poll", At(c, "release"))
          /\ Disturb(e, Starting(e)) /\ UNCHANGED bounds
       \/ /\ remote[r][e] = "absent"
          /\ Goto(c, "poll", At(c, "release"))
          /\ Disturb(e, Starting(e)) /\ UNCHANGED bounds
       \/ /\ remote[r][e] \notin Terminal
          /\ Goto(c, "poll", Finish(c))
          /\ UNCHANGED <<bounds, disturbed>>
       \/ Goto(c, "poll", Finish(c)) /\ Fault /\ UNCHANGED disturbed
    /\ UNCHANGED <<tables, outside, health>>

PollWrite(c, e) ==
    /\ call[c].exp = e
    /\ Goto(c, "poll_write", At(c, "poll_read"))
    /\ SetStatus(e, call[c].seen)
    /\ UNCHANGED <<outside, health, bounds, disturbed>>

PollReread(c, e) ==
    /\ call[c].exp = e
    /\ Goto(c, "poll_read", Poll("release", e, call[c].runner, exp[e]))
    /\ UNCHANGED <<tables, outside, health, bounds, disturbed>>

\* upload_to_memory borrows the runner that ran a finished experiment.
UploadRead(c, e) ==
    /\ exp[e] \in Terminal \ {"failed"} /\ assigned[e] # None
    /\ Begin(c, Step("upload_alloc", e, assigned[e]))
    /\ Disturb(e, Starting(e))
    /\ UNCHANGED <<tables, outside, health>>

UploadAllocate(c, r, e) ==
    /\ call[c].exp = e /\ call[c].runner = r
    /\ \/ Goto(c, "upload_alloc", At(c, "upload")) /\ Occupy(r, e)
       \/ Goto(c, "upload_alloc", Idle) /\ ~Free(r) /\ UNCHANGED tables
    /\ UNCHANGED <<outside, health, bounds, disturbed>>

\* The releases at the end of a failed start, a stop, a poll, an upload or a turn of the
\* reconciler.
ReleaseRunner(c, e) ==
    /\ call[c].exp = e
    /\ \/ Goto(c, "release", Finish(c))
       \/ \E op \in {"unwind", "final", "upload"} : Goto(c, op, Idle)
    /\ Release(call[c].runner, e)
    /\ UNCHANGED <<outside, health, bounds, disturbed>>

-----------------------------------------------------------------------------
(* The reconciler and the health monitor, one turn per runner.             *)

\* The reconciler's list of BUSY runners.
ReconcileRead(r, e) ==
    /\ runner[r] = "busy" /\ cur[r] = e
    /\ Goto(r, "idle", Step("probe", e, r))
    /\ UNCHANGED <<tables, outside, health, bounds, disturbed>>

\* Mutant of ReconcileProbe: only experiments that completed count as over.
ReconcileProbeCompleted(r, e) ==
    /\ call[r].exp = e
    /\ Goto(r, "probe", IF remote[r][e] = "completed" THEN At(r, "release") ELSE Idle)
    /\ Disturb(e, Starting(e))
    /\ UNCHANGED <<tables, outside, health, bounds>>

ReconcileProbe(r, e) ==
    /\ call[r].exp = e
    /\ \/ /\ remote[r][e] \in Terminal \cup {"absent"}
          /\ Goto(r, "probe", At(r, "release"))
          /\ Disturb(e, Starting(e)) /\ UNCHANGED bounds
       \/ /\ remote[r][e] \notin Terminal
          /\ Goto(r, "probe", Idle)
          /\ UNCHANGED <<bounds, disturbed>>
       \/ Goto(r, "probe", Idle) /\ Fault /\ UNCHANGED disturbed
    /\ UNCHANGED <<tables, outside, health>>

\* The health monitor probes the runner, looks at the row and decides on a status ...
HealthDecide(r, status) ==
    /\ health[r] = None
    /\ \/ status = "ready" /\ runner[r] \notin {"ready", "busy"} /\ UNCHANGED bounds
       \/ status = "initializing" /\ runner[r] \notin {"initializing", "busy"} /\ Fault
       \/ status = "error" /\ runner[r] # "offline" /\ Fault
    /\ health' = [health EXCEPT ![r] = status]
    /\ UNCHANGED <<tables, outside, call, disturbed>>

\* ... which _update_instance_status writes over whatever is there, leaving
\* current_experiment_id alone.
HealthWrite(r) ==
    /\ health[r] # None
    /\ runner' = [runner EXCEPT ![r] = health[r]]
    /\ health' = [health EXCEPT ![r] = None]
    /\ UNCHANGED <<exp, assigned, cur, outside, call, bounds, disturbed>>

\* The operator stops, initializes or restarts a runner: the same write, of OFFLINE, or
\* of what the health probe after the start says.
InstanceEndpoint(r, status) ==
    /\ Request
    /\ status \in OperatorStatuses
    /\ runner' = [runner EXCEPT ![r] = status]
    /\ UNCHANGED <<exp, assigned, cur, outside, call, health, disturbed>>

-----------------------------------------------------------------------------
(* The runner, and the Master's process.                                   *)

\* The worker of RunnerTasks reports the outcome of run.py, also over the CANCELLED of a stop.
RemoteEnds(r, e, status) ==
    /\ remote[r][e] \in {"running", "cancelled"}
    /\ status \in {"completed", "failed", "cancelled"}
    /\ SetRemote(r, e, status)
    /\ UNCHANGED <<tables, call, health, bounds, disturbed>>

\* The Master dies and starts again: everything but the tables is lost.
MasterRestarts ==
    /\ Fault
    /\ call' = [c \in Callers |-> Idle]
    /\ health' = [r \in Runners |-> None]
    /\ disturbed' = disturbed \cup {e \in Experiments : InFlight(e)}
    /\ UNCHANGED <<tables, outside>>

-----------------------------------------------------------------------------

Dispatch(c, e) ==
    \/ StartRead(c, e) \/ (\E r \in Runners : Allocate(c, r, e)) \/ QueueExperiment(c, e)
    \/ Advance(c, e) \/ StartFailed(c, e)
    \/ \E r \in Runners : PostInitialize(c, r, e) \/ PostStart(c, r, e)

Stop(c, e) == StopRead(c, e) \/ (\E r \in Runners : PostStop(c, r, e)) \/ StopWrite(c, e)

PollStatus(c, e) ==
    \/ PollRead(c, e) \/ (\E r \in Runners : PollRemote(c, r, e))
    \/ PollWrite(c, e) \/ PollReread(c, e)

Upload(c, e) == UploadRead(c, e) \/ \E r \in Runners : UploadAllocate(c, r, e)

\* One turn of the scheduler's loop, or of the reconciler's with runner r.
Schedule ==
    \/ RecoverStale
    \/ \E e \in Experiments :
          \/ ClaimQueued(e) \/ ScheduledRead(e)
          \/ Dispatch(Scheduler, e) \/ ReleaseRunner(Scheduler, e)
    \/ NoCapacity(Scheduler)

Reconcile(r) ==
    \E e \in Experiments : ReconcileRead(r, e) \/ ReconcileProbe(r, e) \/ ReleaseRunner(r, e)

Monitor(r) == (\E s \in RunnerStatus : HealthDecide(r, s) \/ InstanceEndpoint(r, s)) \/ HealthWrite(r)

Next ==
    \/ \E c \in Clients, e \in Experiments :
          Dispatch(c, e) \/ Stop(c, e) \/ PollStatus(c, e) \/ Upload(c, e) \/ ReleaseRunner(c, e)
    \/ \E c \in Clients : NoCapacity(c)
    \/ Schedule
    \/ \E r \in Runners : Reconcile(r) \/ Monitor(r)
    \/ \E c \in Callers : PostFails(c)
    \/ \E r \in Runners, e \in Experiments : FinishLate(r, e) \/ \E s \in Terminal : RemoteEnds(r, e, s)
    \/ MasterRestarts

Spec == Init /\ [][Next]_vars

\* The three loops run for as long as the Master does, and the httpx calls they wait for
\* have time limits.  Requests and the runners' outcomes get no fairness.
FairSpec ==
    /\ Spec /\ WF_vars(Schedule)
    /\ \A r \in Runners :
          WF_vars(Reconcile(r)) /\ WF_vars(HealthDecide(r, "ready") \/ HealthWrite(r))

-----------------------------------------------------------------------------
(* Properties.                                                             *)

\* Every variable keeps to its type: in particular no status of a runner that the Master
\* has no name for ("initialized") gets into the experiments table.
TypeOK ==
    /\ exp \in [Experiments -> ExperimentStatus]
    /\ assigned \in [Experiments -> Runners \cup {None}]
    /\ runner \in [Runners -> RunnerStatus]
    /\ cur \in [Runners -> Experiments \cup {None}]
    /\ remote \in [Runners -> [Experiments -> RemoteStatus]]
    /\ late \subseteq Runners \X Experiments
    /\ call \in [Callers -> Calls]
    /\ health \in [Runners -> RunnerStatus \cup {None}]
    /\ requests \in Nat /\ faults \in Nat
    /\ disturbed \subseteq Experiments

\* A runner that executes an experiment is held for it, and the experiment knows it, so
\* the runner is given to no other: unless another handler acted on the experiment while
\* it was being started, or a call of the start was lost.
RunnerHeld ==
    \A r \in Runners, e \in Experiments \ disturbed :
        remote[r][e] = "running" => cur[r] = e /\ assigned[e] = r

\* An experiment that waits or is over in the Master's table runs nowhere.
SettledRunsNowhere ==
    \A r \in Runners, e \in Experiments \ disturbed :
        exp[e] \in Waiting \cup Terminal => remote[r][e] # "running"

\* A runner is held only for an experiment that is being started, that borrows it, or
\* that it runs or has run: every other hold would be for ever, because the reconciler
\* lets go of a runner when the experiment is over there.
NoRunnerLeaked ==
    \A r \in Runners : cur[r] \in Experiments \ disturbed =>
        \/ remote[r][cur[r]] \in Terminal \cup {"running"}
        \/ \E c \in Callers : call[c].exp = cur[r] /\ call[c].runner = r
                              /\ call[c].op \in StartOps \cup {"upload", "release", "final"}

\* No step gives a runner to an experiment while it is held for another one, whatever the
\* health monitor and the operator make of its status.
NeverStolen ==
    [][\A r \in Runners : cur[r] # None => cur'[r] \in {cur[r], None}]_vars

\* A queued experiment does get to a runner, or is cancelled, if capacity keeps coming back.
QueuedDispatched ==
    ([]<>(\E r \in Runners : Free(r))) =>
        \A e \in Experiments : exp[e] = "queued" ~> exp[e] \notin {"queued", "dispatching"}

\* A runner that is BUSY with an experiment that is over there is given back, unless the
\* experiment starts there again or the health monitor or the operator takes it off BUSY.
BusyRunnerReleased ==
    \A r \in Runners, e \in Experiments :
        (runner[r] = "busy" /\ cur[r] = e /\ remote[r][e] \in Terminal)
            ~> (runner[r] # "busy" \/ cur[r] # e \/ remote[r][e] \notin Terminal)

\* The comment at runner_instance_service.py:676, "keep state; health monitor will handle
\* ERROR transitions": an unanswered probe does not keep a runner from being given back.
FinishedRunnerReleased ==
    \A r \in Runners, e \in Experiments :
        (cur[r] = e /\ remote[r][e] \in Terminal) ~> (cur[r] # e \/ remote[r][e] \notin Terminal)

\* The comment at experiment_service.py:1084, "treat stop as cancel (remove from
\* queue/scheduler eligibility)": a cancelled experiment is not dispatched any more.
CancelledNotDispatched ==
    [][\A e \in Experiments : exp[e] = "cancelled" => exp'[e] \in Terminal]_vars

\* The docstring of _queue_scheduler_loop, "start queued experiments when capacity is
\* available": an experiment in the queue is not over before it was dispatched.
QueuedNotFailed ==
    [][\A e \in Experiments : exp[e] = "queued" => exp'[e] \notin Terminal \ {"cancelled"}]_vars

=============================================================================
