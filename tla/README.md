# GigaEvo platform in TLA+

A TLA+ verification of the control logic of the GigaEvo platform: the Runner API
(`runner_api/`), which executes experiments behind a Redis task queue, the Master
API (`master_api/`), which prepares experiments, dispatches them to a pool of
runners and keeps the evolutions they report, and the chain builder of the web UI
(`web_ui/`). Paths below are relative to the repository.

## The system

### Components

| Component | Code | State | Operations |
|---|---|---|---|
| Runner task store and queue | `runner_api/src/services/task_repository.py`, `api/routes/tasks.py` | one Redis database per runner: `task:{id}` hashes, the set `all_tasks`, the lists `task_queue` and `experiment:{id}:tasks` | create, update, delete, cancel, claim, persist |
| Runner background worker | `runner_api/src/workers/task_worker.py`, `main.py` | `_running`, `current_task`, the in-memory `Task` | the loop of `start`, `_execute_task`, delete after cancel, status report, shutdown |
| Runner experiment lifecycle | `runner_api/src/services/experiment_service.py` | `experiment:{id}:status`, the workspace on disk | initialize, start, stop, cleanup, status, downloads |
| Runner worker registry | `runner_api/src/services/worker_service.py` | `worker:{id}` hashes with `stop_requested` | register, heartbeat, stop |
| run.py supervision | `runner_api/src/services/gigavolve_service.py` | the child process | run, poll for cancellation, kill |
| Sandboxed skills | `runner_api/src/services/skill_executor.py`, `sandbox/` | none | one bounded subprocess per request |
| Master dispatch and queue scheduler | `master_api/src/services/experiment_service.py` | the experiments table | create, start, stop, poll status, scheduler tick |
| Master runner pool | `master_api/src/services/runner_instance_service.py`, `database_service.py` | the runners table | allocate, release, health monitor, reconciler, stop, restart |
| Preparation workflow | `master_api/src/services/workflow_consumer.py`, `kafka_service.py`, `experiment_creation_service.py` | experiment status and files | consume a configuration, build files, report |
| Evolution record | `master_api/src/services/evolution_service.py` | evolutions, individuals, candidates | record, accept, cancel, pause, resume |
| Evolution event bus and SSE | `master_api/src/services/evolution_event_bus.py`, `api/routes/evolutions.py`, `experiment_sse.py` | bounded queue per subscriber | publish, subscribe, snapshot |
| Memory client | `master_api/src/services/memory_client.py` | none; the versions of chains are in Memory | promote an accepted individual |
| Chain builder of the web UI | `web_ui/components/create_carl_experiment.py` | the list of steps, the drop-down's choice, the open form | add, edit, save, freeze, move, copy, remove, load, submit |
| Folder constructor | `master_api/src/folder_constructor/` | none | write the program that evaluates a chain and restores its frozen steps |
| Results, visualisation, storage, feedback, Docker, the rest of the web UI, deployment | `master_api/src/services/*`, `web_ui/`, `deploy.sh` | none of their own that decides anything | I/O, transformation, presentation |

### Interactions

The web UI calls the Master API over HTTP. The Master publishes experiment
configurations to Kafka and consumes them itself (`workflow_consumer`), which builds
the experiment's files. To run an experiment the Master allocates a runner row in its
SQL database and calls `initialize` and `start` on that Runner API over HTTP, with
retries. The Runner writes a task to its own Redis, and the single background worker of
the same process pops and executes it, supervising a `run.py` child. The Master learns
of the end by polling (status queries, a reconciler over BUSY runners) and gives the
runner back. Evolutions publish to an in-process event bus read by SSE streams, and an
acceptance is also written to Memory, over HTTP, as a new version of the chain the
evolution was seeded from. The chain builder keeps its steps in the browser session and
submits them to the Master, which writes a program that is run on every mutation.

### What is hard

* Nothing in the Runner is locked. Each handler is an asyncio coroutine that loses the
  event loop at each Redis round trip; the checks at the top of a handler may no longer
  hold when it writes. The worker keeps an in-memory copy of the task and writes it back
  whole.
* The Master holds a database transaction only within single operations of
  `database_service.py`; an experiment's start spans two HTTP calls with retries and four
  separate transactions, and a stop, a poll, the scheduler, the health monitor or the
  reconciler may run between any two of them.
* A process may die anywhere; BRPOP hands over a task before anything records who has it.
* HTTP calls and Redis replies are lost, and the call may have been applied.
* Kafka delivers a configuration message again after a restart, or skips it; the experiment
  may have been started, stopped or dropped meanwhile. A database error while it is
  prepared is logged and forgotten.
* A handler of an evolution goes on with the record it read before it waited for Memory.
* A stream's client may leave at any yield of a generator, and its queue is bounded.
* The browser reports a change of the drop-down after other clicks may have come before it,
  and steps refer to each other by numbers that every removal, move and copy changes.

### What makes each part correct

* Queue and worker: a task runs at most once; the index agrees with the keys; a QUEUED or
  RUNNING task is in the queue or with a worker; an acknowledged cancellation stays; an
  experiment reported RUNNING has a task behind it; a cancellation frees the worker.
* Runner pool: a runner executes one experiment; a BUSY runner has an experiment that will
  give it back; a queued experiment is dispatched; a terminal status is not overwritten by
  news about an earlier attempt.
* Preparation: what can be started has its files; nothing is executed twice, whatever is
  delivered again; what is dropped does not run; nothing is stuck.
* Evolution: record, individual and Memory agree on the winner; a winner is promoted once;
  a decision is only undone by a request that acts on an old record.
* Event bus: queues keep the newest events in order and are torn down; a client that lost
  nothing knows the record.
* Chain builder: a form is saved to the step it was opened for; dependencies follow the
  steps they name; frozen steps survive every mutation as they were submitted.

## Plan

In the order written, each with what it is the basis of:

1. `RunnerTasks`, `MCRunnerTasks`, `RunnerTasksProofs`: task store, worker, experiment
   lifecycle of one Runner. `WorkQueue` is the abstract queue it implements,
   `RunnerTasksRefinement` the proof.
2. `RunnerPool`, `MCRunnerPool`, `RunnerPoolProofs`, `RunnerPoolHeldProofs`: experiments and
   runners tables, dispatch, stop, polling, scheduler, reconciler, health monitor.
3. `EventBus` and, extending it, `Evolution` with `MCEvolution`; `EventBusProofs` and,
   extending it, `EvolutionProofs`: the record of an evolution, its acceptance in Memory, and
   the events its streams read, in one state space.
4. `Preparation`, `PreparationProofs`: creation, the configuration topic, start, stop and
   drop against the workflow consumer.
5. `ChainEditor`, `MCChainEditor`, `ChainEditorProofs`: the chain builder and what becomes of
   its frozen steps.

What would come next: the diffing stream of one experiment (`experiment_sse.py`), a limit
above one experiment per runner, an abstract allocator of runners that `RunnerPool` implements, a
composition of `RunnerPool` with `RunnerTasks` over lost and retried HTTP calls, and the
Pareto front and win counts of the evolution service against their definitions.

## RunnerTasks

One Runner API: its Redis records, the handlers that write them and the worker.

### State and actions

| Model | Code |
|---|---|
| `hash[t]` | the `status` field of `task:{id}`; "absent" when there is no key |
| `delFlag` | field `delete_after_cancel` |
| `allTasks`, `expTasks` | `all_tasks`, `experiment:{id}:tasks` |
| `queue`, `created` | `task_queue`: its members, and the order of all LPUSHes, of which the list is a subsequence because ids are never pushed twice and LREM keeps the order |
| `expStatus[e]` | `experiment:{id}:status` |
| `stopReq` | `stop_requested` of `worker:{id}` |
| `pc`, `job`, `mem`, `current`, `life` | the await at which the worker's coroutine is, the id it carries, the status in its `Task`, `TaskWorker.current_task`, and whether `stop()` or a CancelledError has reached it |
| `call[c]` | the locals an API request carries across an await |
| `acked`, `windowed`, `excused` | history: cancellations written, those written inside a lost-update window, and tasks a worker dropped or `update_task` rewrote |

A handler keeps the event loop between two awaits, so an action is the stretch up to and
including one Redis round trip (a pipeline is one round trip, and a MULTI or a single
connection's pipeline of writes is applied as one). `cancel_task` is `CancelRead` then
`CancelWrite`; `delete_task` is `DeleteRead` then `DeleteFlag` or `DeleteDrop`;
`update_task` is `UpdateRead` then `UpdateWrite`; `start_experiment` is `StartRead` then
`StartCommit` (or `StartNotApplied`), then `StartFailed` when the reply was lost;
`stop_experiment` is `StopBegin`, `StopList`, a `StopRead` and a `StopSet` per task and
`StopDrop`; `cleanup_experiment` is `CleanupRead` then `CleanupWrite`. The worker goes
through `StopCheck`, `Pop`, `Claim`, `CheckCancelled`, `MarkRunning`, `CheckCancelled`, the
handler (`HandlerReturns` or `CancelPoll`), `ReadWasCancelled`, `PersistFinal`,
`DeleteAfterCancelRead`, `DeleteAfterCancel` and `UpdateExperiment`. `RedisError`,
`Shutdown`, `Abort`, `Crash` and `Restart` are what can happen to its process.

Abstracted: every field of a task but its status and the delete flag; the contents of
workspaces and results; the 5 second BRPOP timeout and the worker's sleeps (a timeout is a
step that is enabled on an empty queue); the six task types, of which the model tells
RUN_EXPERIMENT from the rest; the lists of tasks as sets where their order decides nothing.

### Properties

* `TypeOK`; with it the worker never executes a task whose hash is gone.
* `ExecutedOnce`: one worker at most holds a task, and it never returns to the queue.
* `IndexSound`: a queued id is listed in `all_tasks` and a listed id has a hash, however
  deletions race with the worker's whole-hash writes.
* `NoTaskStranded`: a task whose status is QUEUED or RUNNING waits or is held, unless a
  worker died with it (`excused`): the exception is real, `BRPOP` leaves no trace.
* `CancelHonoured`: a cancellation outside the two windows is never undone. The windows
  are named (`LostWindow`): between the first check and the RUNNING update, and between
  the read and the final write of the finally block.
* `RunningExperimentHasTask`: RUNNING is never reported with nothing behind it.
* `CancelFreesWorker` (liveness): cancelling a running experiment frees the worker.
* `ImplementsWorkQueue` (refinement): with `created`, `queue` and `job` for its order, its
  waiting tasks and its holders, the module is the queue of `WorkQueue`, which knows nothing of hashes, indexes or statuses:
  tasks are taken in the order they were submitted, each by one worker and once, or
  withdrawn while they wait; every other step of the Runner is a stutter.

### Runs

| Run | Instance | Shows |
|---|---|---|
| `runner_safety` | 2 RUN_EXPERIMENT tasks of one experiment, 1 worker, 2 concurrent requests, 4 requests in all, no faults; symmetric in tasks and requests | the six safety properties and the refinement under every interleaving; 285,502 states |
| `runner_faults` | one RUN_EXPERIMENT and one other task, 1 request at a time, 3 in all, 1 fault | stranding, RUNNING reports and the liveness property across a crash, a shutdown, a lost reply or a Redis error; 287,388 states |
| `runner_late_cancel` | as `runner_safety` | violated: see Findings |

The bounds are named constants: `MaxRequests`, `MaxFaults`, the two tasks and the
`PutStatuses`. Two tasks are enough for one to be held while the other waits or is deleted,
and for an experiment to be started twice; four requests allow a start, a second start, a
stop and a cleanup, or a create, a cancel, a delete and an update. One worker is what is
deployed (one worker per process, one Redis per runner); the proofs cover any number.
Deadlock is not checked: once the requests are used up and the worker has been stopped the
system really stops.

Fairness (`FairSpec`): weak fairness of `WorkerStep` only. The asyncio loop resumes the
worker's coroutine after each await, and the poll of `run_experiment` is part of it.
`HandlerReturns` has none: `run.py` is not given a time limit. Clients and faults have none.
The liveness run uses no symmetry.

### Findings

* `runner_late_cancel`: `task_worker.py:115` says the second check is for "a late-arriving
  cancel", but the RUNNING update at line 112 rewrites the whole hash, so a cancellation
  that arrives between the two checks is erased before the second one looks.

An observation without a run: a task cancelled by its own endpoint leaves `experiment:{id}:tasks`
(`CancelWrite`, `task_repository.py:203`), the list `cleanup_experiment` works from (`CleanupRead`),
so its hash and index entry outlive the clean-up of "workspace and Redis data"
(`experiment_service.py:797`).

### Proofs

`RunnerTasksProofs` proves, for every value of the constants that satisfies
`TasksAssumption`, that `IInv` is an invariant of `Spec`, and with it `TypeOK`,
`ExecutedOnce`, `IndexSound`, `NoTaskStranded`, `CancelHonoured` and
`RunningExperimentHasTask`. The safety properties are not inductive by themselves. `IInv`
adds:

* `CreatedIds`: only enqueued ids occur anywhere, so a fresh id disturbs nothing;
* `QueuedStatus`: a queued task is QUEUED or CANCELLED, and CANCELLED once a stop in
  flight has dealt with it, so `StopDrop` may take it off the queue without stranding it;
* `WindowsKnown`: inside a window a cancellation is known to be in danger, which is what
  makes `MarkRunning` and `PersistFinal` harmless for the others;
* `JobStatus`: in the finally block the in-memory status is terminal, and after it the
  stored one is not QUEUED or RUNNING, so the worker may let go of the task.

There is one lemma per conjunct (`TypeStep`, `ExecutedStep`, ..., one step per action),
`StepInvariant` combines them, and each theorem is a temporal consequence of `Invariance`.
The assumptions are those on the constants; none is about the code.

`RunnerTasksRefinement` proves `Refinement`: `Spec` implies the specification of
`WorkQueue` under the mapping. Every step submits, takes, withdraws or lets go of a task, or is a stutter; beside
`IInv` it needs `HandsFree` (a worker that is not executing carries no task).

`CancelledGoesOut` is the safety half of `CancelFreesWorker`. `Ahead` counts what a worker has
before it with the task it holds, and no step, of its own or of anybody else, raises it. If
the task was cancelled outside the windows, its next move before the finally block leads into
that block, and while the handler runs the hash says CANCELLED, which is what the poll reads.

Only model-checked: `CancelFreesWorker` itself. What is missing is that a worker with a task
can always move, which weak fairness speaks of through ENABLED.

## RunnerPool

The Master's two tables and everything that writes them while experiments run.

### State and actions

| Model | Code |
|---|---|
| `exp[e]` | `ExperimentModel.status`, of an experiment whose files are prepared |
| `assigned[e]` | `config["assigned_runner_id"]`; written by an allocation and never cleared |
| `runner[r]`, `cur[r]` | `RunnerInstanceModel.status` and `current_experiment_id` |
| `remote[r][e]` | what `GET /status` of that Runner API answers, "absent" for a 404; RUNNING and QUEUED work is "running". A runner that cannot enqueue a start reports "failed", and the outcome of a run may overwrite the CANCELLED of a stop |
| `late` | initialize requests that timed out in the Master and that the runner has yet to finish |
| `call[c]` | what a handler carries from one await to the next: its next step, experiment, runner and the status it last read; for each concurrent request, the scheduler's coroutine, and the reconciler's turn with each runner |
| `health[r]` | the status the health monitor has decided on and not yet written |
| `disturbed` | history: experiments for which the agreement of tables and runner is not claimed (below) |

An operation of `database_service.py` is one transaction, so an action is one transaction
or one HTTP call with the local decisions that follow it:

| Code | Actions |
|---|---|
| `start_experiment_forward` | `StartRead` (or `ClaimQueued`, `ScheduledRead` in the scheduler), `Allocate` or `NoCapacity` then `QueueExperiment`, `Advance` (INITIALIZING), `PostInitialize`, `Advance` (PREPARING), `PostStart`, `Advance` (RUNNING); on failure `PostFails`, `StartFailed`, `ReleaseRunner` |
| `stop_experiment_forward` | `StopRead`, `PostStop` when RUNNING, `StopWrite`, `ReleaseRunner` |
| `get_experiment_status` | `PollRead`, `PollRemote`, `PollWrite`, `PollReread`, `ReleaseRunner` (twice, as in the code) |
| `upload_to_memory` | `UploadRead`, `UploadAllocate`, `ReleaseRunner` |
| `_queue_scheduler_loop` | `RecoverStale`, `ClaimQueued`, then a start |
| `_reconcile_busy_runners_loop` | `ReconcileRead`, `ReconcileProbe`, `ReleaseRunner` |
| `_health_monitoring_loop`, `_update_instance_status` | `HealthDecide`, `HealthWrite` |
| instance endpoints | `InstanceEndpoint` |
| the runner's worker, the Master's process | `RemoteEnds`, `FinishLate`, `MasterRestarts` |

Abstracted: time. The 404 counter, the grace period and `dispatching_ttl` become a choice
(a 404 may or may not release; a DISPATCHING row may be recovered whenever the scheduler's
loop is at its top). Three attempts of a POST become as many as `MaxFaults` allows. The
scheduler's capacity check and its claim are one action, since only the scheduler claims
and a capacity lost in between is what `NoCapacity` handles. The reconciler goes through
its list in order; here its turns with different runners are independent, which allows
more interleavings than the code. A BUSY row without an experiment, which the reconciler
would free, does not occur because every write of BUSY also writes the experiment
(`BusyRunnersAreOccupied`). `list_instances` decides
and writes like the health monitor, and the same two actions stand for it. ONLINE and
TERMINATING are left out: an ONLINE runner is, like an
INITIALIZING one, neither allocated nor reconciled, and nothing writes TERMINATING.

`disturbed` marks what the code does not protect. An experiment is marked when a start of
it begins while another handler is at work on it, when a stop, an upload or the news of an
earlier attempt reaches it while it is being started, when a call of its start is lost or
late, and when the Master dies with a handler at work on it. Each of these really does
break the agreement of the tables with the runners; two are the findings below. For every
other experiment, however the scheduler, the reconciler, the health monitor, the operator
and the requests for other experiments interleave, it must hold.

### Properties

* `RunnerHeld`: a runner that executes an experiment is held for it and the experiment
  knows it, so no second experiment gets the runner.
* `SettledRunsNowhere`: an experiment that waits, or is over, in the table runs nowhere.
* `NoRunnerLeaked`: a runner is held only for an experiment that some handler is at work
  on or that runs or has run there, so that the reconciler will let go of it.
* `NeverStolen` (action property): no step moves a runner from one experiment to another,
  whatever the health monitor or the operator makes of its status. It holds for disturbed
  experiments too: `READY` written over `BUSY` is harmless because an allocation also wants
  no current experiment.
* `BusyRunnerReleased` (liveness): a BUSY runner whose experiment is over is given back.
* `QueuedDispatched` (liveness): a queued experiment leaves the queue if capacity keeps
  coming back.

### Runs

| Run | Instance | Shows |
|---|---|---|
| `pool_safety` | 2 experiments, 2 runners, 2 concurrent requests, 3 in all, an operator who restarts runners, no faults; symmetric in runners and requests | `TypeOK`, `RunnerHeld`, `SettledRunsNowhere`, `NeverStolen`; 737,736 states |
| `pool_faults` | 2 experiments, 1 runner, one request at a time, 2 in all, 2 faults | `RunnerHeld`, `NoRunnerLeaked` and both liveness properties; 229,371 states |
| `pool_cancel`, `pool_queued`, `pool_probe` | 1 runner | violated: see Findings |

Two experiments are enough for one to wait for the other's runner and for a runner to be
given to the wrong one; three requests are a start of each and a stop, a poll or an upload,
or two starts of one experiment and a third request; two faults are a missed probe with a
crash, or a late initialize with a lost start. Deadlock is not checked: when the requests
are used up and everything is released, the pool is at rest.

Fairness (`FairSpec`): weak fairness of the scheduler's steps, of the reconciler's turn with
each runner, and of the health monitor's good probes, because these loops run for as long
as the Master does and every HTTP call they wait for has a timeout. Requests, outcomes,
faults and a late initialize get none. `QueuedDispatched` assumes that a runner is free
again and again, since no experiment need ever end. The liveness run uses no symmetry.

### Findings

* `pool_cancel`: `experiment_service.py:1084` says a stop of an experiment that is not
  running is "treat[ed] ... as cancel", but a start that is under way writes INITIALIZING
  (line 823), PREPARING and RUNNING over CANCELLED and the experiment runs.
* `pool_queued`: `assigned_runner_id` survives an attempt, so a poll (line 578) of a
  restarted experiment that waits in the queue takes over the status its old runner still
  reports, and it is never dispatched.
* `pool_probe`: a BUSY runner that misses one health probe becomes ERROR and then READY
  with `current_experiment_id` still set. The reconciler looks at BUSY rows only and an
  allocation wants no current experiment, so nothing in the background gives it back,
  whereas `runner_instance_service.py:676` leaves the case to the health monitor.

### Proofs

For every value of the constants that satisfies `PoolAssumption` and `NoneAssumption` (`None`
is not a terminal status), and so for any number of experiments, runners, concurrent requests
and faults.

`RunnerPoolProofs` proves `TypeOK`, `NeverStolen` and `BusyOccupied` (a BUSY row names an
experiment) from the inductive `IInv`. Its argument is `RowStep`: a step occupies one
runner, releases one, or writes one status other than BUSY. An allocation wants a runner
that holds no experiment, and a release only ever clears. `CallsFine` is the strengthening:
a poll writes terminal statuses only.

`RunnerPoolHeldProofs` proves `RunnerHeld`, `SettledRunsNowhere` and `NoRunnerLeaked`. None
of them is inductive, because a handler acts on what it read before: `Sound(e)` says what
the handlers in flight may still believe about an undisturbed experiment. Its parts:

* `StartsAlone`: beside a start there are only polls and probes, and only once it has its
  runner;
* `OneRunner`: the table, the runner's row and the handlers name the same runner;
* `StartPhase`: how far a start has come decides whether the runner holds or runs it;
* `OverRunsNowhere`: a handler that takes the experiment for finished is right, so the
  status it is about to write and the release it is about to make do no harm;
* `AtRest`: with no start at work, the experiment runs only where it is held and when it is
  RUNNING, and a hold without RUNNING is about to be released;
* `Reported`: a runner that started it reports that it runs or how it ended.

There is one lemma per action for a step that works on `e`. Any other step changes nothing
that `Sound(e)` speaks of (`Elsewhere`, by `Frame`). `SoundStep` combines them, and it is
where "unless the step disturbs `e`" is used.

The safety halves of the two liveness properties are theorems as well:

* `ReconcilerAdvances`: while a runner is BUSY with an experiment that is over there,
  `Distance(r, e)` (the steps of the reconciler's turn with it until the release) falls with
  every step of that turn, and no handler, loop or runner touches the turn, unless a fault
  happens. `Turns`, that a turn with `r` is only ever about `r` and some experiment, is the
  invariant it needs.
* `SchedulerAdvances`: the same of the scheduler's turn with the experiment it claimed
  (`Rest`), which it never exchanges for another.
* `DispatchingIsInHand`: an undisturbed experiment is DISPATCHING only while the scheduler has
  it in hand, so its turn's end is the end of DISPATCHING. Only a restart of the Master leaves
  one behind, which is what `recover_stale_dispatching` is for.

Only model-checked: `BusyRunnerReleased` and `QueuedDispatched` themselves, that is, that these
steps are enabled and taken (ENABLED, fairness), and that after the last fault no other comes.

`RunnerPool` and `RunnerTasks` are not composed. What `remote` may do is what the status of an
experiment does in `RunnerTasks` when the Master sends one request for it at a time. Not covered
by `remote` is a Redis of the runner that executes an enqueue and loses its reply: the runner
then reports a failure with the task in its queue, which `RunnerTasks` has as a fault.

## EventBus and Evolution

One evolution of the Master: its record, its individuals, the chains in Memory that it was
seeded from, its event bus and the SSE connections that read it. `Evolution` extends
`EventBus`, so a write of the record and the events it publishes are one step, as in the
code.

### State and actions

| Model | Code |
|---|---|
| `record`, `individual[i]` | `evolutions/<id>.json`, `evolutions/<id>/individuals/<id>.json` |
| `versions[k]` | the versions of chain `k` in Memory: whose acceptance wrote each |
| `call[c]` | where a request waits for Memory, the record it read at its start (`seen`), its individual, chain, ETag and version |
| `sequence`, `subscribed`, `queue[s]` | `_sequences`, `_subscribers` and the bounded queue of a subscriber |
| `stream[s]` | where the generator of a connection is, the result of `anext_task`, and what its client has made of the frames it was sent |
| `raced` | history: a score was compared with a best of the past, or its recording failed |

The storage client is synchronous, so a handler loses the event loop only while it waits for
Memory. `create`, `cancel`, `pause` and `resume` are one action each. `record_individual` is
`RecordBegin` then `RecordFinish` (or `RecordFails`); `accept_individual` is `AcceptBegin`, the
requests of `promote_evolved_chain` (`GetLatest`, `GetVersions`, `Put` with If-Match, and
`GetVersions` again after a 412, each of which may fail: `PromoteFails`) and `AcceptFinish`
(or `AcceptFails` between its two writes); `AcceptAgain` is the repeated accept of the winner;
`OtherVersion` is any other writer of the chain. A connection is `Watch` (the route reads the
snapshot), `Open` (the generator subscribes), `Taken`, `Fetch`, `Forward`, and at any point
`ClientLeaves` followed by `Close` (the finally block) or `Abandon` (there is none yet).
`publish` never loses the event loop; `PublishBoth` is the stretch of `record_individual` that
publishes two events.

Abstracted: the payload of an individual but its generation and primary score; of an event,
everything but what it says of status, best and accepted individual; the heartbeat, which
carries nothing; the listings and the Pareto front, which write nothing. Failed uploads of
`create` and the controls change nothing and are left out.

### Properties

* `TypeOK`.
* `InOrder`: a subscriber's queue is the newest events in the order they were published,
  whatever overflowed, and what it was sent before is older.
* `TornDown`: only an open connection keeps a queue. The exception is real: the snapshot's
  yield is outside the try statement, so a client that leaves there leaves its queue behind.
* `AcceptanceRecorded`: the record, the individual's flag and the version in Memory name the
  same winner, however accepts overlap, fail half-way or find an earlier one's version.
* `PromotedOnce`: simultaneous or repeated accepts of an individual, whose answers may have
  been lost, never write it twice in a row.
* `BestIsBest`: before an acceptance no settled individual beats the best one, unless a
  recording raced or failed.
* `DecisionsStand` (action property): a cancellation or an acceptance is taken back, or the
  generation lowered, only by a request that had read the record before it was last changed.
  That this does happen is what the `seen` of the model shows: `record_individual` writes
  the status it read before it waited, over a cancellation, and two accepts of different
  individuals that overlap both succeed.
* `CaughtUp`: a client that lost no event and has been sent everything knows the record as it
  is. Two exceptions are in its statement: an event published between the snapshot and the
  subscription is lost (`lost`), and no event mentions that an acceptance also replaces the
  best individual.

### Runs

| Run | Instance | Shows |
|---|---|---|
| `evolution` | 2 individuals with three possible evaluations (a better one of an earlier generation, a worse one of a later one, one without a score), 2 concurrent requests, 5 in all, 1 fault, 1 chain, 1 connection with a queue of 2; symmetric in individuals and requests | all eight properties; 1,012,968 states |

Two requests are enough for one to act on what the other has changed, five for a creation, two
recordings and two accepts; the client connects after `WatchFrom` = 4 requests, so that the
last requests' events reach it and overflow its queue: a larger window only repeats the same
interleavings. The queue is 2 instead of 64, so that `PublishBoth` fills it. Deadlock is not
checked: the requests are used up.

### Proofs

For every value of the constants that satisfies `BusAssumption` and `EvolutionAssumption`,
which are about constants only: any number of individuals, chains, requests, faults and
connections, queues of any size and scores in either direction.

`EventBusProofs` proves what the bus does by itself: `BusInv` (the queue of a subscriber is
`Newest`, what a stream has and was sent is `Ordered` before it, and `TornDown`) is kept by
every step of a stream (`BusStep`) and by publishing one or two events. It also defines what a
client *will* know: `Known(q, h, view, f, v)` says that after the queue `q` and the event `h` in
hand the client takes field `f` to be `v`, and lemmas say how an event appended, one dropped by
an overflow and one taken affect it.

`EvolutionProofs` proves `IInv`, and with it all eight properties. Its parts: `CallOK` (what a
request may still believe: a PUT whose ETag is still the latest follows a version that is not
its own individual's, and a promoted request's version is its own), `RecordOK` and `BestOK`,
and `Informed` (every client that has missed nothing will know the record: the strengthening of
`CaughtUp` to queues that are not empty). There is one lemma per action and part, and
`DecisionsStand` follows from `CallOK` in the same way.

Nothing of these modules is only model-checked.

## Preparation

The life of experiments from the request that creates them to the run, with the workflow
consumer and `drop_all_experiments`.

### State and actions

| Model | Code |
|---|---|
| `row[e]` | `ExperimentModel`: status, whether `config["experiment_files_path"]` is set, and whether `data_path` is the dataset or the prefix of the prepared files |
| `uploaded`, `data` | object storage: `experiments/<id>/` and `data/` |
| `creator[e]` | how far the request that creates `e` has come |
| `topic`, `next`, `committed`, `alive` | the configuration topic, the consumer's position and what it has committed, and its task |
| `job` | what `_handle_experiment_config` carries from one await to the next |
| `starter[e]`, `stopper[c, e]`, `drop` | `start_experiment_forward`, `stop_experiment_forward` (called by a user or by a drop) and `drop_all_experiments` |
| `runs[e]` | how many runners execute `e` |
| `harmed`, `crossed` | history: experiments a fault has hit; those that were started while their handler was at work |
| `overwritten` | history: those whose RUNNING was overwritten while a runner executed them, by their handler or by a user's cancellation |
| `overtaken` | history: those a start of which was under way when a drop listed the experiments, or began while it stopped them |

| Code | Actions |
|---|---|
| `POST /ml` | `CreateMl`, `Publish` |
| `POST /prompts`, `/chains`, `/carl-chains` | `CreatePrompt` or `CreateChain`, `BuildPrompt` or `BuildChain`, `RecordDirect` |
| `_handle_experiment_config` | `Take`, `Initialize`, `BuildFiles`, `RecordFiles`, `RecordPath`, `RecordStatus`, `RecordFailure` |
| consumer task, process | `ConsumerEnds`, `Restart` (with redelivered or skipped messages) |
| start, stop | `Start`, `StartInitializing`, `Initialized`, `Started`; `Stop`, `StopReads`, `StopRunner`, `StopCancels` |
| `drop_all_experiments` | `DropLists`, `DropStops`, `DropRows`, `DropData` |

An action is one query of the database or one request to a runner with the decisions that
follow it. Every update of a row may be lost, as `update_experiment` reports an error by a
result that the callers here do not look at. The storage client and the builders are
synchronous, so building and uploading is one step with three outcomes. Abstracted: what is in
the files; which runner; runs that end by themselves and a second start in flight, which are
`RunnerPool`'s; time.

### Properties

* `TypeOK`.
* `Ready`: an experiment with a files path or the prepared prefix has its files in storage,
  and one that is PREPARED has both once its handler is done with it, unless a fault hit it.
* `OneRun`: two runners execute an experiment at the same time only if a fault hit it or it
  was started while its handler was at work. Why a redelivered message does not do it is not
  obvious: it sets the experiment back to INITIALIZING, but its `data_path` is already the
  prefix, which is no dataset, so the handler fails and the experiment ends where it cannot be
  started.
* `DroppedStopped`: no runner executes an experiment whose row the drop deleted. There are three
  exceptions, each of them real (without any one of them TLC finds a run):
  a fault hit it (`harmed`); a start of it overlapped the drop (`overtaken`), so that it was listed
  before it ran and is cancelled, not stopped; or its RUNNING was overwritten while it ran
  (`overwritten`). The last needs no fault that hits the experiment: its message is published twice,
  it is prepared from the first copy, started, and listed as running; the handler of the second copy
  writes INITIALIZING over RUNNING; the drop's stop reads INITIALIZING and only cancels; the row is
  deleted and the runner goes on. A user's stop that read the status before the experiment ran
  does the same with CANCELLED. What the drop itself writes is no excuse: an experiment that says
  RUNNING as long as it runs is stopped at its runner before its row goes.
* `Settles` (liveness): every experiment leaves PENDING and every handler ends, unless a fault
  hit it or the consumer's task has ended, or it is a prompt whose dataset could not be had,
  which its route leaves PENDING.

Two more observations: a redelivered message of a prepared experiment ends in
PREPARATION_FAILED, and `delete_all_experiment_data` lists `data/` and `experiments/` without
recursion, so the experiments' files stay in storage (`DropData`).

### Runs

| Run | Instance | Shows |
|---|---|---|
| `preparation` | 2 experiments, one prepared by the consumer and one by its route, 2 requests to start, stop or drop them, 1 fault | the five properties; 1,184,975 states |

One fault is a lost write, a lost, repeated or skipped message, an ended consumer or a restart,
and two requests are a start with a stop, a drop or another start. Deadlock is
not checked: the requests are used up.

Fairness (`FairSpec`): weak fairness of the consumer's next message, of its handler and of each
route's request, because the Master's event loop runs whatever is ready and every call they
make returns or times out. Starts, stops, drops, the outcome of a build and the faults have
none.

### Proofs

`PreparationProofs` proves `IInv` and with it `TypeOK`, `Ready`, `OneRun` and `DroppedStopped`,
for any number of experiments, requests and faults. `Facts(e)` says how row, files, handler,
starts, stops and runs of `e` agree:

* `Stored`: what the row and the handlers say about files is in storage;
* `Prepared`: what the handler of an experiment that no fault hit has yet to write;
* `Used` and `Spent`: an undisturbed experiment (neither `harmed` nor `crossed`) that was started
  has the prefix, so a handler that takes its message again can only fail, and once it has run it is
  in no status it could be started from.

`Messages` says that a message is only ever about an experiment whose request is done. There is
one lemma per action for the experiment it is about, and one that any other action leaves
`Facts(e)` alone. The assumptions are those on the constants.

`NothingDroppedRuns` (`DroppedStopped`) adds `Followed(e)` to it: the row of a calm experiment (none of
the three exceptions) says RUNNING for as long as a runner executes it; no start of it is under way
while a drop stops experiments; and if it runs then, the drop has listed it as running and
either has yet to come to it or is at its stop, ahead of the runner's answer. So nothing is left
running when the rows go. It is proved by one lemma per group of actions: a handler or a user's
cancellation that writes over RUNNING ends the calm, a start finds no status to start from, the drop's
cancellation comes only after the runner has answered.

Two more theorems are the safety half of `Settles` for what the consumer prepares:

* `NothingForgotten`: an experiment that no fault has hit and that `POST /ml` left PENDING is
  still with its request, has a message the consumer has yet to take, or is in the hands of the
  handler. It is proved together with `IInv`, as `Awaited(e)` for each experiment;
* `ConsumerAdvances`: `Distance(k)` is what the consumer and its handler have to do until they
  are done with message `k`. Each of their steps lowers it for the message in hand and all
  behind it, no other step touches it or the messages, and only a restart puts it off.

Only model-checked: `Settles` itself, that is, that these steps are enabled and taken, and the
requests of the other routes, whose experiments are prepared by a straight line of steps.

## ChainEditor

The visual builder of a CARL chain in one browser session, the experiment it submits, and the
chain its program evaluates after mutations.

### State and actions

| Model | Code |
|---|---|
| `steps` | `steps_state`; a step's `id` tells it from the others, `text` is what its title and form fields say, then its number, dependencies and frozen flag |
| `choice` | the label in `selected_step_dropdown`, whose number the handlers parse |
| `editing`, `form` | `current_editing_step`, and the open form with the dependencies it offers |
| `pending` | the browser has yet to send the drop-down's change event |
| `submitted`, `program` | the configuration of the created experiment, and the chain its program evaluates |
| `ids`, `saves`, `late` | how many steps were told apart and saved, and (history) whether a form was saved while a change event was on its way |

Each click is one action, named like its handler: `AddStep`, `EditStep` (also the change event,
which opens the chosen step), `ToggleFreeze`, `RemoveStep`, `MoveStepUp`, `MoveStepDown`,
`DuplicateStep`, `SaveStep`, `CancelStep`, `ApplySteps` (a template, or the JSON editor with
whatever numbers its text gives the steps; a text without steps closes the form, one that is no
JSON leaves it open for no step), `Clean`, and `Select` for the user's choice in the
drop-down. `Create` is the submission with the route's check (`Accepted`). `Evolve` is the
generated program after a mutation by the language model, with `_apply_frozen_steps`.

Handlers of Gradio get the state as it is when they run, so what can go wrong is the order of
events: a move or a copy changes the drop-down's value, and until the change event it causes
has come, the form still shows the step it was opened for, whose index now holds another.

Abstracted: the fields of the step types (one `text` stands for all a form says); the preset
texts; the layout; conditional branches. The session goes on after `Create` but is not followed
further.

### Properties

* `TypeOK`.
* `SavesOwn`: a form is saved to the step it was opened for, unless it is saved ahead of the
  change event (`late`). The exception is real.
* `DependenciesFollow` (action property): adding, freezing, removing, copying, moving and
  saving keep the chain numbered from 1 with dependencies among its steps, and the first three
  leave every step depending on the same steps, as far as they are left.
* `FrozenKept`: whatever a mutation does with the numbers (repeats, drops, reorders), every
  frozen step is in the evaluated chain as submitted, and whatever else has its number there is
  another copy of it, in `full_chain` mode.
* `CollidingDropped`: a frozen step is in the evaluated chain once. The code does not keep it: see
  Findings.

What the model also shows, without a claim in the code that it contradicts: copies and moves
leave dependencies by number, so a step can come to depend on itself or on a later one, and the
form submits it (`validate_chain_for_evolution` is never called); a removal does not renumber
the branches of a conditional step; in `single_step` mode nothing restores the others.

### Runs

| Run | Instance | Shows |
|---|---|---|
| `editor` | a template with a frozen step, a JSON text with the numbers 3 and 1, chains of up to 3 steps, 1 save, chain size limits 0 (none) and 2, mutations of up to 2 steps | `TypeOK`, `SavesOwn`, `FrozenKept`, `DependenciesFollow`; 1,153,005 states |
| `editor_frozen` | as `editor` | `CollidingDropped` is violated: see Findings |

Three steps are the least in which a removal shifts one dependency, drops another and keeps a
third. `MaxIds` = 3 bounds the steps told apart since the chain was last loaded or cleaned. One
save is enough for a form to overwrite a step; its effect on later saves is the `text` it
leaves. Deadlock is not checked: a session may simply end.

### Findings

* `editor_frozen`: the docstring of `_apply_frozen_steps` (`chain_experiment_builder.py:1151`) says that
  an evolved step whose number collides with a frozen step's is dropped. The loop below it (lines
  1173-1174) puts the frozen original in its place, once for each step that has the number. In the
  run, a chain with step 2 frozen is submitted, a mutation numbers two steps 2, and the evaluated
  chain has the frozen step twice.

### Proofs

`ChainEditorProofs` proves the four properties of the run `editor` for chains and mutations of any length and
sessions of any number of clicks. First, what `RemoveAt`, `InsertAt` and a swap do to the steps
and their numbers (`RemoveFacts`, `DuplicateFacts`, `SwapFacts`: which step stands where, with
which dependencies).

`IInv` has `ToldApart` (identities are distinct and the next one is new) and `FormFits` (while no
event is on its way, the form shows the step it will be saved to and offers only numbers that
steps have), one lemma per click. `DependenciesFollow` speaks of the steps that change the chain
and is proved from it: `RemoveStepFollows` shows that shifting the numbers behind a removed step
is undone by `From`, which says where each remaining step came from.

`ExperimentInv` adds `TypeOK`, `Recorded` (what was submitted stays what the editor had, which
no longer changes) and `FrozenKept`. That `_apply_frozen_steps` gives the frozen steps back is
proved in the order of its definition: `OriginalFacts` (the submitted step with a number, by the
greatest of its positions), `RestoredFacts` (overwriting and adding leave exactly the submitted
steps under frozen numbers) and `InOrderFacts` (the stable sort by number is a permutation: the
place of a step counts those before it, different steps have different places, and as many places
as steps leave none empty). `Least`, from the well-founded order of the finite sets, stands in
for an induction over the chain.

`ChainEditorAssumption` restricts the bounds and the loaded chains; `NoneAssumption` says that
`None` is no experiment, form or program.

Nothing of this module is only model-checked.

## Hazards without a property

* `runner_api/src/services/experiment_service.py:804`: a task cancelled by its own endpoint is missing
  from the list the clean-up works from. It follows from one line of `CancelWrite`; see the findings
  of `RunnerTasks`.
* `runner_api/src/services/experiment_service.py:296`: a feedback file is recorded as uploaded
  before its upload has succeeded. Uploads of results are not modelled.
* `master_api/src/services/database_service.py:215`: PREPARING is not counted among the
  statuses that occupy a slot, which matters only with more than one experiment per runner.

## Not modelled

* Runner: status queries with their metrics, downloads and uploads, chain feedback, reports and
  plots, heartbeats and worker names, sandbox internals. They are I/O or transformations whose
  results no control decision of the modelled parts reads.
* Master: the concurrency mode (a limit above one experiment per runner), the Kafka status
  cache, which nothing writes, the unused `stop_experiment`; results, examples, visualization,
  chain diffs and feedback, which read object storage; Docker and health probes but for what
  they write into the runners table; the stream of one experiment (`experiment_sse.py`), which
  polls and compares; Memory's search, skills and templates.
* Folder constructor: everything but the restoration of frozen steps fills templates with text.
* Web UI: the older chain form (`create_chain_experiment.py`), an earlier version of the same
  builder, whose removal leaves dependencies as they are; the prompt and experiment forms,
  which collect one request; and the pages that read the Master API.
* Deployment: shell and compose generation. It fixes that every runner has a Redis database of
  its own.
