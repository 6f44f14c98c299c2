----------------------------- MODULE RunnerTasks -----------------------------
(***************************************************************************)
(* The task queue of one Runner API: the Redis records that                *)
(* services/task_repository.py keeps, the experiment operations of         *)
(* services/experiment_service.py that write the same records, and the     *)
(* background worker of workers/task_worker.py that executes the tasks.    *)
(*                                                                         *)
(* Everything runs in asyncio: a handler keeps the event loop between two  *)
(* awaits and loses it at each await.  One action is therefore the stretch *)
(* of a handler up to and including one Redis round trip; whatever a       *)
(* handler carries across an await is kept in `call` (API requests) or in  *)
(* `pc`, `job`, `mem` and `current` (the worker).                          *)
(***************************************************************************)
EXTENDS Naturals, Sequences, FiniteSets

CONSTANTS
    Tasks,        \* the ids (UUIDs) tasks can get
    Experiments,
    Workers,      \* one per Runner API process that uses this Redis database
    Clients,      \* concurrent API requests
    ExpOf,        \* task id -> the experiment it is created for
    RunTasks,     \* ids created with task_type RUN_EXPERIMENT
    None,
    MaxRequests,  \* bound on API requests
    MaxFaults,    \* bound on crashes, shutdowns and Redis errors
    PutStatuses   \* the statuses PUT /tasks/{id} requests carry

ASSUME TasksAssumption ==
    /\ ExpOf \in [Tasks -> Experiments]
    /\ RunTasks \subseteq Tasks
    /\ None \notin Tasks \cup Experiments
    /\ Workers \cap Clients = {}
    /\ MaxRequests \in Nat /\ MaxFaults \in Nat
    /\ PutStatuses \subseteq {"queued", "running", "completed", "failed", "terminated", "cancelled"}

VARIABLES
    hash,       \* status field of the hash task:{id}, "absent" when there is no key
    delFlag,    \* ids whose hash has delete_after_cancel = "1"
    allTasks,   \* the set all_tasks
    expTasks,   \* ids in the list experiment:{ExpOf[id]}:tasks
    queue,      \* ids in the list task_queue, whose order is that of `created`
    created,    \* every id add_enqueue_ops has pushed, oldest first
    expStatus,  \* status field of experiment:{id}:status
    stopReq,    \* workers whose hash has stop_requested = "1"
    pc,         \* next await of the worker's coroutine
    job,        \* the task id the worker's coroutine carries
    mem,        \* status field of its in-memory Task
    current,    \* TaskWorker.current_task
    life,       \* "up", "stopping" (_running = False), "aborted" (CancelledError raised)
    call,       \* what an API request, or TaskWorker.stop(), carries across an await
    requests, faults,
    acked,      \* history: ids a cancellation was written for, until the key is
                \* deleted or update_task gives it another status
    windowed,   \* history: ids a cancellation was written for inside LostWindow
    excused     \* history: ids a dying worker dropped, or update_task rewrote

redis == <<hash, delFlag, allTasks, expTasks, queue, created, expStatus, stopReq>>
worker == <<pc, job, mem, current, life>>
history == <<acked, windowed, excused>>
bounds == <<requests, faults>>
vars == <<redis, worker, call, bounds, history>>

TaskStatus == {"queued", "running", "completed", "failed", "terminated", "cancelled"}
Terminal == {"completed", "failed", "terminated", "cancelled"}
ExperimentStatus == {"absent", "initialized", "running"} \cup Terminal

InTry == {"check1", "mark", "check2", "run"}            \* inside the try of _execute_task
InFinally == {"final", "persist", "del", "delx", "expst"}
Holding == {"claim"} \cup InTry \cup InFinally
PC == {"down", "top", "pop"} \cup Holding

Callers == Clients \cup Workers
CallOps == {"idle", "start", "start_failed", "stop_list", "stop", "stop_set", "cleanup",
            "drop", "flag", "cancel_read", "cancel", "update"}
Calls == [op : CallOps, arg : Tasks \cup Experiments \cup {None},
          ids : SUBSET Tasks, todo : SUBSET Tasks]
Batch(op, arg, ids, todo) == [op |-> op, arg |-> arg, ids |-> ids, todo |-> todo]
Step(op, arg) == Batch(op, arg, {}, {})
Idle == Step("idle", None)
Created == {created[i] : i \in DOMAIN created}

Init ==
    /\ hash = [t \in Tasks |-> "absent"]
    /\ delFlag = {} /\ allTasks = {} /\ expTasks = {} /\ queue = {} /\ created = <<>>
    /\ expStatus = [e \in Experiments |-> "absent"]
    /\ stopReq = {}
    /\ pc = [w \in Workers |-> "top"]
    /\ job = [w \in Workers |-> None]
    /\ mem = [w \in Workers |-> "queued"]
    /\ current = [w \in Workers |-> None]
    /\ life = [w \in Workers |-> "up"]
    /\ call = [c \in Callers |-> Idle]
    /\ requests = 0 /\ faults = 0
    /\ acked = {} /\ windowed = {} /\ excused = {}

-----------------------------------------------------------------------------
(* Pieces several handlers share.                                          *)

\* add_enqueue_ops: one pipeline writes the hash, the index and both lists.
Enqueue(t) ==
    /\ t \notin Created
    /\ hash' = [hash EXCEPT ![t] = "queued"]
    /\ allTasks' = allTasks \cup {t}
    /\ expTasks' = expTasks \cup {t}
    /\ queue' = queue \cup {t}
    /\ created' = Append(created, t)

\* The stretches of the worker in which it has decided what to write but not
\* written it: the whole-hash HSET of persist_task_state then overwrites the status.
LostWindow(t) ==
    \E w \in Workers :
        /\ job[w] = t
        /\ \/ pc[w] = "mark"
           \/ pc[w] = "persist" /\ mem[w] # "cancelled"

\* HSET of a cancelled status, whatever the hash holds by then.
SetCancelled(t) ==
    /\ hash' = [hash EXCEPT ![t] = "cancelled"]
    /\ acked' = acked \cup {t}
    /\ windowed' = IF LostWindow(t) THEN windowed \cup {t} ELSE windowed

\* DEL of the hashes of ids, with the SREM of the same pipeline.
DropKeys(ids) ==
    /\ hash' = [t \in Tasks |-> IF t \in ids THEN "absent" ELSE hash[t]]
    /\ delFlag' = delFlag \ ids
    /\ allTasks' = allTasks \ ids
    /\ acked' = acked \ ids

Request == requests < MaxRequests /\ requests' = requests + 1 /\ UNCHANGED faults
Fault == faults < MaxFaults /\ faults' = faults + 1 /\ UNCHANGED requests

Begin(c, step) == Request /\ call[c] = Idle /\ call' = [call EXCEPT ![c] = step]
Continue(c, op, step) == call[c].op = op /\ call' = [call EXCEPT ![c] = step]

-----------------------------------------------------------------------------
(* Task endpoints: task_repository.py behind api/routes/tasks.py.          *)

CreateTask(t) ==
    /\ Request
    /\ Enqueue(t)
    /\ UNCHANGED <<delFlag, expStatus, stopReq, worker, call, history>>

\* cancel_task, and the one TaskWorker.stop() awaits: read the hash, and give up
\* when there is none or its status is terminal ...
CancelRead(c, t) ==
    /\ hash[t] \in TaskStatus \ Terminal
    /\ \/ c \in Clients /\ Begin(c, Step("cancel", t))
       \/ call[c] = Step("cancel_read", t) /\ call' = [call EXCEPT ![c] = Step("cancel", t)]
          /\ UNCHANGED bounds
    /\ UNCHANGED <<redis, worker, history>>

CancelRefused(c, t) ==
    /\ hash[t] \notin TaskStatus \ Terminal
    /\ call[c] = Step("cancel_read", t)
    /\ call' = [call EXCEPT ![c] = Idle]
    /\ UNCHANGED <<redis, worker, bounds, history>>

\* ... then one pipeline, which does not look again.
CancelWrite(c, t) ==
    /\ call[c].arg = t
    /\ Continue(c, "cancel", Idle)
    /\ SetCancelled(t)
    /\ queue' = queue \ {t}
    /\ expTasks' = expTasks \ {t}
    /\ UNCHANGED <<delFlag, allTasks, created, expStatus, stopReq, worker, bounds, excused>>

\* delete_task: what it does depends on the status it reads first.
DeleteRead(c, t) ==
    /\ hash[t] # "absent"
    /\ Begin(c, Step(IF hash[t] = "running" THEN "flag" ELSE "drop", t))
    /\ UNCHANGED <<redis, worker, history>>

DeleteFlag(c, t) ==
    /\ call[c].arg = t
    /\ Continue(c, "flag", Idle)
    /\ SetCancelled(t)
    /\ delFlag' = delFlag \cup {t}
    /\ UNCHANGED <<allTasks, expTasks, queue, created, expStatus, stopReq, worker, bounds, excused>>

\* Mutant of DeleteDrop: the LREM of the work queue is forgotten.
DeleteDropKeepsQueue(c, t) ==
    /\ call[c].arg = t
    /\ Continue(c, "drop", Idle)
    /\ DropKeys({t})
    /\ expTasks' = expTasks \ {t}
    /\ UNCHANGED <<queue, created, expStatus, stopReq, worker, bounds, windowed, excused>>

DeleteDrop(c, t) ==
    /\ call[c].arg = t
    /\ Continue(c, "drop", Idle)
    /\ DropKeys({t})
    /\ queue' = queue \ {t}
    /\ expTasks' = expTasks \ {t}
    /\ UNCHANGED <<created, expStatus, stopReq, worker, bounds, windowed, excused>>

\* update_task: any status over any status.
UpdateRead(c, t) ==
    /\ hash[t] # "absent"
    /\ Begin(c, Step("update", t))
    /\ UNCHANGED <<redis, worker, history>>

UpdateWrite(c, t, status) ==
    /\ call[c].arg = t
    /\ Continue(c, "update", Idle)
    /\ hash' = [hash EXCEPT ![t] = status]
    /\ acked' = acked \ {t}
    /\ excused' = excused \cup {t}
    /\ UNCHANGED <<delFlag, allTasks, expTasks, queue, created, expStatus, stopReq, worker,
                   bounds, windowed>>

-----------------------------------------------------------------------------
(* Experiment endpoints: services/experiment_service.py.                   *)

\* initialize_experiment: after the download, an HSET that looks at nothing.
InitializeExperiment(e) ==
    /\ Request
    /\ expStatus' = [expStatus EXCEPT ![e] = "initialized"]
    /\ UNCHANGED <<hash, delFlag, allTasks, expTasks, queue, created, stopReq, worker, call, history>>

\* The statuses start_experiment lets through.
Startable == {"initialized", "failed"}

\* start_experiment: the status is read and checked before the config is loaded in a
\* thread ...
StartRead(c, e) ==
    /\ expStatus[e] \in Startable
    /\ Begin(c, Step("start", e))
    /\ UNCHANGED <<redis, worker, history>>

\* ... and not again before the MULTI that sets RUNNING and enqueues the task.  The
\* reply of the MULTI may be lost after Redis has applied it.
StartCommit(c, e, t) ==
    /\ call[c].arg = e
    /\ t \in RunTasks /\ ExpOf[t] = e
    /\ Enqueue(t)
    /\ expStatus' = [expStatus EXCEPT ![e] = "running"]
    /\ \/ Continue(c, "start", Idle) /\ UNCHANGED bounds
       \/ Continue(c, "start", Step("start_failed", e)) /\ Fault
    /\ UNCHANGED <<delFlag, stopReq, worker, history>>

StartNotApplied(c, e) ==
    /\ call[c].arg = e
    /\ Continue(c, "start", Step("start_failed", e))
    /\ Fault
    /\ UNCHANGED <<redis, worker, history>>

StartFailed(c, e) ==
    /\ call[c].arg = e
    /\ Continue(c, "start_failed", Idle)
    /\ expStatus' = [expStatus EXCEPT ![e] = "failed"]
    /\ UNCHANGED <<hash, delFlag, allTasks, expTasks, queue, created, stopReq, worker, bounds,
                   history>>

TasksOf(e) == {t \in expTasks : ExpOf[t] = e}

\* stop_experiment: CANCELLED first, then the list of tasks, then one read and one
\* write per task, and the LREMs at the end.
StopBegin(c, e) ==
    /\ Begin(c, Step("stop_list", e))
    /\ expStatus' = [expStatus EXCEPT ![e] = "cancelled"]
    /\ UNCHANGED <<hash, delFlag, allTasks, expTasks, queue, created, stopReq, worker,
                   history>>

StopList(c, e) ==
    /\ call[c].arg = e
    /\ Continue(c, "stop_list",
                IF TasksOf(e) = {} THEN Idle
                ELSE Batch("stop", None, TasksOf(e), TasksOf(e)))
    /\ UNCHANGED <<redis, worker, bounds, history>>

\* Mutant of StopRead: only the running tasks are cancelled.
StopReadRunningOnly(c, t) ==
    /\ t \in call[c].todo
    /\ Continue(c, "stop",
                IF hash[t] = "running"
                THEN Batch("stop_set", t, call[c].ids, call[c].todo \ {t})
                ELSE Batch("stop", None, call[c].ids, call[c].todo \ {t}))
    /\ UNCHANGED <<redis, worker, bounds, history>>

StopRead(c, t) ==
    /\ t \in call[c].todo
    /\ Continue(c, "stop",
                IF hash[t] \in {"queued", "running"}
                THEN Batch("stop_set", t, call[c].ids, call[c].todo \ {t})
                ELSE Batch("stop", None, call[c].ids, call[c].todo \ {t}))
    /\ UNCHANGED <<redis, worker, bounds, history>>

StopSet(c, t) ==
    /\ call[c].arg = t
    /\ Continue(c, "stop_set", Batch("stop", None, call[c].ids, call[c].todo))
    /\ SetCancelled(t)
    /\ UNCHANGED <<delFlag, allTasks, expTasks, queue, created, expStatus, stopReq, worker,
                   bounds, excused>>

StopDrop(c) ==
    /\ call[c].todo = {}
    /\ Continue(c, "stop", Idle)
    /\ queue' = queue \ call[c].ids
    /\ UNCHANGED <<hash, delFlag, allTasks, expTasks, created, expStatus, stopReq, worker,
                   bounds, history>>

\* cleanup_experiment: the list is read in one round trip and its keys are deleted in
\* the next, together with the list and the status as they are by then.
CleanupRead(c, e) ==
    /\ Begin(c, Batch("cleanup", e, TasksOf(e), {}))
    /\ UNCHANGED <<redis, worker, history>>

CleanupWrite(c, e) ==
    /\ call[c].arg = e
    /\ Continue(c, "cleanup", Idle)
    /\ DropKeys(call[c].ids)
    /\ queue' = queue \ call[c].ids
    /\ expTasks' = expTasks \ TasksOf(e)
    /\ expStatus' = [expStatus EXCEPT ![e] = "absent"]
    /\ UNCHANGED <<created, stopReq, worker, bounds, windowed, excused>>

\* An exception, or the death of its process, ends a request between two round trips.
CallDies(c) ==
    /\ c \in Clients /\ call[c] # Idle
    /\ Fault
    /\ call' = [call EXCEPT ![c] = Idle]
    /\ UNCHANGED <<redis, worker, history>>

-----------------------------------------------------------------------------
(* The background worker: workers/task_worker.py.                          *)

Goto(w, from, to) == pc[w] = from /\ pc' = [pc EXCEPT ![w] = to]

\* Top of the loop of start(): _running, then the stop flag.
StopCheck(w) ==
    /\ Goto(w, "top", IF life[w] # "up" \/ w \in stopReq THEN "down" ELSE "pop")
    /\ UNCHANGED <<redis, job, mem, current, life, call, bounds, history>>

\* Mutant of IsOldest: the end that was pushed last.
IsNewest(t) ==
    \E i \in DOMAIN created :
        created[i] = t /\ \A j \in (i + 1)..Len(created) : created[j] \notin queue

\* BRPOP takes the oldest id of the list.
IsOldest(t) ==
    \E i \in DOMAIN created :
        created[i] = t /\ \A j \in 1..(i - 1) : created[j] \notin queue

\* Mutant of Pop: the task is read off the end of the list but left in it.
PopLeavesInQueue(w, t) ==
    /\ t \in queue /\ IsOldest(t)
    /\ Goto(w, "pop", "claim")
    /\ job' = [job EXCEPT ![w] = t]
    /\ UNCHANGED <<redis, mem, current, life, call, bounds, history>>

Pop(w, t) ==
    /\ t \in queue /\ IsOldest(t)
    /\ Goto(w, "pop", "claim")
    /\ queue' = queue \ {t}
    /\ job' = [job EXCEPT ![w] = t]
    /\ UNCHANGED <<hash, delFlag, allTasks, expTasks, created, expStatus, stopReq, mem, current,
                   life, call, bounds, history>>

PopTimesOut(w) ==
    /\ queue = {}
    /\ Goto(w, "pop", "top")
    /\ UNCHANGED <<redis, job, mem, current, life, call, bounds, history>>

\* Mutant of Claim: whatever was popped is executed.
ClaimUnread(w) ==
    /\ Goto(w, "claim", "check1")
    /\ mem' = [mem EXCEPT ![w] = hash[job[w]]]
    /\ current' = [current EXCEPT ![w] = job[w]]
    /\ UNCHANGED <<redis, job, life, call, bounds, history>>

\* The second await of claim_next_task.  A task that is CANCELLED by now is left, and so
\* is one whose key is gone (a HSET after the DEL leaves no hash that parses); any other
\* starts executing.
Claim(w) ==
    /\ pc[w] = "claim"
    /\ IF hash[job[w]] = "cancelled" \/ job[w] \notin allTasks
       THEN /\ Goto(w, "claim", "top")
            /\ job' = [job EXCEPT ![w] = None]
            /\ UNCHANGED <<mem, current>>
       ELSE /\ Goto(w, "claim", "check1")
            /\ mem' = [mem EXCEPT ![w] = hash[job[w]]]
            /\ current' = [current EXCEPT ![w] = job[w]]
            /\ UNCHANGED job
    /\ UNCHANGED <<redis, life, call, bounds, history>>

\* is_task_cancelled, before and after RUNNING is written.
CheckCancelled(w, from, to) ==
    /\ pc[w] = from
    /\ IF hash[job[w]] = "cancelled"
       THEN Goto(w, from, "final") /\ mem' = [mem EXCEPT ![w] = "cancelled"]
       ELSE Goto(w, from, to) /\ UNCHANGED mem
    /\ UNCHANGED <<redis, job, current, life, call, bounds, history>>

\* persist_task_state: HSET of every field from the in-memory Task.
PersistTaskState(w, status) == hash' = [hash EXCEPT ![job[w]] = status]

MarkRunning(w) ==
    /\ Goto(w, "mark", "check2")
    /\ mem' = [mem EXCEPT ![w] = "running"]
    /\ PersistTaskState(w, "running")
    /\ UNCHANGED <<delFlag, allTasks, expTasks, queue, created, expStatus, stopReq, job,
                   current, life, call, bounds, history>>

\* What a handler can leave in task.status of its own accord.  run_experiment never
\* reports timed_out, so TERMINATED comes from skills only; CANCELLED comes from the
\* word "cancel" in the error output of run.py.
Outcome(t) ==
    IF t \in RunTasks THEN {"completed", "failed", "cancelled"}
    ELSE {"completed", "failed", "terminated"}

HandlerReturns(w, status) ==
    /\ Goto(w, "run", "final")
    /\ status \in Outcome(job[w])
    /\ mem' = [mem EXCEPT ![w] = status]
    /\ UNCHANGED <<redis, job, current, life, call, bounds, history>>

\* Mutant of CancelPoll: the poll looks for another status.
CancelPollTerminated(w) ==
    /\ Goto(w, "run", "final")
    /\ job[w] \in RunTasks /\ hash[job[w]] = "terminated"
    /\ mem' = [mem EXCEPT ![w] = "cancelled"]
    /\ UNCHANGED <<redis, job, current, life, call, bounds, history>>

\* run_experiment polls cancel_check while run.py lives, and kills it.
CancelPoll(w) ==
    /\ Goto(w, "run", "final")
    /\ job[w] \in RunTasks /\ hash[job[w]] = "cancelled"
    /\ mem' = [mem EXCEPT ![w] = "cancelled"]
    /\ UNCHANGED <<redis, job, current, life, call, bounds, history>>

\* Mutant of ReadWasCancelled: the outcome of the handler stands.
KeepOutcome(w) ==
    /\ Goto(w, "final", "persist")
    /\ UNCHANGED <<redis, job, mem, current, life, call, bounds, history>>

\* The finally block: read whether the task was cancelled meanwhile ...
ReadWasCancelled(w) ==
    /\ Goto(w, "final", "persist")
    /\ mem' = [mem EXCEPT ![w] = IF hash[job[w]] = "cancelled" THEN "cancelled" ELSE @]
    /\ UNCHANGED <<redis, job, current, life, call, bounds, history>>

\* ... persist the final state ...
PersistFinal(w) ==
    /\ Goto(w, "persist", "del")
    /\ PersistTaskState(w, mem[w])
    /\ current' = [current EXCEPT ![w] = None]
    /\ UNCHANGED <<delFlag, allTasks, expTasks, queue, created, expStatus, stopReq, job, mem,
                   life, call, bounds, history>>

\* ... delete the task when that was asked for while it ran (_maybe_delete_after_cancel) ...
DeleteAfterCancelRead(w) ==
    /\ pc[w] = "del"
    /\ Goto(w, "del", IF job[w] \in delFlag /\ hash[job[w]] = "cancelled" THEN "delx" ELSE "expst")
    /\ UNCHANGED <<redis, job, mem, current, life, call, bounds, history>>

DeleteAfterCancel(w) ==
    /\ Goto(w, "delx", "expst")
    /\ DropKeys({job[w]})
    /\ expTasks' = expTasks \ {job[w]}
    /\ UNCHANGED <<queue, created, expStatus, stopReq, job, mem, current, life, call, bounds,
                   windowed, excused>>

\* Mutant of ReportOutcome: a failed run is not reported.
ReportSuccess(w) ==
    IF job[w] \in RunTasks /\ mem[w] \in Terminal \ {"failed"}
    THEN expStatus' = [expStatus EXCEPT ![ExpOf[job[w]]] = mem[w]]
    ELSE UNCHANGED expStatus

\* ... and report the outcome of a RUN_EXPERIMENT task (_update_experiment_status_after_run).
ReportOutcome(w) ==
    IF job[w] \in RunTasks /\ mem[w] \in Terminal
    THEN expStatus' = [expStatus EXCEPT ![ExpOf[job[w]]] = mem[w]]
    ELSE UNCHANGED expStatus

UpdateExperiment(w) ==
    /\ Goto(w, "expst", IF life[w] = "aborted" THEN "down" ELSE "top")
    /\ ReportOutcome(w)
    /\ job' = [job EXCEPT ![w] = None]
    /\ UNCHANGED <<hash, delFlag, allTasks, expTasks, queue, created, stopReq, mem, current,
                   life, call, bounds, history>>

\* stop_worker: the flag is set and nothing clears it.
StopWorker(w) ==
    /\ Request
    /\ w \notin stopReq
    /\ stopReq' = stopReq \cup {w}
    /\ UNCHANGED <<hash, delFlag, allTasks, expTasks, queue, created, expStatus, worker, call, history>>

-----------------------------------------------------------------------------
(* Errors, shutdown, crash and restart of the process.                     *)

\* The task the worker carries when its coroutine ends or loses it.
Dropped(w) == IF pc[w] \in Holding THEN {job[w]} ELSE {}

\* The worker's coroutine gives its task up and goes on at `to`.
Abandon(w, to) ==
    /\ pc' = [pc EXCEPT ![w] = to]
    /\ job' = [job EXCEPT ![w] = None]
    /\ excused' = excused \cup Dropped(w)
    /\ UNCHANGED <<mem, acked, windowed>>

\* A Redis round trip of the worker raises.  In the try that fails the task; the
\* deletion is best effort; elsewhere the loop of start() catches it.
RedisError(w) ==
    /\ pc[w] # "down"
    /\ Fault
    /\ \/ /\ pc[w] \in InTry
          /\ pc' = [pc EXCEPT ![w] = "final"]
          /\ mem' = [mem EXCEPT ![w] = "failed"]
          /\ UNCHANGED <<job, history>>
       \/ /\ pc[w] \in {"del", "delx"}
          /\ pc' = [pc EXCEPT ![w] = "expst"]
          /\ UNCHANGED <<job, mem, history>>
       \/ pc[w] \notin InTry \cup {"del", "delx"} /\ Abandon(w, "top")
    /\ UNCHANGED <<redis, current, life, call>>

\* TaskWorker.stop() from the shutdown of main.py.
Shutdown(w) ==
    /\ pc[w] # "down" /\ life[w] = "up"
    /\ Fault
    /\ life' = [life EXCEPT ![w] = "stopping"]
    /\ call' = [call EXCEPT ![w] = IF current[w] = None THEN Idle
                                   ELSE Step("cancel_read", current[w])]
    /\ UNCHANGED <<redis, pc, job, mem, current, history>>

\* Two seconds later wait_for cancels the coroutine: the finally still runs when the
\* CancelledError lands in the try, and nothing more runs when it lands elsewhere.
Abort(w) ==
    /\ pc[w] # "down" /\ life[w] = "stopping" /\ call[w] = Idle
    /\ life' = [life EXCEPT ![w] = "aborted"]
    /\ IF pc[w] \in InTry
       THEN /\ pc' = [pc EXCEPT ![w] = "final"]
            /\ excused' = excused \cup Dropped(w)
            /\ UNCHANGED <<job, mem, acked, windowed>>
       ELSE Abandon(w, "down")
    /\ UNCHANGED <<redis, current, call, bounds>>

\* The process dies, its worker and any of the requests with it.
Crash(w) ==
    /\ pc[w] # "down"
    /\ Fault
    /\ Abandon(w, "down")
    /\ \E alive \in SUBSET (Callers \ {w}) :
           call' = [c \in Callers |-> IF c \in alive THEN call[c] ELSE Idle]
    /\ UNCHANGED <<redis, current, life>>

\* The process starts again under the same worker id: a new TaskWorker.
Restart(w) ==
    /\ pc[w] = "down" /\ call[w] = Idle
    /\ pc' = [pc EXCEPT ![w] = "top"]
    /\ current' = [current EXCEPT ![w] = None]
    /\ life' = [life EXCEPT ![w] = "up"]
    /\ mem' = [mem EXCEPT ![w] = "queued"]
    /\ UNCHANGED <<redis, job, call, bounds, history>>

-----------------------------------------------------------------------------

CancelTask(c, t) == CancelRead(c, t) \/ CancelRefused(c, t) \/ CancelWrite(c, t)

TaskEndpoint(c, t) ==
    \/ DeleteRead(c, t) \/ DeleteFlag(c, t) \/ DeleteDrop(c, t)
    \/ UpdateRead(c, t) \/ \E s \in PutStatuses : UpdateWrite(c, t, s)
    \/ StopRead(c, t) \/ StopSet(c, t)

ExperimentEndpoint(c, e) ==
    \/ StartRead(c, e) \/ StartNotApplied(c, e) \/ StartFailed(c, e)
    \/ \E t \in Tasks : StartCommit(c, e, t)
    \/ StopBegin(c, e) \/ StopList(c, e)
    \/ CleanupRead(c, e) \/ CleanupWrite(c, e)

\* What the worker does by itself; only HandlerReturns depends on code it runs.
WorkerStep(w) ==
    \/ StopCheck(w) \/ PopTimesOut(w) \/ (\E t \in Tasks : Pop(w, t)) \/ Claim(w)
    \/ CheckCancelled(w, "check1", "mark") \/ MarkRunning(w) \/ CheckCancelled(w, "check2", "run")
    \/ CancelPoll(w)
    \/ ReadWasCancelled(w) \/ PersistFinal(w) \/ DeleteAfterCancelRead(w) \/ DeleteAfterCancel(w)
    \/ UpdateExperiment(w)

ProcessEvent(w) == StopWorker(w) \/ RedisError(w) \/ Shutdown(w) \/ Abort(w) \/ Crash(w) \/ Restart(w)

Next ==
    \/ \E t \in Tasks : CreateTask(t)
    \/ \E e \in Experiments : InitializeExperiment(e)
    \/ \E c \in Clients, e \in Experiments : ExperimentEndpoint(c, e)
    \/ \E c \in Clients, t \in Tasks : TaskEndpoint(c, t)
    \/ \E c \in Callers, t \in Tasks : CancelTask(c, t)
    \/ \E c \in Clients : StopDrop(c) \/ CallDies(c)
    \/ \E w \in Workers : WorkerStep(w) \/ ProcessEvent(w)
    \/ \E w \in Workers, s \in Terminal : HandlerReturns(w, s)

Spec == Init /\ [][Next]_vars

\* The event loop runs the worker's coroutine again after each await.  A handler need
\* never return (run.py has no time limit), so HandlerReturns gets no fairness.
FairSpec == Spec /\ \A w \in Workers : WF_vars(WorkerStep(w))

-----------------------------------------------------------------------------
(* Properties.                                                             *)

\* Every variable keeps to its type: the records above have no other shapes.
TypeOK ==
    /\ hash \in [Tasks -> TaskStatus \cup {"absent"}]
    /\ delFlag \subseteq Tasks /\ allTasks \subseteq Tasks /\ expTasks \subseteq Tasks
    /\ queue \subseteq Tasks /\ created \in Seq(Tasks)
    /\ expStatus \in [Experiments -> ExperimentStatus]
    /\ stopReq \subseteq Workers
    /\ pc \in [Workers -> PC]
    /\ job \in [Workers -> Tasks \cup {None}]
    /\ mem \in [Workers -> TaskStatus]
    /\ current \in [Workers -> Tasks \cup {None}]
    /\ life \in [Workers -> {"up", "stopping", "aborted"}]
    /\ call \in [Callers -> Calls]
    /\ requests \in Nat /\ faults \in Nat
    /\ acked \subseteq Tasks /\ windowed \subseteq Tasks /\ excused \subseteq Tasks

\* A task is executed by at most one worker and is never again in the queue once a
\* worker has popped it, whatever is cancelled, deleted, retried or restarted.
ExecutedOnce ==
    \A w \in Workers : pc[w] \in Holding =>
        /\ job[w] \in Created \ queue
        /\ \A v \in Workers \ {w} : pc[v] \in Holding => job[v] # job[w]

\* The index agrees with the keys: a queued id is listed, and a listed id has a hash,
\* so list_tasks and the worker never meet an id whose task was deleted.
IndexSound ==
    /\ queue \subseteq allTasks
    /\ \A t \in allTasks : hash[t] # "absent"

\* No task is stranded: one whose stored status is QUEUED or RUNNING is in the queue or
\* in the hands of a worker, unless a worker died with it or update_task rewrote it.
NoTaskStranded ==
    \A t \in Tasks : hash[t] \in {"queued", "running"} =>
        \/ t \in queue \cup excused
        \/ \E w \in Workers : pc[w] \in Holding /\ job[w] = t

\* A cancellation that was written outside the two windows in which the worker is about
\* to rewrite the hash is never undone by the worker: the stored status stays CANCELLED.
CancelHonoured ==
    \A t \in acked \ windowed : hash[t] = "cancelled"

\* A task that has still to finish, or was cancelled or deleted, or that a worker dropped.
Unsettled(t) ==
    \/ t \in queue \cup excused
    \/ hash[t] \in {"cancelled", "absent"}
    \/ \E w \in Workers : pc[w] \in Holding /\ job[w] = t

\* An experiment the runner reports RUNNING has a RUN_EXPERIMENT task that still has to
\* finish, or one that was cancelled or deleted under it, or that a worker dropped.
RunningExperimentHasTask ==
    \A e \in Experiments : expStatus[e] = "running" =>
        \E t \in RunTasks \cap Created : ExpOf[t] = e /\ Unsettled(t)

\* Cancelling a RUN_EXPERIMENT task a worker executes frees the worker, however long
\* run.py would still run, unless the key is deleted before the worker has seen it.
CancelFreesWorker ==
    \A w \in Workers, t \in RunTasks :
        (job[w] = t /\ t \in acked \ windowed) ~> (job[w] # t \/ t \notin acked)

\* The comment at task_worker.py:115: a cancellation that arrives late is caught right
\* after the RUNNING update, so no task starts running with one behind it.
LateCancelCaught ==
    \A w \in Workers : pc[w] = "run" /\ job[w] \in acked => hash[job[w]] = "cancelled"

\* The queue as its users see it: first in, first out, every task handed to one worker
\* at most and once at most, cancelled ones only while they wait.
WQ == INSTANCE WorkQueue WITH order <- created, waiting <- queue, holder <- job
ImplementsWorkQueue == WQ!Spec

-----------------------------------------------------------------------------
(* The inductive strengthening of the safety invariants.                   *)

\* Only ids that were enqueued occur in Redis and in the requests in flight.
CreatedIds ==
    /\ queue \cup expTasks \cup acked \subseteq Created
    /\ \A t \in Tasks : hash[t] # "absent" => t \in Created
    /\ \A c \in Callers :
          /\ call[c].ids \subseteq Created
          /\ call[c].op \in {"cancel", "flag", "update", "stop_set"} => call[c].arg \in Created

\* A queued task waits or was cancelled, and was cancelled once stop_experiment has
\* dealt with it.
QueuedStatus ==
    \A t \in queue \ excused :
        /\ hash[t] \in {"queued", "cancelled"}
        /\ \A c \in Callers :
              /\ t \in call[c].ids \ call[c].todo
              /\ call[c].op = "stop" \/ (call[c].op = "stop_set" /\ call[c].arg # t)
              => hash[t] = "cancelled"

\* Inside the windows a cancellation is known to be in danger.
WindowsKnown ==
    \A w \in Workers : job[w] \in acked \ windowed =>
        /\ pc[w] # "mark"
        /\ pc[w] = "persist" => mem[w] = "cancelled"

\* What the worker knows of its task where it may let go of it.
JobStatus ==
    \A w \in Workers : pc[w] \in Holding /\ job[w] \notin excused =>
        /\ pc[w] = "claim" /\ job[w] \notin allTasks => hash[job[w]] \in {"absent", "cancelled"}
        /\ pc[w] \in InFinally => mem[w] \in Terminal
        /\ pc[w] \in {"del", "delx", "expst"} => hash[job[w]] \notin {"queued", "running"}

\* Together: inductive, and it implies each of the safety invariants.
IInv ==
    /\ TypeOK /\ CreatedIds /\ ExecutedOnce /\ IndexSound
    /\ QueuedStatus /\ WindowsKnown /\ JobStatus
    /\ NoTaskStranded /\ CancelHonoured /\ RunningExperimentHasTask

=============================================================================
