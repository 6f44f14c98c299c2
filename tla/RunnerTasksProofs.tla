--------------------------- MODULE RunnerTasksProofs ---------------------------
(***************************************************************************)
(* The safety invariants of RunnerTasks, for any number of tasks,          *)
(* experiments, workers, requests and faults.  IInv is inductive: one      *)
(* lemma per conjunct shows that no step of Next disturbs it, by a case    *)
(* for each group of actions of Next, and for each action of a group whose *)
(* actions need different facts.  The last section is about how a worker   *)
(* gets on with the task it holds.                                         *)
(***************************************************************************)
EXTENDS RunnerTasks, TLAPS

-----------------------------------------------------------------------------
(* What the steps below keep needing.                                      *)

\* The ids ever pushed to the queue are task ids.
LEMMA CreatedType ==
    ASSUME TypeOK PROVE Created \subseteq Tasks
BY DEF TypeOK, Created

\* A worker that carries a task carries the id of one that was enqueued.
LEMMA JobType ==
    ASSUME IInv, NEW w \in Workers, pc[w] \in Holding PROVE job[w] \in Created /\ job[w] \in Tasks
BY CreatedType DEF IInv, ExecutedOnce

\* add_enqueue_ops adds one id to those that were enqueued.
LEMMA CreatedEnqueue ==
    ASSUME TypeOK, NEW t \in Tasks, Enqueue(t) PROVE Created' = Created \cup {t}
<1> DEFINE n == Len(created)
<1>1. created \in Seq(Tasks) /\ n \in Nat /\ DOMAIN created = 1..n
  BY DEF TypeOK
<1>2. /\ DOMAIN created' = 1..(n + 1)
      /\ created'[n + 1] = t
      /\ \A i \in 1..n : created'[i] = created[i]
  BY <1>1 DEF Enqueue
<1>3. 1..(n + 1) = 1..n \cup {n + 1}
  BY <1>1
<1> HIDE DEF n
<1> QED BY <1>1, <1>2, <1>3 DEF Created

-----------------------------------------------------------------------------
(* Type correctness.                                                       *)

\* Every request in flight keeps the shape of a call.
LEMMA CallTypeStep ==
    ASSUME TypeOK, Next PROVE call' \in [Callers -> Calls]
<1>0. call \in [Callers -> Calls] /\ expTasks \subseteq Tasks
      /\ current \in [Workers -> Tasks \cup {None}]
  BY DEF TypeOK
<1> USE <1>0
<1> USE DEF Calls, CallOps, Callers, Begin, Continue, Idle, Step, Batch, TasksOf
<1>1. ASSUME NEW t \in Tasks, CreateTask(t) PROVE call' \in [Callers -> Calls]
  BY <1>1 DEF CreateTask
<1>2. ASSUME NEW e \in Experiments, InitializeExperiment(e) PROVE call' \in [Callers -> Calls]
  BY <1>2 DEF InitializeExperiment
<1>3. ASSUME NEW c \in Clients, NEW e \in Experiments, ExperimentEndpoint(c, e) PROVE call' \in [Callers -> Calls]
  <2>1. ASSUME StartRead(c, e) PROVE call' \in [Callers -> Calls]
    BY <2>1 DEF StartRead
  <2>2. ASSUME StartNotApplied(c, e) PROVE call' \in [Callers -> Calls]
    BY <2>2 DEF StartNotApplied
  <2>3. ASSUME StartFailed(c, e) PROVE call' \in [Callers -> Calls]
    BY <2>3 DEF StartFailed
  <2>4. ASSUME NEW t \in Tasks, StartCommit(c, e, t) PROVE call' \in [Callers -> Calls]
    BY <2>4 DEF StartCommit
  <2>5. ASSUME StopBegin(c, e) PROVE call' \in [Callers -> Calls]
    BY <2>5 DEF StopBegin
  <2>6. ASSUME StopList(c, e) PROVE call' \in [Callers -> Calls]
    BY <2>6 DEF StopList
  <2>7. ASSUME CleanupRead(c, e) PROVE call' \in [Callers -> Calls]
    BY <2>7 DEF CleanupRead
  <2>8. ASSUME CleanupWrite(c, e) PROVE call' \in [Callers -> Calls]
    BY <2>8 DEF CleanupWrite
  <2> QED BY <1>3, <2>1, <2>2, <2>3, <2>4, <2>5, <2>6, <2>7, <2>8 DEF ExperimentEndpoint
<1>4. ASSUME NEW c \in Clients, NEW t \in Tasks, TaskEndpoint(c, t) PROVE call' \in [Callers -> Calls]
  <2>1. ASSUME DeleteRead(c, t) PROVE call' \in [Callers -> Calls]
    BY <2>1 DEF DeleteRead
  <2>2. ASSUME DeleteFlag(c, t) PROVE call' \in [Callers -> Calls]
    BY <2>2 DEF DeleteFlag
  <2>3. ASSUME DeleteDrop(c, t) PROVE call' \in [Callers -> Calls]
    BY <2>3 DEF DeleteDrop
  <2>4. ASSUME UpdateRead(c, t) PROVE call' \in [Callers -> Calls]
    BY <2>4 DEF UpdateRead
  <2>5. ASSUME NEW s \in PutStatuses, UpdateWrite(c, t, s) PROVE call' \in [Callers -> Calls]
    BY <2>5 DEF UpdateWrite
  <2>6. ASSUME StopRead(c, t) PROVE call' \in [Callers -> Calls]
    BY <2>6 DEF StopRead
  <2>7. ASSUME StopSet(c, t) PROVE call' \in [Callers -> Calls]
    BY <2>7 DEF StopSet
  <2> QED BY <1>4, <2>1, <2>2, <2>3, <2>4, <2>5, <2>6, <2>7 DEF TaskEndpoint
<1>5. ASSUME NEW c \in Callers, NEW t \in Tasks, CancelTask(c, t) PROVE call' \in [Callers -> Calls]
  <2>1. ASSUME CancelRead(c, t) PROVE call' \in [Callers -> Calls]
    BY <2>1 DEF CancelRead
  <2>2. ASSUME CancelRefused(c, t) PROVE call' \in [Callers -> Calls]
    BY <2>2 DEF CancelRefused
  <2>3. ASSUME CancelWrite(c, t) PROVE call' \in [Callers -> Calls]
    BY <2>3 DEF CancelWrite
  <2> QED BY <1>5, <2>1, <2>2, <2>3 DEF CancelTask
<1>6. ASSUME NEW c \in Clients, StopDrop(c) PROVE call' \in [Callers -> Calls]
  BY <1>6 DEF StopDrop
<1>7. ASSUME NEW c \in Clients, CallDies(c) PROVE call' \in [Callers -> Calls]
  BY <1>7 DEF CallDies
<1>8. ASSUME NEW w \in Workers, WorkerStep(w) PROVE call' \in [Callers -> Calls]
  BY <1>8 DEF WorkerStep, StopCheck, PopTimesOut, Pop, Claim, CheckCancelled, MarkRunning,
     CancelPoll, ReadWasCancelled, PersistFinal, DeleteAfterCancelRead, DeleteAfterCancel,
     UpdateExperiment
<1>9. ASSUME NEW w \in Workers, ProcessEvent(w) PROVE call' \in [Callers -> Calls]
  <2>1. ASSUME StopWorker(w) PROVE call' \in [Callers -> Calls]
    BY <2>1 DEF StopWorker
  <2>2. ASSUME RedisError(w) PROVE call' \in [Callers -> Calls]
    BY <2>2 DEF RedisError
  <2>3. ASSUME Shutdown(w) PROVE call' \in [Callers -> Calls]
    BY <2>3 DEF Shutdown
  <2>4. ASSUME Abort(w) PROVE call' \in [Callers -> Calls]
    BY <2>4 DEF Abort
  <2>5. ASSUME Crash(w) PROVE call' \in [Callers -> Calls]
    BY <2>5 DEF Crash
  <2>6. ASSUME Restart(w) PROVE call' \in [Callers -> Calls]
    BY <2>6 DEF Restart
  <2> QED BY <1>9, <2>1, <2>2, <2>3, <2>4, <2>5, <2>6 DEF ProcessEvent
<1>10. ASSUME NEW w \in Workers, NEW s \in Terminal, HandlerReturns(w, s) PROVE call' \in [Callers -> Calls]
  BY <1>10 DEF HandlerReturns
<1> HIDE DEF Calls
<1> QED BY <1>1, <1>2, <1>3, <1>4, <1>5, <1>6, <1>7, <1>8, <1>9, <1>10 DEF Next

\* Every variable keeps its type.
LEMMA TypeStep ==
    ASSUME IInv, Next PROVE TypeOK'
<1>0. TypeOK /\ IndexSound /\ call' \in [Callers -> Calls]
  BY CallTypeStep DEF IInv
<1> USE <1>0, TasksAssumption
<1> USE DEF TypeOK, TaskStatus, Terminal, ExperimentStatus, PC, Holding, InTry, InFinally,
            Request, Fault, Begin, Goto, Enqueue, SetCancelled, DropKeys, PersistTaskState,
            Abandon, Dropped, redis, worker, history, bounds
<1>1. ASSUME NEW t \in Tasks, CreateTask(t) PROVE TypeOK'
  BY <1>1 DEF CreateTask
<1>2. ASSUME NEW e \in Experiments, InitializeExperiment(e) PROVE TypeOK'
  BY <1>2 DEF InitializeExperiment
<1>3. ASSUME NEW c \in Clients, NEW e \in Experiments, ExperimentEndpoint(c, e) PROVE TypeOK'
  <2>1. ASSUME StartRead(c, e) PROVE TypeOK'
    BY <2>1 DEF StartRead
  <2>2. ASSUME StartNotApplied(c, e) PROVE TypeOK'
    BY <2>2 DEF StartNotApplied
  <2>3. ASSUME StartFailed(c, e) PROVE TypeOK'
    BY <2>3 DEF StartFailed
  <2>4. ASSUME NEW t \in Tasks, StartCommit(c, e, t) PROVE TypeOK'
    BY <2>4 DEF StartCommit
  <2>5. ASSUME StopBegin(c, e) PROVE TypeOK'
    BY <2>5 DEF StopBegin
  <2>6. ASSUME StopList(c, e) PROVE TypeOK'
    BY <2>6 DEF StopList
  <2>7. ASSUME CleanupRead(c, e) PROVE TypeOK'
    BY <2>7 DEF CleanupRead
  <2>8. ASSUME CleanupWrite(c, e) PROVE TypeOK'
    BY <2>8 DEF CleanupWrite
  <2> QED BY <1>3, <2>1, <2>2, <2>3, <2>4, <2>5, <2>6, <2>7, <2>8 DEF ExperimentEndpoint
<1>4. ASSUME NEW c \in Clients, NEW t \in Tasks, TaskEndpoint(c, t) PROVE TypeOK'
  <2>1. ASSUME DeleteRead(c, t) PROVE TypeOK'
    BY <2>1 DEF DeleteRead
  <2>2. ASSUME DeleteFlag(c, t) PROVE TypeOK'
    BY <2>2 DEF DeleteFlag
  <2>3. ASSUME DeleteDrop(c, t) PROVE TypeOK'
    BY <2>3 DEF DeleteDrop
  <2>4. ASSUME UpdateRead(c, t) PROVE TypeOK'
    BY <2>4 DEF UpdateRead
  <2>5. ASSUME NEW s \in PutStatuses, UpdateWrite(c, t, s) PROVE TypeOK'
    BY <2>5 DEF UpdateWrite
  <2>6. ASSUME StopRead(c, t) PROVE TypeOK'
    BY <2>6 DEF StopRead
  <2>7. ASSUME StopSet(c, t) PROVE TypeOK'
    BY <2>7 DEF StopSet
  <2> QED BY <1>4, <2>1, <2>2, <2>3, <2>4, <2>5, <2>6, <2>7 DEF TaskEndpoint
<1>5. ASSUME NEW c \in Callers, NEW t \in Tasks, CancelTask(c, t) PROVE TypeOK'
  <2>1. ASSUME CancelRead(c, t) PROVE TypeOK'
    BY <2>1 DEF CancelRead
  <2>2. ASSUME CancelRefused(c, t) PROVE TypeOK'
    BY <2>2 DEF CancelRefused
  <2>3. ASSUME CancelWrite(c, t) PROVE TypeOK'
    BY <2>3 DEF CancelWrite
  <2> QED BY <1>5, <2>1, <2>2, <2>3 DEF CancelTask
<1>6. ASSUME NEW c \in Clients, StopDrop(c) PROVE TypeOK'
  BY <1>6 DEF StopDrop
<1>7. ASSUME NEW c \in Clients, CallDies(c) PROVE TypeOK'
  BY <1>7 DEF CallDies
<1>8. ASSUME NEW w \in Workers, WorkerStep(w) PROVE TypeOK'
  <2>1. ASSUME StopCheck(w) PROVE TypeOK'
    BY <2>1 DEF StopCheck
  <2>2. ASSUME PopTimesOut(w) PROVE TypeOK'
    BY <2>2 DEF PopTimesOut
  <2>3. ASSUME NEW t \in Tasks, Pop(w, t) PROVE TypeOK'
    BY <2>3 DEF Pop
  <2>4. ASSUME Claim(w) PROVE TypeOK'
    BY <2>4, JobType DEF Claim, IndexSound
  <2>5. ASSUME CheckCancelled(w, "check1", "mark") PROVE TypeOK'
    BY <2>5 DEF CheckCancelled
  <2>6. ASSUME MarkRunning(w) PROVE TypeOK'
    BY <2>6, JobType DEF MarkRunning
  <2>7. ASSUME CheckCancelled(w, "check2", "run") PROVE TypeOK'
    BY <2>7 DEF CheckCancelled
  <2>8. ASSUME CancelPoll(w) PROVE TypeOK'
    BY <2>8 DEF CancelPoll
  <2>9. ASSUME ReadWasCancelled(w) PROVE TypeOK'
    BY <2>9 DEF ReadWasCancelled
  <2>10. ASSUME PersistFinal(w) PROVE TypeOK'
    BY <2>10 DEF PersistFinal
  <2>11. ASSUME DeleteAfterCancelRead(w) PROVE TypeOK'
    BY <2>11 DEF DeleteAfterCancelRead
  <2>12. ASSUME DeleteAfterCancel(w) PROVE TypeOK'
    BY <2>12 DEF DeleteAfterCancel
  <2>13. ASSUME UpdateExperiment(w) PROVE TypeOK'
    BY <2>13, JobType DEF UpdateExperiment, ReportOutcome
  <2> QED BY <1>8, <2>1, <2>2, <2>3, <2>4, <2>5, <2>6, <2>7, <2>8, <2>9, <2>10, <2>11,
     <2>12, <2>13 DEF WorkerStep
<1>9. ASSUME NEW w \in Workers, ProcessEvent(w) PROVE TypeOK'
  <2>1. ASSUME StopWorker(w) PROVE TypeOK'
    BY <2>1 DEF StopWorker
  <2>2. ASSUME RedisError(w) PROVE TypeOK'
    BY <2>2, JobType DEF RedisError
  <2>3. ASSUME Shutdown(w) PROVE TypeOK'
    BY <2>3 DEF Shutdown
  <2>4. ASSUME Abort(w) PROVE TypeOK'
    BY <2>4, JobType DEF Abort
  <2>5. ASSUME Crash(w) PROVE TypeOK'
    BY <2>5, JobType DEF Crash
  <2>6. ASSUME Restart(w) PROVE TypeOK'
    BY <2>6 DEF Restart
  <2> QED BY <1>9, <2>1, <2>2, <2>3, <2>4, <2>5, <2>6 DEF ProcessEvent
<1>10. ASSUME NEW w \in Workers, NEW s \in Terminal, HandlerReturns(w, s) PROVE TypeOK'
  BY <1>10 DEF HandlerReturns, Outcome
<1> HIDE DEF TypeOK
<1> QED BY <1>1, <1>2, <1>3, <1>4, <1>5, <1>6, <1>7, <1>8, <1>9, <1>10 DEF Next


-----------------------------------------------------------------------------
(* The other conjuncts of IInv.                                            *)

\* A task is pushed when its id is new and popped by one worker.
LEMMA ExecutedStep ==
    ASSUME IInv, Next PROVE ExecutedOnce'
<1>0. /\ pc \in [Workers -> PC] /\ job \in [Workers -> Tasks \cup {None}]
      /\ TypeOK /\ queue \subseteq Created /\ ExecutedOnce
      /\ created' = created => Created' = Created
  BY DEF IInv, TypeOK, CreatedIds, Created
<1> USE <1>0
<1> USE DEF ExecutedOnce, Holding, InTry, InFinally, Goto, Abandon, redis, worker
<1>1. ASSUME NEW t \in Tasks, CreateTask(t) PROVE ExecutedOnce'
  <2>1. Created' = Created \cup {t}
    BY <1>1, CreatedEnqueue DEF CreateTask
  <2> QED BY <1>1, <2>1 DEF CreateTask, Enqueue
<1>2. ASSUME NEW e \in Experiments, InitializeExperiment(e) PROVE ExecutedOnce'
  BY <1>2 DEF InitializeExperiment
<1>3. ASSUME NEW c \in Clients, NEW e \in Experiments, ExperimentEndpoint(c, e) PROVE ExecutedOnce'
  <2>1. ASSUME StartRead(c, e) PROVE ExecutedOnce'
    BY <2>1 DEF StartRead
  <2>2. ASSUME StartNotApplied(c, e) PROVE ExecutedOnce'
    BY <2>2 DEF StartNotApplied
  <2>3. ASSUME StartFailed(c, e) PROVE ExecutedOnce'
    BY <2>3 DEF StartFailed
  <2>4. ASSUME NEW t \in Tasks, StartCommit(c, e, t) PROVE ExecutedOnce'
    <3>1. Created' = Created \cup {t}
      BY <2>4, CreatedEnqueue DEF StartCommit
    <3> QED BY <2>4, <3>1 DEF StartCommit, Enqueue
  <2>5. ASSUME StopBegin(c, e) PROVE ExecutedOnce'
    BY <2>5 DEF StopBegin
  <2>6. ASSUME StopList(c, e) PROVE ExecutedOnce'
    BY <2>6 DEF StopList
  <2>7. ASSUME CleanupRead(c, e) PROVE ExecutedOnce'
    BY <2>7 DEF CleanupRead
  <2>8. ASSUME CleanupWrite(c, e) PROVE ExecutedOnce'
    BY <2>8 DEF CleanupWrite
  <2> QED BY <1>3, <2>1, <2>2, <2>3, <2>4, <2>5, <2>6, <2>7, <2>8 DEF ExperimentEndpoint
<1>4. ASSUME NEW c \in Clients, NEW t \in Tasks, TaskEndpoint(c, t) PROVE ExecutedOnce'
  BY <1>4 DEF TaskEndpoint, DeleteRead, DeleteFlag, DeleteDrop, UpdateRead, UpdateWrite,
     StopRead, StopSet
<1>5. ASSUME NEW c \in Callers, NEW t \in Tasks, CancelTask(c, t) PROVE ExecutedOnce'
  BY <1>5 DEF CancelTask, CancelRead, CancelRefused, CancelWrite
<1>6. ASSUME NEW c \in Clients, StopDrop(c) PROVE ExecutedOnce'
  BY <1>6 DEF StopDrop
<1>7. ASSUME NEW c \in Clients, CallDies(c) PROVE ExecutedOnce'
  BY <1>7 DEF CallDies
<1>8. ASSUME NEW w \in Workers, WorkerStep(w) PROVE ExecutedOnce'
  <2>1. ASSUME StopCheck(w) PROVE ExecutedOnce'
    BY <2>1 DEF StopCheck
  <2>2. ASSUME PopTimesOut(w) PROVE ExecutedOnce'
    BY <2>2 DEF PopTimesOut
  <2>3. ASSUME NEW t \in Tasks, Pop(w, t) PROVE ExecutedOnce'
    BY <2>3 DEF Pop
  <2>4. ASSUME Claim(w) PROVE ExecutedOnce'
    BY <2>4 DEF Claim
  <2>5. ASSUME CheckCancelled(w, "check1", "mark") PROVE ExecutedOnce'
    BY <2>5 DEF CheckCancelled
  <2>6. ASSUME MarkRunning(w) PROVE ExecutedOnce'
    BY <2>6 DEF MarkRunning
  <2>7. ASSUME CheckCancelled(w, "check2", "run") PROVE ExecutedOnce'
    BY <2>7 DEF CheckCancelled
  <2>8. ASSUME CancelPoll(w) PROVE ExecutedOnce'
    BY <2>8 DEF CancelPoll
  <2>9. ASSUME ReadWasCancelled(w) PROVE ExecutedOnce'
    BY <2>9 DEF ReadWasCancelled
  <2>10. ASSUME PersistFinal(w) PROVE ExecutedOnce'
    BY <2>10 DEF PersistFinal
  <2>11. ASSUME DeleteAfterCancelRead(w) PROVE ExecutedOnce'
    BY <2>11 DEF DeleteAfterCancelRead
  <2>12. ASSUME DeleteAfterCancel(w) PROVE ExecutedOnce'
    BY <2>12 DEF DeleteAfterCancel
  <2>13. ASSUME UpdateExperiment(w) PROVE ExecutedOnce'
    BY <2>13 DEF UpdateExperiment
  <2> QED BY <1>8, <2>1, <2>2, <2>3, <2>4, <2>5, <2>6, <2>7, <2>8, <2>9, <2>10, <2>11,
     <2>12, <2>13 DEF WorkerStep
<1>9. ASSUME NEW w \in Workers, ProcessEvent(w) PROVE ExecutedOnce'
  <2>1. ASSUME StopWorker(w) PROVE ExecutedOnce'
    BY <2>1 DEF StopWorker
  <2>2. ASSUME RedisError(w) PROVE ExecutedOnce'
    BY <2>2 DEF RedisError
  <2>3. ASSUME Shutdown(w) PROVE ExecutedOnce'
    BY <2>3 DEF Shutdown
  <2>4. ASSUME Abort(w) PROVE ExecutedOnce'
    BY <2>4 DEF Abort
  <2>5. ASSUME Crash(w) PROVE ExecutedOnce'
    BY <2>5 DEF Crash
  <2>6. ASSUME Restart(w) PROVE ExecutedOnce'
    BY <2>6 DEF Restart
  <2> QED BY <1>9, <2>1, <2>2, <2>3, <2>4, <2>5, <2>6 DEF ProcessEvent
<1>10. ASSUME NEW w \in Workers, NEW s \in Terminal, HandlerReturns(w, s) PROVE ExecutedOnce'
  BY <1>10 DEF HandlerReturns
<1> HIDE DEF ExecutedOnce
<1> QED BY <1>1, <1>2, <1>3, <1>4, <1>5, <1>6, <1>7, <1>8, <1>9, <1>10 DEF Next

\* Ids enter Redis through add_enqueue_ops only, and requests take them from there.
LEMMA CreatedIdsStep ==
    ASSUME IInv, Next PROVE CreatedIds'
<1>0. /\ queue \subseteq Tasks /\ allTasks \subseteq Tasks /\ acked \subseteq Tasks
      /\ hash \in [Tasks -> TaskStatus \cup {"absent"}]
      /\ pc \in [Workers -> PC] /\ job \in [Workers -> Tasks \cup {None}]
      /\ mem \in [Workers -> TaskStatus] /\ call \in [Callers -> Calls]
      /\ CreatedIds
      /\ created' = created => Created' = Created
      /\ TypeOK
  BY DEF IInv, TypeOK, Created
<1> USE <1>0, TasksAssumption
<1> USE DEF CreatedIds, TaskStatus, Abandon, SetCancelled, DropKeys, PersistTaskState,
            Begin, Continue, Step, Batch, Idle, Callers, Goto, TasksOf, Terminal, redis,
            worker, history
<1>1. ASSUME NEW t \in Tasks, CreateTask(t) PROVE CreatedIds'
  <2>1. Created' = Created \cup {t}
    BY <1>1, CreatedEnqueue DEF CreateTask
  <2> QED BY <1>1, <2>1 DEF CreateTask, Enqueue
<1>2. ASSUME NEW e \in Experiments, InitializeExperiment(e) PROVE CreatedIds'
  BY <1>2 DEF InitializeExperiment
<1>3. ASSUME NEW c \in Clients, NEW e \in Experiments, ExperimentEndpoint(c, e) PROVE CreatedIds'
  <2>1. ASSUME StartRead(c, e) PROVE CreatedIds'
    BY <2>1 DEF StartRead
  <2>2. ASSUME StartNotApplied(c, e) PROVE CreatedIds'
    BY <2>2 DEF StartNotApplied
  <2>3. ASSUME StartFailed(c, e) PROVE CreatedIds'
    BY <2>3 DEF StartFailed
  <2>4. ASSUME NEW t \in Tasks, StartCommit(c, e, t) PROVE CreatedIds'
    <3>1. Created' = Created \cup {t}
      BY <2>4, CreatedEnqueue DEF StartCommit
    <3> QED BY <2>4, <3>1 DEF StartCommit, Enqueue
  <2>5. ASSUME StopBegin(c, e) PROVE CreatedIds'
    BY <2>5 DEF StopBegin
  <2>6. ASSUME StopList(c, e) PROVE CreatedIds'
    BY <2>6 DEF StopList
  <2>7. ASSUME CleanupRead(c, e) PROVE CreatedIds'
    BY <2>7 DEF CleanupRead
  <2>8. ASSUME CleanupWrite(c, e) PROVE CreatedIds'
    BY <2>8 DEF CleanupWrite
  <2> QED BY <1>3, <2>1, <2>2, <2>3, <2>4, <2>5, <2>6, <2>7, <2>8 DEF ExperimentEndpoint
<1>4. ASSUME NEW c \in Clients, NEW t \in Tasks, TaskEndpoint(c, t) PROVE CreatedIds'
  BY <1>4 DEF TaskEndpoint, DeleteRead, DeleteFlag, DeleteDrop, UpdateRead, UpdateWrite,
     StopRead, StopSet
<1>5. ASSUME NEW c \in Callers, NEW t \in Tasks, CancelTask(c, t) PROVE CreatedIds'
  BY <1>5 DEF CancelTask, CancelRead, CancelRefused, CancelWrite
<1>6. ASSUME NEW c \in Clients, StopDrop(c) PROVE CreatedIds'
  BY <1>6 DEF StopDrop
<1>7. ASSUME NEW c \in Clients, CallDies(c) PROVE CreatedIds'
  BY <1>7 DEF CallDies
<1>8. ASSUME NEW w \in Workers, WorkerStep(w) PROVE CreatedIds'
  <2>1. ASSUME StopCheck(w) PROVE CreatedIds'
    BY <2>1 DEF StopCheck
  <2>2. ASSUME PopTimesOut(w) PROVE CreatedIds'
    BY <2>2 DEF PopTimesOut
  <2>3. ASSUME NEW t \in Tasks, Pop(w, t) PROVE CreatedIds'
    BY <2>3 DEF Pop
  <2>4. ASSUME Claim(w) PROVE CreatedIds'
    BY <2>4 DEF Claim
  <2>5. ASSUME CheckCancelled(w, "check1", "mark") PROVE CreatedIds'
    BY <2>5 DEF CheckCancelled
  <2>6. ASSUME MarkRunning(w) PROVE CreatedIds'
    BY <2>6, JobType DEF MarkRunning, Holding, InTry, InFinally
  <2>7. ASSUME CheckCancelled(w, "check2", "run") PROVE CreatedIds'
    BY <2>7 DEF CheckCancelled
  <2>8. ASSUME CancelPoll(w) PROVE CreatedIds'
    BY <2>8 DEF CancelPoll
  <2>9. ASSUME ReadWasCancelled(w) PROVE CreatedIds'
    BY <2>9 DEF ReadWasCancelled
  <2>10. ASSUME PersistFinal(w) PROVE CreatedIds'
    BY <2>10, JobType DEF PersistFinal, Holding, InTry, InFinally
  <2>11. ASSUME DeleteAfterCancelRead(w) PROVE CreatedIds'
    BY <2>11 DEF DeleteAfterCancelRead
  <2>12. ASSUME DeleteAfterCancel(w) PROVE CreatedIds'
    BY <2>12, JobType DEF DeleteAfterCancel, Holding, InTry, InFinally
  <2>13. ASSUME UpdateExperiment(w) PROVE CreatedIds'
    BY <2>13 DEF UpdateExperiment
  <2> QED BY <1>8, <2>1, <2>2, <2>3, <2>4, <2>5, <2>6, <2>7, <2>8, <2>9, <2>10, <2>11,
     <2>12, <2>13 DEF WorkerStep
<1>9. ASSUME NEW w \in Workers, ProcessEvent(w) PROVE CreatedIds'
  BY <1>9 DEF ProcessEvent, StopWorker, RedisError, Shutdown, Abort, Crash, Restart
<1>10. ASSUME NEW w \in Workers, NEW s \in Terminal, HandlerReturns(w, s) PROVE CreatedIds'
  BY <1>10 DEF HandlerReturns
<1> HIDE DEF CreatedIds
<1> QED BY <1>1, <1>2, <1>3, <1>4, <1>5, <1>6, <1>7, <1>8, <1>9, <1>10 DEF Next

\* A DEL of a hash comes with the SREM and the LREMs that keep the index sound: the
\* worker needs none for the queue, because its task is not there any more.
LEMMA IndexSoundStep ==
    ASSUME IInv, Next PROVE IndexSound'
<1>0. /\ queue \subseteq Tasks /\ allTasks \subseteq Tasks /\ acked \subseteq Tasks
      /\ hash \in [Tasks -> TaskStatus \cup {"absent"}]
      /\ pc \in [Workers -> PC] /\ job \in [Workers -> Tasks \cup {None}]
      /\ mem \in [Workers -> TaskStatus] /\ call \in [Callers -> Calls]
      /\ IndexSound
      /\ ExecutedOnce
  BY DEF IInv, TypeOK
<1> USE <1>0, TasksAssumption
<1> USE DEF IndexSound, TaskStatus, Enqueue, SetCancelled, DropKeys, PersistTaskState,
            Continue, Goto, redis, worker
<1>1. ASSUME NEW t \in Tasks, CreateTask(t) PROVE IndexSound'
  BY <1>1 DEF CreateTask
<1>2. ASSUME NEW e \in Experiments, InitializeExperiment(e) PROVE IndexSound'
  BY <1>2 DEF InitializeExperiment
<1>3. ASSUME NEW c \in Clients, NEW e \in Experiments, ExperimentEndpoint(c, e) PROVE IndexSound'
  BY <1>3 DEF ExperimentEndpoint, StartRead, StartNotApplied, StartFailed, StartCommit,
     StopBegin, StopList, CleanupRead, CleanupWrite
<1>4. ASSUME NEW c \in Clients, NEW t \in Tasks, TaskEndpoint(c, t) PROVE IndexSound'
  BY <1>4 DEF TaskEndpoint, DeleteRead, DeleteFlag, DeleteDrop, UpdateRead, UpdateWrite,
     StopRead, StopSet
<1>5. ASSUME NEW c \in Callers, NEW t \in Tasks, CancelTask(c, t) PROVE IndexSound'
  BY <1>5 DEF CancelTask, CancelRead, CancelRefused, CancelWrite
<1>6. ASSUME NEW c \in Clients, StopDrop(c) PROVE IndexSound'
  BY <1>6 DEF StopDrop
<1>7. ASSUME NEW c \in Clients, CallDies(c) PROVE IndexSound'
  BY <1>7 DEF CallDies
<1>8. ASSUME NEW w \in Workers, WorkerStep(w) PROVE IndexSound'
  <2>1. ASSUME StopCheck(w) PROVE IndexSound'
    BY <2>1 DEF StopCheck
  <2>2. ASSUME PopTimesOut(w) PROVE IndexSound'
    BY <2>2 DEF PopTimesOut
  <2>3. ASSUME NEW t \in Tasks, Pop(w, t) PROVE IndexSound'
    BY <2>3 DEF Pop
  <2>4. ASSUME Claim(w) PROVE IndexSound'
    BY <2>4 DEF Claim
  <2>5. ASSUME CheckCancelled(w, "check1", "mark") PROVE IndexSound'
    BY <2>5 DEF CheckCancelled
  <2>6. ASSUME MarkRunning(w) PROVE IndexSound'
    BY <2>6 DEF MarkRunning
  <2>7. ASSUME CheckCancelled(w, "check2", "run") PROVE IndexSound'
    BY <2>7 DEF CheckCancelled
  <2>8. ASSUME CancelPoll(w) PROVE IndexSound'
    BY <2>8 DEF CancelPoll
  <2>9. ASSUME ReadWasCancelled(w) PROVE IndexSound'
    BY <2>9 DEF ReadWasCancelled
  <2>10. ASSUME PersistFinal(w) PROVE IndexSound'
    BY <2>10 DEF PersistFinal
  <2>11. ASSUME DeleteAfterCancelRead(w) PROVE IndexSound'
    BY <2>11 DEF DeleteAfterCancelRead
  <2>12. ASSUME DeleteAfterCancel(w) PROVE IndexSound'
    BY <2>12 DEF DeleteAfterCancel, ExecutedOnce, Holding, InTry, InFinally
  <2>13. ASSUME UpdateExperiment(w) PROVE IndexSound'
    BY <2>13 DEF UpdateExperiment
  <2> QED BY <1>8, <2>1, <2>2, <2>3, <2>4, <2>5, <2>6, <2>7, <2>8, <2>9, <2>10, <2>11,
     <2>12, <2>13 DEF WorkerStep
<1>9. ASSUME NEW w \in Workers, ProcessEvent(w) PROVE IndexSound'
  BY <1>9 DEF ProcessEvent, StopWorker, RedisError, Shutdown, Abort, Crash, Restart
<1>10. ASSUME NEW w \in Workers, NEW s \in Terminal, HandlerReturns(w, s) PROVE IndexSound'
  BY <1>10 DEF HandlerReturns
<1> HIDE DEF IndexSound
<1> QED BY <1>1, <1>2, <1>3, <1>4, <1>5, <1>6, <1>7, <1>8, <1>9, <1>10 DEF Next

\* Nobody but update_task gives a queued task another status than CANCELLED.
LEMMA QueuedStatusStep ==
    ASSUME IInv, Next PROVE QueuedStatus'
<1>0. /\ queue \subseteq Tasks /\ allTasks \subseteq Tasks /\ acked \subseteq Tasks
      /\ hash \in [Tasks -> TaskStatus \cup {"absent"}]
      /\ pc \in [Workers -> PC] /\ job \in [Workers -> Tasks \cup {None}]
      /\ mem \in [Workers -> TaskStatus] /\ call \in [Callers -> Calls]
      /\ QueuedStatus
      /\ ExecutedOnce
      /\ CreatedIds
  BY DEF IInv, TypeOK
<1> USE <1>0, TasksAssumption
<1> USE DEF QueuedStatus, Enqueue, SetCancelled, DropKeys, PersistTaskState, Begin,
            Continue, Step, Batch, Idle, Callers, Goto, Abandon, redis, worker, history
<1>1. ASSUME NEW t \in Tasks, CreateTask(t) PROVE QueuedStatus'
  BY <1>1 DEF CreateTask, CreatedIds
<1>2. ASSUME NEW e \in Experiments, InitializeExperiment(e) PROVE QueuedStatus'
  BY <1>2 DEF InitializeExperiment
<1>3. ASSUME NEW c \in Clients, NEW e \in Experiments, ExperimentEndpoint(c, e) PROVE QueuedStatus'
  BY <1>3 DEF ExperimentEndpoint, StartRead, StartNotApplied, StartFailed, StartCommit,
     StopBegin, StopList, CleanupRead, CleanupWrite, CreatedIds
<1>4. ASSUME NEW c \in Clients, NEW t \in Tasks, TaskEndpoint(c, t) PROVE QueuedStatus'
  BY <1>4 DEF TaskEndpoint, DeleteRead, DeleteFlag, DeleteDrop, UpdateRead, UpdateWrite,
     StopRead, StopSet
<1>5. ASSUME NEW c \in Callers, NEW t \in Tasks, CancelTask(c, t) PROVE QueuedStatus'
  BY <1>5 DEF CancelTask, CancelRead, CancelRefused, CancelWrite
<1>6. ASSUME NEW c \in Clients, StopDrop(c) PROVE QueuedStatus'
  BY <1>6 DEF StopDrop
<1>7. ASSUME NEW c \in Clients, CallDies(c) PROVE QueuedStatus'
  BY <1>7 DEF CallDies
<1>8. ASSUME NEW w \in Workers, WorkerStep(w) PROVE QueuedStatus'
  <2>1. ASSUME StopCheck(w) PROVE QueuedStatus'
    BY <2>1 DEF StopCheck
  <2>2. ASSUME PopTimesOut(w) PROVE QueuedStatus'
    BY <2>2 DEF PopTimesOut
  <2>3. ASSUME NEW t \in Tasks, Pop(w, t) PROVE QueuedStatus'
    BY <2>3 DEF Pop
  <2>4. ASSUME Claim(w) PROVE QueuedStatus'
    BY <2>4 DEF Claim
  <2>5. ASSUME CheckCancelled(w, "check1", "mark") PROVE QueuedStatus'
    BY <2>5 DEF CheckCancelled
  <2>6. ASSUME MarkRunning(w) PROVE QueuedStatus'
    BY <2>6 DEF MarkRunning, ExecutedOnce, Holding, InTry, InFinally
  <2>7. ASSUME CheckCancelled(w, "check2", "run") PROVE QueuedStatus'
    BY <2>7 DEF CheckCancelled
  <2>8. ASSUME CancelPoll(w) PROVE QueuedStatus'
    BY <2>8 DEF CancelPoll
  <2>9. ASSUME ReadWasCancelled(w) PROVE QueuedStatus'
    BY <2>9 DEF ReadWasCancelled
  <2>10. ASSUME PersistFinal(w) PROVE QueuedStatus'
    BY <2>10 DEF PersistFinal, ExecutedOnce, Holding, InTry, InFinally
  <2>11. ASSUME DeleteAfterCancelRead(w) PROVE QueuedStatus'
    BY <2>11 DEF DeleteAfterCancelRead
  <2>12. ASSUME DeleteAfterCancel(w) PROVE QueuedStatus'
    BY <2>12 DEF DeleteAfterCancel, ExecutedOnce, Holding, InTry, InFinally
  <2>13. ASSUME UpdateExperiment(w) PROVE QueuedStatus'
    BY <2>13 DEF UpdateExperiment
  <2> QED BY <1>8, <2>1, <2>2, <2>3, <2>4, <2>5, <2>6, <2>7, <2>8, <2>9, <2>10, <2>11,
     <2>12, <2>13 DEF WorkerStep
<1>9. ASSUME NEW w \in Workers, ProcessEvent(w) PROVE QueuedStatus'
  BY <1>9 DEF ProcessEvent, StopWorker, RedisError, Shutdown, Abort, Crash, Restart
<1>10. ASSUME NEW w \in Workers, NEW s \in Terminal, HandlerReturns(w, s) PROVE QueuedStatus'
  BY <1>10 DEF HandlerReturns
<1> HIDE DEF QueuedStatus
<1> QED BY <1>1, <1>2, <1>3, <1>4, <1>5, <1>6, <1>7, <1>8, <1>9, <1>10 DEF Next

\* The worker enters a window on a status that is not CANCELLED, so that a cancellation
\* it is about to overwrite was written inside the window.
LEMMA WindowsKnownStep ==
    ASSUME IInv, Next PROVE WindowsKnown'
<1>0. /\ queue \subseteq Tasks /\ allTasks \subseteq Tasks /\ acked \subseteq Tasks
      /\ hash \in [Tasks -> TaskStatus \cup {"absent"}]
      /\ pc \in [Workers -> PC] /\ job \in [Workers -> Tasks \cup {None}]
      /\ mem \in [Workers -> TaskStatus] /\ call \in [Callers -> Calls]
      /\ WindowsKnown
      /\ CancelHonoured
  BY DEF IInv, TypeOK
<1> USE <1>0, TasksAssumption
<1> USE DEF WindowsKnown, LostWindow, Enqueue, SetCancelled, DropKeys, Goto, Abandon, redis,
            worker, history
<1>1. ASSUME NEW t \in Tasks, CreateTask(t) PROVE WindowsKnown'
  BY <1>1 DEF CreateTask
<1>2. ASSUME NEW e \in Experiments, InitializeExperiment(e) PROVE WindowsKnown'
  BY <1>2 DEF InitializeExperiment
<1>3. ASSUME NEW c \in Clients, NEW e \in Experiments, ExperimentEndpoint(c, e) PROVE WindowsKnown'
  BY <1>3 DEF ExperimentEndpoint, StartRead, StartNotApplied, StartFailed, StartCommit,
     StopBegin, StopList, CleanupRead, CleanupWrite
<1>4. ASSUME NEW c \in Clients, NEW t \in Tasks, TaskEndpoint(c, t) PROVE WindowsKnown'
  BY <1>4 DEF TaskEndpoint, DeleteRead, DeleteFlag, DeleteDrop, UpdateRead, UpdateWrite,
     StopRead, StopSet
<1>5. ASSUME NEW c \in Callers, NEW t \in Tasks, CancelTask(c, t) PROVE WindowsKnown'
  BY <1>5 DEF CancelTask, CancelRead, CancelRefused, CancelWrite
<1>6. ASSUME NEW c \in Clients, StopDrop(c) PROVE WindowsKnown'
  BY <1>6 DEF StopDrop
<1>7. ASSUME NEW c \in Clients, CallDies(c) PROVE WindowsKnown'
  BY <1>7 DEF CallDies
<1>8. ASSUME NEW w \in Workers, WorkerStep(w) PROVE WindowsKnown'
  <2>1. ASSUME StopCheck(w) PROVE WindowsKnown'
    BY <2>1 DEF StopCheck
  <2>2. ASSUME PopTimesOut(w) PROVE WindowsKnown'
    BY <2>2 DEF PopTimesOut
  <2>3. ASSUME NEW t \in Tasks, Pop(w, t) PROVE WindowsKnown'
    BY <2>3 DEF Pop
  <2>4. ASSUME Claim(w) PROVE WindowsKnown'
    BY <2>4 DEF Claim
  <2>5. ASSUME CheckCancelled(w, "check1", "mark") PROVE WindowsKnown'
    BY <2>5 DEF CheckCancelled, CancelHonoured
  <2>6. ASSUME MarkRunning(w) PROVE WindowsKnown'
    BY <2>6 DEF MarkRunning
  <2>7. ASSUME CheckCancelled(w, "check2", "run") PROVE WindowsKnown'
    BY <2>7 DEF CheckCancelled
  <2>8. ASSUME CancelPoll(w) PROVE WindowsKnown'
    BY <2>8 DEF CancelPoll
  <2>9. ASSUME ReadWasCancelled(w) PROVE WindowsKnown'
    BY <2>9 DEF ReadWasCancelled, CancelHonoured
  <2>10. ASSUME PersistFinal(w) PROVE WindowsKnown'
    BY <2>10 DEF PersistFinal
  <2>11. ASSUME DeleteAfterCancelRead(w) PROVE WindowsKnown'
    BY <2>11 DEF DeleteAfterCancelRead
  <2>12. ASSUME DeleteAfterCancel(w) PROVE WindowsKnown'
    BY <2>12 DEF DeleteAfterCancel
  <2>13. ASSUME UpdateExperiment(w) PROVE WindowsKnown'
    BY <2>13 DEF UpdateExperiment
  <2> QED BY <1>8, <2>1, <2>2, <2>3, <2>4, <2>5, <2>6, <2>7, <2>8, <2>9, <2>10, <2>11,
     <2>12, <2>13 DEF WorkerStep
<1>9. ASSUME NEW w \in Workers, ProcessEvent(w) PROVE WindowsKnown'
  BY <1>9 DEF ProcessEvent, StopWorker, RedisError, Shutdown, Abort, Crash, Restart
<1>10. ASSUME NEW w \in Workers, NEW s \in Terminal, HandlerReturns(w, s) PROVE WindowsKnown'
  BY <1>10 DEF HandlerReturns
<1> HIDE DEF WindowsKnown
<1> QED BY <1>1, <1>2, <1>3, <1>4, <1>5, <1>6, <1>7, <1>8, <1>9, <1>10 DEF Next

\* A worker lets go of a task only when it is finished, cancelled or deleted.
LEMMA JobStatusStep ==
    ASSUME IInv, Next PROVE JobStatus'
<1>0. /\ queue \subseteq Tasks /\ allTasks \subseteq Tasks /\ acked \subseteq Tasks
      /\ hash \in [Tasks -> TaskStatus \cup {"absent"}]
      /\ pc \in [Workers -> PC] /\ job \in [Workers -> Tasks \cup {None}]
      /\ mem \in [Workers -> TaskStatus] /\ call \in [Callers -> Calls]
      /\ JobStatus
      /\ IndexSound
      /\ ExecutedOnce
      /\ CreatedIds
  BY DEF IInv, TypeOK
<1> USE <1>0, TasksAssumption
<1> USE DEF JobStatus, Enqueue, SetCancelled, DropKeys, PersistTaskState, Goto, Abandon,
            Dropped, redis, worker, history, Terminal, Holding, InTry, InFinally
<1>1. ASSUME NEW t \in Tasks, CreateTask(t) PROVE JobStatus'
  BY <1>1 DEF CreateTask, ExecutedOnce
<1>2. ASSUME NEW e \in Experiments, InitializeExperiment(e) PROVE JobStatus'
  BY <1>2 DEF InitializeExperiment
<1>3. ASSUME NEW c \in Clients, NEW e \in Experiments, ExperimentEndpoint(c, e) PROVE JobStatus'
  BY <1>3, JobType DEF ExperimentEndpoint, StartRead, StartNotApplied, StartFailed,
     StartCommit, StopBegin, StopList, CleanupRead, CleanupWrite, ExecutedOnce
<1>4. ASSUME NEW c \in Clients, NEW t \in Tasks, TaskEndpoint(c, t) PROVE JobStatus'
  BY <1>4, JobType DEF TaskEndpoint, DeleteRead, DeleteFlag, DeleteDrop, UpdateRead,
     UpdateWrite, StopRead, StopSet
<1>5. ASSUME NEW c \in Callers, NEW t \in Tasks, CancelTask(c, t) PROVE JobStatus'
  <2>1. ASSUME CancelRead(c, t) PROVE JobStatus'
    BY <2>1 DEF CancelRead
  <2>2. ASSUME CancelRefused(c, t) PROVE JobStatus'
    BY <2>2 DEF CancelRefused
  <2>3. ASSUME CancelWrite(c, t) PROVE JobStatus'
    BY <2>3 DEF CancelWrite
  <2> QED BY <1>5, <2>1, <2>2, <2>3 DEF CancelTask
<1>6. ASSUME NEW c \in Clients, StopDrop(c) PROVE JobStatus'
  BY <1>6 DEF StopDrop
<1>7. ASSUME NEW c \in Clients, CallDies(c) PROVE JobStatus'
  BY <1>7 DEF CallDies
<1>8. ASSUME NEW w \in Workers, WorkerStep(w) PROVE JobStatus'
  <2>1. ASSUME StopCheck(w) PROVE JobStatus'
    BY <2>1 DEF StopCheck
  <2>2. ASSUME PopTimesOut(w) PROVE JobStatus'
    BY <2>2 DEF PopTimesOut
  <2>3. ASSUME NEW t \in Tasks, Pop(w, t) PROVE JobStatus'
    BY <2>3 DEF Pop, IndexSound
  <2>4. ASSUME Claim(w) PROVE JobStatus'
    BY <2>4 DEF Claim
  <2>5. ASSUME CheckCancelled(w, "check1", "mark") PROVE JobStatus'
    BY <2>5 DEF CheckCancelled
  <2>6. ASSUME MarkRunning(w) PROVE JobStatus'
    BY <2>6 DEF MarkRunning, ExecutedOnce
  <2>7. ASSUME CheckCancelled(w, "check2", "run") PROVE JobStatus'
    BY <2>7 DEF CheckCancelled
  <2>8. ASSUME CancelPoll(w) PROVE JobStatus'
    BY <2>8 DEF CancelPoll
  <2>9. ASSUME ReadWasCancelled(w) PROVE JobStatus'
    BY <2>9 DEF ReadWasCancelled
  <2>10. ASSUME PersistFinal(w) PROVE JobStatus'
    BY <2>10, JobType DEF PersistFinal, ExecutedOnce
  <2>11. ASSUME DeleteAfterCancelRead(w) PROVE JobStatus'
    BY <2>11 DEF DeleteAfterCancelRead
  <2>12. ASSUME DeleteAfterCancel(w) PROVE JobStatus'
    BY <2>12, JobType DEF DeleteAfterCancel, ExecutedOnce
  <2>13. ASSUME UpdateExperiment(w) PROVE JobStatus'
    BY <2>13 DEF UpdateExperiment
  <2> QED BY <1>8, <2>1, <2>2, <2>3, <2>4, <2>5, <2>6, <2>7, <2>8, <2>9, <2>10, <2>11,
     <2>12, <2>13 DEF WorkerStep
<1>9. ASSUME NEW w \in Workers, ProcessEvent(w) PROVE JobStatus'
  BY <1>9 DEF ProcessEvent, StopWorker, RedisError, Shutdown, Abort, Crash, Restart
<1>10. ASSUME NEW w \in Workers, NEW s \in Terminal, HandlerReturns(w, s) PROVE JobStatus'
  BY <1>10 DEF HandlerReturns
<1> HIDE DEF JobStatus
<1> QED BY <1>1, <1>2, <1>3, <1>4, <1>5, <1>6, <1>7, <1>8, <1>9, <1>10 DEF Next

\* A task leaves the queue for a worker, and a worker once it is finished; stop_experiment
\* takes only those out of the queue that it has cancelled.
LEMMA NoTaskStrandedStep ==
    ASSUME IInv, Next PROVE NoTaskStranded'
<1>0. /\ queue \subseteq Tasks /\ allTasks \subseteq Tasks /\ acked \subseteq Tasks
      /\ hash \in [Tasks -> TaskStatus \cup {"absent"}]
      /\ pc \in [Workers -> PC] /\ job \in [Workers -> Tasks \cup {None}]
      /\ mem \in [Workers -> TaskStatus] /\ call \in [Callers -> Calls]
      /\ NoTaskStranded
      /\ JobStatus
      /\ QueuedStatus
  BY DEF IInv, TypeOK
<1> USE <1>0, TasksAssumption
<1> USE DEF NoTaskStranded, Enqueue, SetCancelled, DropKeys, PersistTaskState, Goto,
            Abandon, Dropped, redis, worker, history, Terminal, Holding, InTry, InFinally
<1>1. ASSUME NEW t \in Tasks, CreateTask(t) PROVE NoTaskStranded'
  BY <1>1 DEF CreateTask
<1>2. ASSUME NEW e \in Experiments, InitializeExperiment(e) PROVE NoTaskStranded'
  BY <1>2 DEF InitializeExperiment
<1>3. ASSUME NEW c \in Clients, NEW e \in Experiments, ExperimentEndpoint(c, e) PROVE NoTaskStranded'
  BY <1>3 DEF ExperimentEndpoint, StartRead, StartNotApplied, StartFailed, StartCommit,
     StopBegin, StopList, CleanupRead, CleanupWrite
<1>4. ASSUME NEW c \in Clients, NEW t \in Tasks, TaskEndpoint(c, t) PROVE NoTaskStranded'
  BY <1>4 DEF TaskEndpoint, DeleteRead, DeleteFlag, DeleteDrop, UpdateRead, UpdateWrite,
     StopRead, StopSet
<1>5. ASSUME NEW c \in Callers, NEW t \in Tasks, CancelTask(c, t) PROVE NoTaskStranded'
  BY <1>5 DEF CancelTask, CancelRead, CancelRefused, CancelWrite
<1>6. ASSUME NEW c \in Clients, StopDrop(c) PROVE NoTaskStranded'
  BY <1>6 DEF StopDrop, QueuedStatus, Continue, Callers
<1>7. ASSUME NEW c \in Clients, CallDies(c) PROVE NoTaskStranded'
  BY <1>7 DEF CallDies
<1>8. ASSUME NEW w \in Workers, WorkerStep(w) PROVE NoTaskStranded'
  <2>1. ASSUME StopCheck(w) PROVE NoTaskStranded'
    BY <2>1 DEF StopCheck
  <2>2. ASSUME PopTimesOut(w) PROVE NoTaskStranded'
    BY <2>2 DEF PopTimesOut
  <2>3. ASSUME NEW t \in Tasks, Pop(w, t) PROVE NoTaskStranded'
    BY <2>3 DEF Pop
  <2>4. ASSUME Claim(w) PROVE NoTaskStranded'
    BY <2>4 DEF Claim, JobStatus
  <2>5. ASSUME CheckCancelled(w, "check1", "mark") PROVE NoTaskStranded'
    BY <2>5 DEF CheckCancelled
  <2>6. ASSUME MarkRunning(w) PROVE NoTaskStranded'
    BY <2>6 DEF MarkRunning
  <2>7. ASSUME CheckCancelled(w, "check2", "run") PROVE NoTaskStranded'
    BY <2>7 DEF CheckCancelled
  <2>8. ASSUME CancelPoll(w) PROVE NoTaskStranded'
    BY <2>8 DEF CancelPoll
  <2>9. ASSUME ReadWasCancelled(w) PROVE NoTaskStranded'
    BY <2>9 DEF ReadWasCancelled
  <2>10. ASSUME PersistFinal(w) PROVE NoTaskStranded'
    BY <2>10 DEF PersistFinal, JobStatus
  <2>11. ASSUME DeleteAfterCancelRead(w) PROVE NoTaskStranded'
    BY <2>11 DEF DeleteAfterCancelRead
  <2>12. ASSUME DeleteAfterCancel(w) PROVE NoTaskStranded'
    BY <2>12 DEF DeleteAfterCancel
  <2>13. ASSUME UpdateExperiment(w) PROVE NoTaskStranded'
    BY <2>13 DEF UpdateExperiment, JobStatus
  <2> QED BY <1>8, <2>1, <2>2, <2>3, <2>4, <2>5, <2>6, <2>7, <2>8, <2>9, <2>10, <2>11,
     <2>12, <2>13 DEF WorkerStep
<1>9. ASSUME NEW w \in Workers, ProcessEvent(w) PROVE NoTaskStranded'
  BY <1>9 DEF ProcessEvent, StopWorker, RedisError, Shutdown, Abort, Crash, Restart
<1>10. ASSUME NEW w \in Workers, NEW s \in Terminal, HandlerReturns(w, s) PROVE NoTaskStranded'
  BY <1>10 DEF HandlerReturns
<1> HIDE DEF NoTaskStranded
<1> QED BY <1>1, <1>2, <1>3, <1>4, <1>5, <1>6, <1>7, <1>8, <1>9, <1>10 DEF Next

\* Of the writes of a whole hash, those of the worker are the only ones that could undo a
\* cancellation, and they come in the windows.
LEMMA CancelHonouredStep ==
    ASSUME IInv, Next PROVE CancelHonoured'
<1>0. /\ queue \subseteq Tasks /\ allTasks \subseteq Tasks /\ acked \subseteq Tasks
      /\ hash \in [Tasks -> TaskStatus \cup {"absent"}]
      /\ pc \in [Workers -> PC] /\ job \in [Workers -> Tasks \cup {None}]
      /\ mem \in [Workers -> TaskStatus] /\ call \in [Callers -> Calls]
      /\ CancelHonoured
      /\ WindowsKnown
      /\ CreatedIds
  BY DEF IInv, TypeOK
<1> USE <1>0, TasksAssumption
<1> USE DEF CancelHonoured, Enqueue, SetCancelled, DropKeys, PersistTaskState, Goto,
            Abandon, redis, worker, history
<1>1. ASSUME NEW t \in Tasks, CreateTask(t) PROVE CancelHonoured'
  BY <1>1 DEF CreateTask, CreatedIds
<1>2. ASSUME NEW e \in Experiments, InitializeExperiment(e) PROVE CancelHonoured'
  BY <1>2 DEF InitializeExperiment
<1>3. ASSUME NEW c \in Clients, NEW e \in Experiments, ExperimentEndpoint(c, e) PROVE CancelHonoured'
  BY <1>3 DEF ExperimentEndpoint, StartRead, StartNotApplied, StartFailed, StartCommit,
     StopBegin, StopList, CleanupRead, CleanupWrite, CreatedIds
<1>4. ASSUME NEW c \in Clients, NEW t \in Tasks, TaskEndpoint(c, t) PROVE CancelHonoured'
  BY <1>4 DEF TaskEndpoint, DeleteRead, DeleteFlag, DeleteDrop, UpdateRead, UpdateWrite,
     StopRead, StopSet
<1>5. ASSUME NEW c \in Callers, NEW t \in Tasks, CancelTask(c, t) PROVE CancelHonoured'
  BY <1>5 DEF CancelTask, CancelRead, CancelRefused, CancelWrite
<1>6. ASSUME NEW c \in Clients, StopDrop(c) PROVE CancelHonoured'
  BY <1>6 DEF StopDrop
<1>7. ASSUME NEW c \in Clients, CallDies(c) PROVE CancelHonoured'
  BY <1>7 DEF CallDies
<1>8. ASSUME NEW w \in Workers, WorkerStep(w) PROVE CancelHonoured'
  <2>1. ASSUME StopCheck(w) PROVE CancelHonoured'
    BY <2>1 DEF StopCheck
  <2>2. ASSUME PopTimesOut(w) PROVE CancelHonoured'
    BY <2>2 DEF PopTimesOut
  <2>3. ASSUME NEW t \in Tasks, Pop(w, t) PROVE CancelHonoured'
    BY <2>3 DEF Pop
  <2>4. ASSUME Claim(w) PROVE CancelHonoured'
    BY <2>4 DEF Claim
  <2>5. ASSUME CheckCancelled(w, "check1", "mark") PROVE CancelHonoured'
    BY <2>5 DEF CheckCancelled
  <2>6. ASSUME MarkRunning(w) PROVE CancelHonoured'
    BY <2>6 DEF MarkRunning, WindowsKnown
  <2>7. ASSUME CheckCancelled(w, "check2", "run") PROVE CancelHonoured'
    BY <2>7 DEF CheckCancelled
  <2>8. ASSUME CancelPoll(w) PROVE CancelHonoured'
    BY <2>8 DEF CancelPoll
  <2>9. ASSUME ReadWasCancelled(w) PROVE CancelHonoured'
    BY <2>9 DEF ReadWasCancelled
  <2>10. ASSUME PersistFinal(w) PROVE CancelHonoured'
    BY <2>10 DEF PersistFinal, WindowsKnown
  <2>11. ASSUME DeleteAfterCancelRead(w) PROVE CancelHonoured'
    BY <2>11 DEF DeleteAfterCancelRead
  <2>12. ASSUME DeleteAfterCancel(w) PROVE CancelHonoured'
    BY <2>12 DEF DeleteAfterCancel
  <2>13. ASSUME UpdateExperiment(w) PROVE CancelHonoured'
    BY <2>13 DEF UpdateExperiment
  <2> QED BY <1>8, <2>1, <2>2, <2>3, <2>4, <2>5, <2>6, <2>7, <2>8, <2>9, <2>10, <2>11,
     <2>12, <2>13 DEF WorkerStep
<1>9. ASSUME NEW w \in Workers, ProcessEvent(w) PROVE CancelHonoured'
  BY <1>9 DEF ProcessEvent, StopWorker, RedisError, Shutdown, Abort, Crash, Restart
<1>10. ASSUME NEW w \in Workers, NEW s \in Terminal, HandlerReturns(w, s) PROVE CancelHonoured'
  BY <1>10 DEF HandlerReturns
<1> HIDE DEF CancelHonoured
<1> QED BY <1>1, <1>2, <1>3, <1>4, <1>5, <1>6, <1>7, <1>8, <1>9, <1>10 DEF Next

\* RUNNING comes with a task, and the worker that finishes the task reports its outcome.
LEMMA RunningExperimentHasTaskStep ==
    ASSUME IInv, Next PROVE RunningExperimentHasTask'
<1>0. /\ queue \subseteq Tasks /\ allTasks \subseteq Tasks /\ acked \subseteq Tasks
      /\ hash \in [Tasks -> TaskStatus \cup {"absent"}]
      /\ pc \in [Workers -> PC] /\ job \in [Workers -> Tasks \cup {None}]
      /\ mem \in [Workers -> TaskStatus] /\ call \in [Callers -> Calls]
      /\ RunningExperimentHasTask
      /\ JobStatus
      /\ QueuedStatus
      /\ CreatedIds
      /\ expStatus \in [Experiments -> ExperimentStatus]
      /\ created' = created => Created' = Created
      /\ TypeOK
  BY DEF IInv, TypeOK, Created
<1> USE <1>0, TasksAssumption
<1> USE DEF RunningExperimentHasTask, Unsettled, SetCancelled, DropKeys, PersistTaskState,
            Goto, Abandon, Dropped, redis, worker, history, Terminal, Holding, InTry,
            InFinally
<1>1. ASSUME NEW t \in Tasks, CreateTask(t) PROVE RunningExperimentHasTask'
  <2>1. Created' = Created \cup {t}
    BY <1>1, CreatedEnqueue DEF CreateTask
  <2> QED BY <1>1, <2>1 DEF CreateTask, Enqueue, CreatedIds
<1>2. ASSUME NEW e \in Experiments, InitializeExperiment(e) PROVE RunningExperimentHasTask'
  BY <1>2 DEF InitializeExperiment
<1>3. ASSUME NEW c \in Clients, NEW e \in Experiments, ExperimentEndpoint(c, e) PROVE RunningExperimentHasTask'
  <2>1. ASSUME StartRead(c, e) PROVE RunningExperimentHasTask'
    BY <2>1 DEF StartRead
  <2>2. ASSUME StartNotApplied(c, e) PROVE RunningExperimentHasTask'
    BY <2>2 DEF StartNotApplied
  <2>3. ASSUME StartFailed(c, e) PROVE RunningExperimentHasTask'
    BY <2>3 DEF StartFailed
  <2>4. ASSUME NEW t \in Tasks, StartCommit(c, e, t) PROVE RunningExperimentHasTask'
    <3>1. Created' = Created \cup {t}
      BY <2>4, CreatedEnqueue DEF StartCommit
    <3> QED BY <2>4, <3>1 DEF StartCommit, Enqueue, CreatedIds
  <2>5. ASSUME StopBegin(c, e) PROVE RunningExperimentHasTask'
    BY <2>5 DEF StopBegin
  <2>6. ASSUME StopList(c, e) PROVE RunningExperimentHasTask'
    BY <2>6 DEF StopList
  <2>7. ASSUME CleanupRead(c, e) PROVE RunningExperimentHasTask'
    BY <2>7 DEF CleanupRead
  <2>8. ASSUME CleanupWrite(c, e) PROVE RunningExperimentHasTask'
    <3> SUFFICES ASSUME NEW x \in Experiments, expStatus'[x] = "running"
                 PROVE  \E t \in RunTasks \cap Created' : ExpOf[t] = x /\ Unsettled(t)'
      OBVIOUS
    <3>1. expStatus[x] = "running" /\ Created' = Created
      BY <2>8 DEF CleanupWrite
    <3>2. PICK t \in RunTasks \cap Created : ExpOf[t] = x /\ Unsettled(t)
      BY <3>1
    <3>3. CASE t \in call[c].ids
      BY <2>8, <3>1, <3>2, <3>3 DEF CleanupWrite
    <3>4. CASE t \notin call[c].ids
      <4>1. hash'[t] = hash[t] /\ (t \in queue => t \in queue')
        BY <2>8, <3>2, <3>4 DEF CleanupWrite
      <4>2. UNCHANGED <<excused, pc, job>>
        BY <2>8 DEF CleanupWrite
      <4>3. Unsettled(t)'
        BY <3>2, <4>1, <4>2
      <4> QED BY <3>1, <3>2, <4>3
    <3> QED BY <3>3, <3>4
  <2> QED BY <1>3, <2>1, <2>2, <2>3, <2>4, <2>5, <2>6, <2>7, <2>8 DEF ExperimentEndpoint
<1>4. ASSUME NEW c \in Clients, NEW t \in Tasks, TaskEndpoint(c, t) PROVE RunningExperimentHasTask'
  BY <1>4 DEF TaskEndpoint, DeleteRead, DeleteFlag, DeleteDrop, UpdateRead, UpdateWrite,
     StopRead, StopSet
<1>5. ASSUME NEW c \in Callers, NEW t \in Tasks, CancelTask(c, t) PROVE RunningExperimentHasTask'
  BY <1>5 DEF CancelTask, CancelRead, CancelRefused, CancelWrite
<1>6. ASSUME NEW c \in Clients, StopDrop(c) PROVE RunningExperimentHasTask'
  BY <1>6 DEF StopDrop, QueuedStatus, Continue, Callers
<1>7. ASSUME NEW c \in Clients, CallDies(c) PROVE RunningExperimentHasTask'
  BY <1>7 DEF CallDies
<1>8. ASSUME NEW w \in Workers, WorkerStep(w) PROVE RunningExperimentHasTask'
  <2>1. ASSUME StopCheck(w) PROVE RunningExperimentHasTask'
    BY <2>1 DEF StopCheck
  <2>2. ASSUME PopTimesOut(w) PROVE RunningExperimentHasTask'
    BY <2>2 DEF PopTimesOut
  <2>3. ASSUME NEW t \in Tasks, Pop(w, t) PROVE RunningExperimentHasTask'
    BY <2>3 DEF Pop
  <2>4. ASSUME Claim(w) PROVE RunningExperimentHasTask'
    BY <2>4 DEF Claim, JobStatus
  <2>5. ASSUME CheckCancelled(w, "check1", "mark") PROVE RunningExperimentHasTask'
    BY <2>5 DEF CheckCancelled
  <2>6. ASSUME MarkRunning(w) PROVE RunningExperimentHasTask'
    BY <2>6 DEF MarkRunning
  <2>7. ASSUME CheckCancelled(w, "check2", "run") PROVE RunningExperimentHasTask'
    BY <2>7 DEF CheckCancelled
  <2>8. ASSUME CancelPoll(w) PROVE RunningExperimentHasTask'
    BY <2>8 DEF CancelPoll
  <2>9. ASSUME ReadWasCancelled(w) PROVE RunningExperimentHasTask'
    BY <2>9 DEF ReadWasCancelled
  <2>10. ASSUME PersistFinal(w) PROVE RunningExperimentHasTask'
    BY <2>10 DEF PersistFinal, JobStatus
  <2>11. ASSUME DeleteAfterCancelRead(w) PROVE RunningExperimentHasTask'
    BY <2>11 DEF DeleteAfterCancelRead
  <2>12. ASSUME DeleteAfterCancel(w) PROVE RunningExperimentHasTask'
    BY <2>12 DEF DeleteAfterCancel
  <2>13. ASSUME UpdateExperiment(w) PROVE RunningExperimentHasTask'
    BY <2>13 DEF UpdateExperiment, JobStatus, ReportOutcome
  <2> QED BY <1>8, <2>1, <2>2, <2>3, <2>4, <2>5, <2>6, <2>7, <2>8, <2>9, <2>10, <2>11,
     <2>12, <2>13 DEF WorkerStep
<1>9. ASSUME NEW w \in Workers, ProcessEvent(w) PROVE RunningExperimentHasTask'
  BY <1>9 DEF ProcessEvent, StopWorker, RedisError, Shutdown, Abort, Crash, Restart
<1>10. ASSUME NEW w \in Workers, NEW s \in Terminal, HandlerReturns(w, s) PROVE RunningExperimentHasTask'
  BY <1>10 DEF HandlerReturns
<1> HIDE DEF RunningExperimentHasTask
<1> QED BY <1>1, <1>2, <1>3, <1>4, <1>5, <1>6, <1>7, <1>8, <1>9, <1>10 DEF Next

-----------------------------------------------------------------------------
(* The invariants.                                                         *)

\* The empty database and an idle worker satisfy the inductive invariant.
LEMMA InitInvariant == Init => IInv
<1> SUFFICES ASSUME Init PROVE IInv
  OBVIOUS
<1> USE TasksAssumption
<1>1. Created = {}
  BY DEF Init, Created
<1>2. TypeOK
  BY DEF Init, TypeOK, TaskStatus, Terminal, ExperimentStatus, PC, Holding, Callers, Calls,
         CallOps, Idle, Step, Batch
<1>3. CreatedIds /\ QueuedStatus
  BY <1>1 DEF Init, CreatedIds, QueuedStatus, Callers, Idle, Step, Batch
<1>4. ExecutedOnce /\ IndexSound /\ WindowsKnown /\ JobStatus
  BY DEF Init, ExecutedOnce, IndexSound, WindowsKnown, JobStatus, Holding, InTry, InFinally
<1>5. NoTaskStranded /\ CancelHonoured /\ RunningExperimentHasTask
  BY DEF Init, NoTaskStranded, CancelHonoured, RunningExperimentHasTask
<1> QED BY <1>2, <1>3, <1>4, <1>5 DEF IInv

\* No step, of an endpoint, a worker or the environment, leaves the inductive invariant.
LEMMA StepInvariant == IInv /\ [Next]_vars => IInv'
<1>1. IInv /\ Next => IInv'
  BY TypeStep, CreatedIdsStep, ExecutedStep, IndexSoundStep, QueuedStatusStep, WindowsKnownStep,
     JobStatusStep, NoTaskStrandedStep, CancelHonouredStep, RunningExperimentHasTaskStep DEF IInv
<1>2. IInv /\ UNCHANGED vars => IInv'
  BY DEF IInv, TypeOK, CreatedIds, ExecutedOnce, IndexSound, QueuedStatus, WindowsKnown,
         JobStatus, NoTaskStranded, CancelHonoured, RunningExperimentHasTask, Unsettled,
         Created, vars, redis, worker, history, bounds
<1> QED BY <1>1, <1>2

\* The inductive invariant holds in every reachable state.
THEOREM Invariance == Spec => []IInv
BY InitInvariant, StepInvariant, PTL DEF Spec

\* The records in Redis, the worker and the requests keep to their types.
THEOREM TypeCorrect == Spec => []TypeOK
<1>1. IInv => TypeOK
  BY DEF IInv
<1> QED BY <1>1, Invariance, PTL

\* No task is executed twice, whatever crashes or is retried.
THEOREM ExecutedAtMostOnce == Spec => []ExecutedOnce
<1>1. IInv => ExecutedOnce
  BY DEF IInv
<1> QED BY <1>1, Invariance, PTL

\* all_tasks, task_queue and the keys agree under every interleaving of deletions,
\* cleanups and a worker that rewrites whole hashes.
THEOREM IndexAlwaysSound == Spec => []IndexSound
<1>1. IInv => IndexSound
  BY DEF IInv
<1> QED BY <1>1, Invariance, PTL

\* A task that was accepted is lost only with the process that held it.
THEOREM NoTaskIsStranded == Spec => []NoTaskStranded
<1>1. IInv => NoTaskStranded
  BY DEF IInv
<1> QED BY <1>1, Invariance, PTL

\* Outside the two windows a cancellation is final.
THEOREM CancellationHonoured == Spec => []CancelHonoured
<1>1. IInv => CancelHonoured
  BY DEF IInv
<1> QED BY <1>1, Invariance, PTL

\* The runner does not go on reporting RUNNING for a run that ended.
THEOREM RunningIsBacked == Spec => []RunningExperimentHasTask
<1>1. IInv => RunningExperimentHasTask
  BY DEF IInv
<1> QED BY <1>1, Invariance, PTL

-----------------------------------------------------------------------------
(* The safety half of CancelFreesWorker: the worker is on its way out.     *)

\* How many steps a worker that holds a task is from letting go of it, at most.
Ahead == [claim |-> 9, check1 |-> 8, mark |-> 7, check2 |-> 6, run |-> 5, final |-> 4,
          persist |-> 3, del |-> 2, delx |-> 1, expst |-> 0]
BeforeFinally == {"claim"} \cup InTry

Leaves(w) ==
    \/ job'[w] # job[w]
    \/ Ahead[pc'[w]] < Ahead[pc[w]]
    \/ pc'[w] = pc[w] /\ ~WorkerStep(w)

\* A cancellation of its task makes the worker's next step its last before the finally block,
\* and while the handler runs the poll can take it.
Caught(w) ==
    /\ pc[w] = "run" => hash[job[w]] = "cancelled"
    /\ pc[w] \in BeforeFinally /\ pc'[w] # pc[w] => pc'[w] \notin BeforeFinally

\* A worker never goes back on a task: each step, of its own or of the environment, brings it
\* closer to its end or leaves it where it is, and a cancelled one does not come to run.
CancelAdvances ==
    [][\A w \in Workers : pc[w] \in Holding =>
          /\ Leaves(w)
          /\ job[w] \in acked \ windowed => Caught(w)]_vars

\* Where a worker may be after one step, if it still holds its task.
Forward == [claim |-> {"check1"}, check1 |-> {"mark", "final"}, mark |-> {"check2", "final"},
            check2 |-> {"run", "final"}, run |-> {"final"}, final |-> {"persist"},
            persist |-> {"del"}, del |-> {"delx", "expst"}, delx |-> {"expst"}, expst |-> {}]

\* What a step does to a worker that holds a task; a cancelled one is not taken towards "run".
Moves(w) ==
    \/ pc'[w] = pc[w]
    \/ job'[w] # job[w] /\ pc'[w] \in {"top", "down"}
    \/ /\ pc'[w] \in Forward[pc[w]]
       /\ pc[w] \in BeforeFinally /\ hash[job[w]] = "cancelled" => pc'[w] = "final" \/ pc[w] = "mark"

\* The worker's own step always moves it.
LEMMA WorkerMoves ==
    ASSUME TypeOK, NEW w \in Workers, WorkerStep(w)
    PROVE  pc'[w] # pc[w]
<1>1. pc \in [Workers -> PC]
  BY DEF TypeOK
<1> USE <1>1 DEF Goto
<1>2. CASE StopCheck(w) \/ PopTimesOut(w) \/ (\E t \in Tasks : Pop(w, t)) \/ Claim(w)
  BY <1>2 DEF StopCheck, PopTimesOut, Pop, Claim
<1>3. CASE CheckCancelled(w, "check1", "mark") \/ MarkRunning(w) \/ CheckCancelled(w, "check2", "run")
           \/ CancelPoll(w)
  BY <1>3 DEF CheckCancelled, MarkRunning, CancelPoll
<1>4. CASE ReadWasCancelled(w) \/ PersistFinal(w) \/ DeleteAfterCancelRead(w) \/ DeleteAfterCancel(w)
           \/ UpdateExperiment(w)
  BY <1>4 DEF ReadWasCancelled, PersistFinal, DeleteAfterCancelRead, DeleteAfterCancel, UpdateExperiment
<1> QED BY <1>2, <1>3, <1>4 DEF WorkerStep

LEMMA MovesStep ==
    ASSUME IInv, [Next]_vars, NEW w \in Workers, pc[w] \in Holding
    PROVE  Moves(w)
<1>0. /\ pc \in [Workers -> PC] /\ job \in [Workers -> Tasks \cup {None}]
      /\ job[w] # None
  BY JobType, TasksAssumption DEF IInv, TypeOK
<1>1. ASSUME pc'[w] = pc[w] PROVE Moves(w)
  BY <1>1 DEF Moves
<1>2. ASSUME NEW from, NEW to, pc[w] = from, Goto(w, from, to), to \in Forward[from],
             from \in BeforeFinally /\ hash[job[w]] = "cancelled" => to = "final" \/ from = "mark"
      PROVE  Moves(w)
  BY <1>0, <1>2 DEF Moves, Goto
<1>3. ASSUME NEW to \in {"top", "down"}, pc' = [pc EXCEPT ![w] = to], job' = [job EXCEPT ![w] = None]
      PROVE  Moves(w)
  BY <1>0, <1>3 DEF Moves
<1>4. CASE UNCHANGED vars
  BY <1>1, <1>4 DEF vars, worker
<1>5. ASSUME NEW t \in Tasks, CreateTask(t) PROVE Moves(w)
  BY <1>1, <1>5 DEF CreateTask, worker
<1>6. ASSUME NEW e \in Experiments, InitializeExperiment(e) PROVE Moves(w)
  BY <1>1, <1>6 DEF InitializeExperiment, worker
<1>7. ASSUME NEW c \in Clients, NEW e \in Experiments, ExperimentEndpoint(c, e) PROVE Moves(w)
  BY <1>1, <1>7 DEF ExperimentEndpoint, StartRead, StartNotApplied, StartFailed, StartCommit, StopBegin,
     StopList, CleanupRead, CleanupWrite, worker
<1>8. ASSUME NEW c \in Clients, NEW t \in Tasks, TaskEndpoint(c, t) PROVE Moves(w)
  BY <1>1, <1>8 DEF TaskEndpoint, DeleteRead, DeleteFlag, DeleteDrop, UpdateRead, UpdateWrite,
     StopRead, StopSet, worker
<1>9. ASSUME NEW c \in Callers, NEW t \in Tasks, CancelTask(c, t) PROVE Moves(w)
  BY <1>1, <1>9 DEF CancelTask, CancelRead, CancelRefused, CancelWrite, worker
<1>10. ASSUME NEW c \in Clients, StopDrop(c) \/ CallDies(c) PROVE Moves(w)
  BY <1>1, <1>10 DEF StopDrop, CallDies, worker
<1>11. ASSUME NEW v \in Workers \ {w}, WorkerStep(v) \/ ProcessEvent(v) \/ \E s \in Terminal : HandlerReturns(v, s)
       PROVE  Moves(w)
  <2>1. pc' = pc \/ \E to : pc' = [pc EXCEPT ![v] = to]
    BY <1>11 DEF WorkerStep, StopCheck, PopTimesOut, Pop, Claim, CheckCancelled, MarkRunning,
       CancelPoll, ReadWasCancelled, PersistFinal, DeleteAfterCancelRead, DeleteAfterCancel,
       UpdateExperiment, Goto, ProcessEvent, StopWorker, RedisError, Shutdown, Abort, Crash, Restart,
       Abandon, HandlerReturns, worker
  <2> QED BY <1>0, <1>1, <2>1
<1>12. ASSUME WorkerStep(w) PROVE Moves(w)
  <2> USE DEF Forward, BeforeFinally, InTry, Holding, InFinally
  <2>1. CASE StopCheck(w) \/ PopTimesOut(w) \/ \E t \in Tasks : Pop(w, t)
    BY <2>1 DEF StopCheck, PopTimesOut, Pop, Goto
  <2>2. CASE Claim(w)
    <3>1. CASE hash[job[w]] = "cancelled" \/ job[w] \notin allTasks
      BY <1>3, <2>2, <3>1 DEF Claim, Goto
    <3>2. CASE ~(hash[job[w]] = "cancelled" \/ job[w] \notin allTasks)
      BY <1>2, <2>2, <3>2 DEF Claim
    <3> QED BY <3>1, <3>2
  <2>3. CASE CheckCancelled(w, "check1", "mark")
    BY <1>2, <2>3 DEF CheckCancelled
  <2>4. CASE CheckCancelled(w, "check2", "run")
    BY <1>2, <2>4 DEF CheckCancelled
  <2>5. CASE MarkRunning(w)
    <3>1. Goto(w, "mark", "check2") /\ pc[w] = "mark"
      BY <2>5 DEF MarkRunning, Goto
    <3> QED BY <1>2, <3>1
  <2>6. CASE CancelPoll(w)
    <3>1. Goto(w, "run", "final") /\ pc[w] = "run"
      BY <2>6 DEF CancelPoll, Goto
    <3> QED BY <1>2, <3>1
  <2>7. CASE ReadWasCancelled(w)
    <3>1. Goto(w, "final", "persist") /\ pc[w] = "final"
      BY <2>7 DEF ReadWasCancelled, Goto
    <3> QED BY <1>2, <3>1
  <2>8. CASE PersistFinal(w)
    <3>1. Goto(w, "persist", "del") /\ pc[w] = "persist"
      BY <2>8 DEF PersistFinal, Goto
    <3> QED BY <1>2, <3>1
  <2>9. CASE DeleteAfterCancelRead(w)
    <3>1. PICK to \in {"delx", "expst"} : Goto(w, "del", to) /\ pc[w] = "del"
      BY <2>9 DEF DeleteAfterCancelRead
    <3> QED BY <1>2, <3>1
  <2>10. CASE DeleteAfterCancel(w)
    <3>1. Goto(w, "delx", "expst") /\ pc[w] = "delx"
      BY <2>10 DEF DeleteAfterCancel, Goto
    <3> QED BY <1>2, <3>1
  <2>11. CASE UpdateExperiment(w)
    BY <1>3, <2>11 DEF UpdateExperiment, Goto
  <2> QED BY <1>12, <2>1, <2>2, <2>3, <2>4, <2>5, <2>6, <2>7, <2>8, <2>9, <2>10, <2>11 DEF WorkerStep
<1>13. ASSUME ProcessEvent(w) PROVE Moves(w)
  <2>1. CASE StopWorker(w) \/ Shutdown(w)
    BY <1>1, <2>1 DEF StopWorker, Shutdown, worker
  <2>2. ASSUME pc[w] \in InTry, pc' = [pc EXCEPT ![w] = "final"] PROVE Moves(w)
    BY <1>0, <2>2 DEF Moves, Forward, InTry
  <2>3. CASE RedisError(w)
    <3>1. CASE pc[w] \in {"del", "delx"} /\ pc' = [pc EXCEPT ![w] = "expst"]
      BY <1>0, <3>1 DEF Moves, Forward, BeforeFinally, InTry
    <3> QED BY <1>3, <2>2, <2>3, <3>1 DEF RedisError, Abandon
  <2>4. CASE Abort(w)
    BY <1>3, <2>2, <2>4 DEF Abort, Abandon
  <2>5. CASE Crash(w)
    BY <1>3, <2>5 DEF Crash, Abandon
  <2>6. CASE Restart(w)
    BY <2>6 DEF Restart, Holding, InTry, InFinally
  <2> QED BY <1>13, <2>1, <2>3, <2>4, <2>5, <2>6 DEF ProcessEvent
<1>14. ASSUME NEW s \in Terminal, HandlerReturns(w, s) PROVE Moves(w)
  <2>1. Goto(w, "run", "final") /\ pc[w] = "run"
    BY <1>14 DEF HandlerReturns, Goto
  <2> QED BY <1>2, <2>1 DEF Forward
<1> QED BY <1>4, <1>5, <1>6, <1>7, <1>8, <1>9, <1>10, <1>11, <1>12, <1>13, <1>14 DEF Next

\* A cancelled task is on its way out of the worker's hands.
THEOREM CancelledGoesOut == Spec => CancelAdvances
<1>1. ASSUME IInv, [Next]_vars, NEW w \in Workers, pc[w] \in Holding
      PROVE  Leaves(w) /\ (job[w] \in acked \ windowed => Caught(w))
  <2>1. Moves(w) /\ TypeOK
    BY <1>1, MovesStep DEF IInv
  <2>2. pc[w] # "expst" /\ pc'[w] \in Forward[pc[w]] => Ahead[pc'[w]] < Ahead[pc[w]]
    BY <1>1 DEF Forward, Ahead, Holding, InTry, InFinally
  <2>3. pc[w] = "expst" => pc'[w] \notin Forward[pc[w]]
    BY DEF Forward
  <2>4. Leaves(w)
    BY <1>1, <2>1, <2>2, <2>3, WorkerMoves DEF Leaves, Moves
  <2>5. ASSUME job[w] \in acked \ windowed PROVE Caught(w)
    <3>1. hash[job[w]] = "cancelled" /\ pc[w] # "mark"
      BY <1>1, <2>5, JobType DEF IInv, CancelHonoured, WindowsKnown
    <3> QED BY <2>1, <3>1 DEF Caught, Moves, BeforeFinally, InTry
  <2> QED BY <2>4, <2>5
<1>2. IInv /\ [Next]_vars =>
        [\A w \in Workers : pc[w] \in Holding =>
            /\ Leaves(w)
            /\ job[w] \in acked \ windowed => Caught(w)]_vars
  BY <1>1
<1> QED BY <1>2, Invariance, PTL DEF Spec, CancelAdvances

=============================================================================
