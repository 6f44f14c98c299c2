------------------------ MODULE RunnerTasksRefinement ------------------------
(***************************************************************************)
(* RunnerTasks implements WorkQueue, for any number of tasks, workers,     *)
(* requests and faults: the initial states are those of WorkQueue, and     *)
(* every step of Next is a submission, a take, a withdrawal, a worker      *)
(* letting go of what it took, or leaves queue, created and job alone.     *)
(***************************************************************************)
EXTENDS RunnerTasksProofs

-----------------------------------------------------------------------------
(* A worker's coroutine carries a task exactly where it is executing one.  *)

HandsFree == \A w \in Workers : pc[w] \notin Holding => job[w] = None

\* No step leaves a worker that is not executing with a task in hand.
LEMMA HandsFreeStep ==
    ASSUME IInv, HandsFree, Next PROVE HandsFree'
<1>0. /\ pc \in [Workers -> PC] /\ job \in [Workers -> Tasks \cup {None}]
      /\ HandsFree
  BY DEF IInv, TypeOK
<1> USE <1>0
<1> USE DEF HandsFree, Holding, InTry, InFinally, Goto, Abandon, redis, worker
<1>1. ASSUME UNCHANGED <<pc, job>> PROVE HandsFree'
  BY <1>1
<1>2. ASSUME NEW t \in Tasks, CreateTask(t) PROVE UNCHANGED <<pc, job>>
  BY <1>2 DEF CreateTask
<1>3. ASSUME NEW e \in Experiments, InitializeExperiment(e) PROVE UNCHANGED <<pc, job>>
  BY <1>3 DEF InitializeExperiment
<1>4. ASSUME NEW c \in Clients, NEW e \in Experiments, ExperimentEndpoint(c, e)
      PROVE UNCHANGED <<pc, job>>
  BY <1>4 DEF ExperimentEndpoint, StartRead, StartNotApplied, StartFailed, StartCommit, StopBegin,
     StopList, CleanupRead, CleanupWrite
<1>5. ASSUME NEW c \in Clients, NEW t \in Tasks, TaskEndpoint(c, t) PROVE UNCHANGED <<pc, job>>
  BY <1>5 DEF TaskEndpoint, DeleteRead, DeleteFlag, DeleteDrop, UpdateRead, UpdateWrite,
     StopRead, StopSet
<1>6. ASSUME NEW c \in Callers, NEW t \in Tasks, CancelTask(c, t) PROVE UNCHANGED <<pc, job>>
  BY <1>6 DEF CancelTask, CancelRead, CancelRefused, CancelWrite
<1>7. ASSUME NEW c \in Clients, StopDrop(c) \/ CallDies(c) PROVE UNCHANGED <<pc, job>>
  BY <1>7 DEF StopDrop, CallDies
<1>8. ASSUME NEW w \in Workers, WorkerStep(w) PROVE HandsFree'
  <2>1. ASSUME StopCheck(w) \/ PopTimesOut(w) PROVE HandsFree'
    BY <2>1 DEF StopCheck, PopTimesOut
  <2>2. ASSUME NEW t \in Tasks, Pop(w, t) PROVE HandsFree'
    BY <2>2 DEF Pop
  <2>3. ASSUME Claim(w) PROVE HandsFree'
    BY <2>3 DEF Claim
  <2>4. ASSUME CheckCancelled(w, "check1", "mark") \/ CheckCancelled(w, "check2", "run")
        PROVE HandsFree'
    BY <2>4 DEF CheckCancelled
  <2>5. ASSUME MarkRunning(w) \/ CancelPoll(w) PROVE HandsFree'
    BY <2>5 DEF MarkRunning, CancelPoll
  <2>6. ASSUME ReadWasCancelled(w) \/ PersistFinal(w) PROVE HandsFree'
    BY <2>6 DEF ReadWasCancelled, PersistFinal
  <2>7. ASSUME DeleteAfterCancelRead(w) \/ DeleteAfterCancel(w) PROVE HandsFree'
    BY <2>7 DEF DeleteAfterCancelRead, DeleteAfterCancel
  <2>8. ASSUME UpdateExperiment(w) PROVE HandsFree'
    BY <2>8 DEF UpdateExperiment
  <2> QED BY <1>8, <2>1, <2>2, <2>3, <2>4, <2>5, <2>6, <2>7, <2>8 DEF WorkerStep
<1>9. ASSUME NEW w \in Workers, ProcessEvent(w) PROVE HandsFree'
  <2>1. ASSUME StopWorker(w) \/ Shutdown(w) PROVE UNCHANGED <<pc, job>>
    BY <2>1 DEF StopWorker, Shutdown
  <2>2. ASSUME RedisError(w) PROVE HandsFree'
    BY <2>2 DEF RedisError
  <2>3. ASSUME Abort(w) PROVE HandsFree'
    BY <2>3 DEF Abort
  <2>4. ASSUME Crash(w) PROVE HandsFree'
    BY <2>4 DEF Crash
  <2>5. ASSUME Restart(w) PROVE HandsFree'
    BY <2>5 DEF Restart
  <2> QED BY <1>1, <1>9, <2>1, <2>2, <2>3, <2>4, <2>5 DEF ProcessEvent
<1>10. ASSUME NEW w \in Workers, NEW s \in Terminal, HandlerReturns(w, s) PROVE HandsFree'
  BY <1>10 DEF HandlerReturns
<1> HIDE DEF HandsFree
<1> QED BY <1>1, <1>2, <1>3, <1>4, <1>5, <1>6, <1>7, <1>8, <1>9, <1>10 DEF Next

-----------------------------------------------------------------------------
(* Each step of RunnerTasks is one of WorkQueue, or a stutter.             *)

\* add_enqueue_ops submits the task: its id is new.
LEMMA EnqueueSubmits ==
    ASSUME NEW t \in Tasks, Enqueue(t), UNCHANGED job PROVE WQ!Next
<1>1. ~WQ!Submitted(t)
  BY DEF WQ!Submitted, Enqueue, Created
<1>2. WQ!Submit(t)
  BY <1>1 DEF WQ!Submit, Enqueue
<1> QED BY <1>2 DEF WQ!Next

\* Cancellation, deletion, cleanup and stop only ever withdraw tasks.
LEMMA Withdraws ==
    ASSUME queue' \subseteq queue, UNCHANGED <<created, job>> PROVE WQ!Next
BY DEF WQ!Next, WQ!Withdraw

\* BRPOP hands the oldest waiting task to a worker that has none.
LEMMA PopTakes ==
    ASSUME IInv, HandsFree, NEW w \in Workers, NEW t \in Tasks, Pop(w, t) PROVE WQ!Next
<1>1. job[w] = None
  BY DEF HandsFree, Pop, Goto, Holding, InTry, InFinally
<1>2. created \in Seq(Tasks)
  BY DEF IInv, TypeOK
<1>3. WQ!First(t)
  <2>1. PICK i \in DOMAIN created : created[i] = t /\ \A j \in 1..(i - 1) : created[j] \notin queue
    BY DEF Pop, IsOldest
  <2>2. DOMAIN created = 1..Len(created) /\ Len(created) \in Nat
    BY <1>2
  <2>3. \A j \in DOMAIN created : created[j] \in queue => i <= j
    BY <2>1, <2>2
  <2> QED BY <2>1, <2>3 DEF WQ!First, Pop
<1>4. WQ!Take(w, t)
  BY <1>1, <1>3 DEF WQ!Take, Pop
<1> QED BY <1>4 DEF WQ!Next

\* A worker that changes what it carries otherwise drops it.
LEMMA DropsLetGo ==
    ASSUME IInv, NEW w \in Workers, UNCHANGED <<created, queue>>,
           job' = job \/ job' = [job EXCEPT ![w] = None]
    PROVE [WQ!Next]_(WQ!queued)
<1>1. CASE job' = job
  BY <1>1 DEF WQ!queued
<1>2. CASE job' = [job EXCEPT ![w] = None] /\ job[w] # None
  <2>1. WQ!LetGo(w)
    BY <1>2 DEF WQ!LetGo
  <2> QED BY <2>1 DEF WQ!Next
<1>3. CASE job' = [job EXCEPT ![w] = None] /\ job[w] = None
  <2>1. job \in [Workers -> Tasks \cup {None}]
    BY DEF IInv, TypeOK
  <2>2. job' = job
    BY <1>3, <2>1
  <2> QED BY <2>2 DEF WQ!queued
<1> QED BY <1>1, <1>2, <1>3

\* The simulation.
LEMMA StepRefines ==
    ASSUME IInv, HandsFree, Next PROVE [WQ!Next]_(WQ!queued)
<1> USE DEF redis, worker
<1>1. ASSUME NEW t \in Tasks, CreateTask(t) PROVE WQ!Next
  BY <1>1, EnqueueSubmits DEF CreateTask
<1>2. ASSUME NEW e \in Experiments, InitializeExperiment(e) PROVE UNCHANGED <<created, queue, job>>
  BY <1>2 DEF InitializeExperiment
<1>3. ASSUME NEW c \in Clients, NEW e \in Experiments, ExperimentEndpoint(c, e)
      PROVE WQ!Next \/ UNCHANGED <<created, queue, job>>
  <2>1. ASSUME NEW t \in Tasks, StartCommit(c, e, t) PROVE WQ!Next
    BY <2>1, EnqueueSubmits DEF StartCommit
  <2>2. ASSUME CleanupWrite(c, e) PROVE WQ!Next
    BY <2>2, Withdraws DEF CleanupWrite
  <2>3. ASSUME StartRead(c, e) \/ StartNotApplied(c, e) \/ StartFailed(c, e) \/ StopBegin(c, e)
               \/ StopList(c, e) \/ CleanupRead(c, e)
        PROVE UNCHANGED <<created, queue, job>>
    BY <2>3 DEF StartRead, StartNotApplied, StartFailed, StopBegin, StopList, CleanupRead
  <2> QED BY <1>3, <2>1, <2>2, <2>3 DEF ExperimentEndpoint
<1>4. ASSUME NEW c \in Clients, NEW t \in Tasks, TaskEndpoint(c, t)
      PROVE WQ!Next \/ UNCHANGED <<created, queue, job>>
  <2>1. ASSUME DeleteDrop(c, t) PROVE WQ!Next
    BY <2>1, Withdraws DEF DeleteDrop
  <2>2. ASSUME DeleteRead(c, t) \/ DeleteFlag(c, t) \/ UpdateRead(c, t) \/ StopRead(c, t)
               \/ StopSet(c, t) \/ \E s \in PutStatuses : UpdateWrite(c, t, s)
        PROVE UNCHANGED <<created, queue, job>>
    BY <2>2 DEF DeleteRead, DeleteFlag, UpdateRead, StopRead, StopSet, UpdateWrite
  <2> QED BY <1>4, <2>1, <2>2 DEF TaskEndpoint
<1>5. ASSUME NEW c \in Callers, NEW t \in Tasks, CancelTask(c, t)
      PROVE WQ!Next \/ UNCHANGED <<created, queue, job>>
  <2>1. ASSUME CancelWrite(c, t) PROVE WQ!Next
    BY <2>1, Withdraws DEF CancelWrite
  <2> QED BY <1>5, <2>1 DEF CancelTask, CancelRead, CancelRefused
<1>6. ASSUME NEW c \in Clients, StopDrop(c) PROVE WQ!Next
  BY <1>6, Withdraws DEF StopDrop
<1>7. ASSUME NEW c \in Clients, CallDies(c) PROVE UNCHANGED <<created, queue, job>>
  BY <1>7 DEF CallDies
<1>8. ASSUME NEW w \in Workers, WorkerStep(w) PROVE [WQ!Next]_(WQ!queued)
  <2>1. ASSUME NEW t \in Tasks, Pop(w, t) PROVE WQ!Next
    BY <2>1, PopTakes
  <2>2. ASSUME Claim(w) \/ UpdateExperiment(w) PROVE [WQ!Next]_(WQ!queued)
    BY <2>2, DropsLetGo DEF Claim, UpdateExperiment
  <2>3. ASSUME StopCheck(w) \/ PopTimesOut(w) \/ CheckCancelled(w, "check1", "mark")
               \/ MarkRunning(w) \/ CheckCancelled(w, "check2", "run") \/ CancelPoll(w)
               \/ ReadWasCancelled(w) \/ PersistFinal(w) \/ DeleteAfterCancelRead(w)
               \/ DeleteAfterCancel(w)
        PROVE UNCHANGED <<created, queue, job>>
    BY <2>3 DEF StopCheck, PopTimesOut, CheckCancelled, MarkRunning, CancelPoll, ReadWasCancelled,
       PersistFinal, DeleteAfterCancelRead, DeleteAfterCancel
  <2> QED BY <1>8, <2>1, <2>2, <2>3 DEF WorkerStep, WQ!queued
<1>9. ASSUME NEW w \in Workers, ProcessEvent(w) PROVE [WQ!Next]_(WQ!queued)
  <2>1. ASSUME RedisError(w) \/ Abort(w) \/ Crash(w)
        PROVE UNCHANGED <<created, queue>> /\ (job' = job \/ job' = [job EXCEPT ![w] = None])
    BY <2>1 DEF RedisError, Abort, Crash, Abandon
  <2>2. ASSUME StopWorker(w) \/ Shutdown(w) \/ Restart(w)
        PROVE UNCHANGED <<created, queue, job>>
    BY <2>2 DEF StopWorker, Shutdown, Restart
  <2> QED BY <1>9, <2>1, <2>2, DropsLetGo DEF ProcessEvent, WQ!queued
<1>10. ASSUME NEW w \in Workers, NEW s \in Terminal, HandlerReturns(w, s)
       PROVE UNCHANGED <<created, queue, job>>
  BY <1>10 DEF HandlerReturns
<1> QED BY <1>1, <1>2, <1>3, <1>4, <1>5, <1>6, <1>7, <1>8, <1>9, <1>10 DEF Next, WQ!queued

-----------------------------------------------------------------------------
\* The Runner's queue is a first-in first-out queue that hands every task to one worker at
\* most and once at most, whatever is cancelled, deleted, retried, crashed or restarted.
THEOREM Refinement == Spec => ImplementsWorkQueue
<1>1. Init => WQ!Init /\ HandsFree
  BY DEF Init, WQ!Init, HandsFree
<1>2. IInv /\ HandsFree /\ [Next]_vars => HandsFree'
  BY HandsFreeStep DEF HandsFree, vars, worker
<1>3. IInv /\ HandsFree /\ [Next]_vars => [WQ!Next]_(WQ!queued)
  BY StepRefines DEF vars, redis, worker, WQ!queued
<1> QED BY <1>1, <1>2, <1>3, Invariance, PTL DEF Spec, ImplementsWorkQueue, WQ!Spec
=============================================================================
