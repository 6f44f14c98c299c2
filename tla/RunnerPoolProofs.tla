---------------------------- MODULE RunnerPoolProofs ----------------------------
(***************************************************************************)
(* What holds of the Master's tables for any number of experiments,        *)
(* runners, requests and faults: their types, that a BUSY runner has an    *)
(* experiment, and that a runner is never taken from one experiment for    *)
(* another.  IInv is inductive: no step of Next disturbs a conjunct of it. *)
(* The last section is about the reconciler's turns.                       *)
(***************************************************************************)
EXTENDS RunnerPool, TLAPS

-----------------------------------------------------------------------------
(* The inductive invariant.                                                *)

\* A poll writes terminal statuses only, and who does nothing works on no experiment.
CallsFine ==
    \A c \in Callers : /\ call[c].op = "poll_write" => call[c].seen \in Terminal
                       /\ call[c].op = "idle" => call[c].exp = None

\* The health monitor never writes BUSY, so whoever made a runner BUSY noted the experiment:
\* the reconciler's case of a BUSY runner without one does not occur.
BusyOccupied ==
    \A r \in Runners : /\ runner[r] = "busy" => cur[r] \in Experiments
                      /\ health[r] \in (RunnerStatus \ {"busy"}) \cup {None}

IInv == TypeOK /\ CallsFine /\ BusyOccupied

-----------------------------------------------------------------------------
(* Steps.                                                                  *)

\* The actions of Next that a caller takes for an experiment, and the others.
Handler(c, e) ==
    \/ StartRead(c, e) \/ QueueExperiment(c, e) \/ Advance(c, e) \/ StartFailed(c, e)
    \/ StopRead(c, e) \/ StopWrite(c, e) \/ PollRead(c, e) \/ PollWrite(c, e)
    \/ PollReread(c, e) \/ UploadRead(c, e) \/ ReleaseRunner(c, e)

RunnerCall(c, r, e) ==
    \/ Allocate(c, r, e) \/ PostInitialize(c, r, e) \/ PostStart(c, r, e)
    \/ PostStop(c, r, e) \/ PollRemote(c, r, e) \/ UploadAllocate(c, r, e)

Background(r, e) ==
    \/ ReconcileRead(r, e) \/ ReconcileProbe(r, e) \/ FinishLate(r, e)
    \/ \E s \in Terminal : RemoteEnds(r, e, s)

RunnerRow(r) == (\E s \in RunnerStatus : HealthDecide(r, s) \/ InstanceEndpoint(r, s)) \/ HealthWrite(r)

\* Next, as one flat list of actions.
LEMMA Actions ==
    ASSUME Next
    PROVE  \/ \E c \in Callers, e \in Experiments : Handler(c, e)
           \/ \E c \in Callers, r \in Runners, e \in Experiments : RunnerCall(c, r, e)
           \/ \E c \in Callers : NoCapacity(c) \/ PostFails(c)
           \/ \E e \in Experiments : ClaimQueued(e) \/ ScheduledRead(e)
           \/ \E r \in Runners, e \in Experiments : Background(r, e)
           \/ \E r \in Runners : RunnerRow(r)
           \/ RecoverStale \/ MasterRestarts
<1> DEFINE Goal ==
           \/ \E c \in Callers, e \in Experiments : Handler(c, e)
           \/ \E c \in Callers, r \in Runners, e \in Experiments : RunnerCall(c, r, e)
           \/ \E c \in Callers : NoCapacity(c) \/ PostFails(c)
           \/ \E e \in Experiments : ClaimQueued(e) \/ ScheduledRead(e)
           \/ \E r \in Runners, e \in Experiments : Background(r, e)
           \/ \E r \in Runners : RunnerRow(r)
           \/ RecoverStale \/ MasterRestarts
<1>0. Clients \subseteq Callers /\ Runners \subseteq Callers /\ Scheduler \in Callers
  BY DEF Callers
<1>1. ASSUME NEW c \in Callers, NEW e \in Experiments, Dispatch(c, e) PROVE Goal
  BY <1>1 DEF Dispatch, Handler, RunnerCall
<1>2. ASSUME NEW c \in Callers, NEW e \in Experiments, Stop(c, e) \/ PollStatus(c, e) \/ Upload(c, e)
      PROVE Goal
  BY <1>2 DEF Stop, PollStatus, Upload, Handler, RunnerCall
<1>3. ASSUME NEW c \in Callers, NEW e \in Experiments, ReleaseRunner(c, e) PROVE Goal
  BY <1>3 DEF Handler
<1>4. CASE Schedule
  BY <1>4, <1>0, <1>1, <1>3 DEF Schedule
<1>5. ASSUME NEW r \in Runners, Reconcile(r) PROVE Goal
  BY <1>5, <1>0, <1>3 DEF Reconcile, Background
<1>6. ASSUME NEW r \in Runners, Monitor(r) PROVE Goal
  BY <1>6 DEF Monitor, RunnerRow
<1>7. ASSUME NEW r \in Runners, NEW e \in Experiments,
             FinishLate(r, e) \/ \E s \in Terminal : RemoteEnds(r, e, s)
      PROVE Goal
  BY <1>7 DEF Background
<1> HIDE DEF Goal
<1>8. Goal
  BY <1>0, <1>1, <1>2, <1>3, <1>4, <1>5, <1>6, <1>7 DEF Next, Goal
<1> QED BY <1>8 DEF Goal

-----------------------------------------------------------------------------
(* Type correctness.                                                       *)

\* What the handlers put into call has the shape of a call.
LEMMA StepType ==
    ASSUME NEW op \in {"idle"} \cup StartOps \cup OtherOps, NEW e \in Experiments \cup {None},
           NEW r \in Runners \cup {None}
    PROVE  Step(op, e, r) \in Calls /\ Idle \in Calls
           /\ \A s \in ExperimentStatus \cup {None} : Poll(op, e, r, s) \in Calls
BY DEF Calls, Step, Idle, Poll

\* Going on to another step keeps the shape of a call.
LEMMA AtType ==
    ASSUME call \in [Callers -> Calls], NEW c \in Callers,
           NEW op \in {"idle"} \cup StartOps \cup OtherOps
    PROVE  At(c, op) \in Calls
BY DEF At, Calls

\* One caller changing its call keeps the type of all calls.
LEMMA SetCallType ==
    ASSUME call \in [Callers -> Calls], NEW c \in Callers, NEW step \in Calls,
           call' = [call EXCEPT ![c] = step]
    PROVE  call' \in [Callers -> Calls]
OBVIOUS

\* The step that a handler's action goes to.
LEMMA CallTypeStep ==
    ASSUME IInv, Next PROVE call' \in [Callers -> Calls]
<1>0. /\ call \in [Callers -> Calls] /\ exp \in [Experiments -> ExperimentStatus]
      /\ assigned \in [Experiments -> Runners \cup {None}]
      /\ Runners \subseteq Callers /\ Scheduler \in Callers
  BY DEF IInv, TypeOK, Callers
<1> USE <1>0
<1>1. \A c \in Callers : \A op \in {"idle"} \cup StartOps \cup OtherOps : At(c, op) \in Calls
  BY AtType
<1>2. \A op \in {"idle"} \cup StartOps \cup OtherOps, e \in Experiments, r \in Runners \cup {None} :
          Step(op, e, r) \in Calls /\ Idle \in Calls
          /\ \A s \in ExperimentStatus : Poll(op, e, r, s) \in Calls
  BY StepType
<1>3. \A c \in Callers, s \in Calls : call' = [call EXCEPT ![c] = s] => call' \in [Callers -> Calls]
  BY SetCallType
<1>4. ASSUME NEW c \in Callers, NEW e \in Experiments, Handler(c, e) PROVE call' \in [Callers -> Calls]
  <2> USE DEF Begin, Goto, StartOps, OtherOps
  <2>1. CASE StartRead(c, e)
    BY <2>1, <1>2, <1>3 DEF StartRead
  <2>2. CASE QueueExperiment(c, e)
    BY <2>2, <1>1, <1>2, <1>3 DEF QueueExperiment
  <2>3. CASE Advance(c, e)
    BY <2>3, <1>1, <1>2, <1>3 DEF Advance
  <2>4. CASE StartFailed(c, e)
    BY <2>4, <1>1, <1>3 DEF StartFailed
  <2>5. CASE StopRead(c, e)
    BY <2>5, <1>2, <1>3 DEF StopRead
  <2>6. CASE StopWrite(c, e)
    BY <2>6, <1>1, <1>3 DEF StopWrite
  <2>7. CASE PollRead(c, e)
    BY <2>7, <1>2, <1>3 DEF PollRead
  <2>8. CASE PollWrite(c, e)
    BY <2>8, <1>1, <1>3 DEF PollWrite
  <2>9. CASE PollReread(c, e)
    <3>1. call[c].runner \in Runners \cup {None}
      BY DEF Calls
    <3> QED BY <2>9, <1>2, <1>3, <3>1 DEF PollReread
  <2>10. CASE UploadRead(c, e)
    BY <2>10, <1>2, <1>3 DEF UploadRead
  <2>11. CASE ReleaseRunner(c, e)
    BY <2>11, <1>1, <1>2, <1>3 DEF ReleaseRunner, Finish
  <2> QED BY <1>4, <2>1, <2>2, <2>3, <2>4, <2>5, <2>6, <2>7, <2>8, <2>9, <2>10, <2>11 DEF Handler
<1>5. ASSUME NEW c \in Callers, NEW r \in Runners, NEW e \in Experiments, RunnerCall(c, r, e)
      PROVE call' \in [Callers -> Calls]
  <2> USE DEF Goto, StartOps, OtherOps
  <2>1. CASE Allocate(c, r, e)
    BY <2>1, <1>2, <1>3 DEF Allocate
  <2>2. CASE PostInitialize(c, r, e)
    BY <2>2, <1>1, <1>3 DEF PostInitialize
  <2>3. CASE PostStart(c, r, e)
    BY <2>3, <1>1, <1>3 DEF PostStart
  <2>4. CASE PostStop(c, r, e)
    BY <2>4, <1>1, <1>2, <1>3 DEF PostStop
  <2>5. CASE PollRemote(c, r, e)
    <3>1. Poll("poll_write", e, r, remote[r][e]) \in Calls \/ remote[r][e] \notin Terminal
      BY <1>2 DEF ExperimentStatus
    <3> QED BY <2>5, <1>1, <1>2, <1>3, <3>1 DEF PollRemote, Finish
  <2>6. CASE UploadAllocate(c, r, e)
    BY <2>6, <1>1, <1>2, <1>3 DEF UploadAllocate
  <2> QED BY <1>5, <2>1, <2>2, <2>3, <2>4, <2>5, <2>6 DEF RunnerCall
<1>6. ASSUME NEW c \in Callers, NoCapacity(c) \/ PostFails(c) PROVE call' \in [Callers -> Calls]
  BY <1>6, <1>1, <1>3 DEF NoCapacity, PostFails, Goto, StartOps
<1>7. ASSUME NEW e \in Experiments, ClaimQueued(e) \/ ScheduledRead(e) PROVE call' \in [Callers -> Calls]
  BY <1>7, <1>1, <1>2, <1>3 DEF ClaimQueued, ScheduledRead, Goto, StartOps
<1>8. ASSUME NEW r \in Runners, NEW e \in Experiments, Background(r, e) PROVE call' \in [Callers -> Calls]
  BY <1>8, <1>1, <1>2, <1>3
     DEF Background, ReconcileRead, ReconcileProbe, FinishLate, RemoteEnds, Goto, OtherOps
<1>9. ASSUME NEW r \in Runners, RunnerRow(r) PROVE call' \in [Callers -> Calls]
  BY <1>9 DEF RunnerRow, HealthDecide, InstanceEndpoint, HealthWrite
<1>10. CASE RecoverStale \/ MasterRestarts
  BY <1>10, StepType DEF RecoverStale, MasterRestarts, Idle, Step, Poll, Calls
<1> QED BY <1>4, <1>5, <1>6, <1>7, <1>8, <1>9, <1>10, Actions

\* The counters stay numbers, and only experiments are disturbed.
LEMMA BoundsStep ==
    ASSUME requests \in Nat, faults \in Nat, disturbed \subseteq Experiments, Next
    PROVE  requests' \in Nat /\ faults' \in Nat /\ disturbed' \subseteq Experiments
<1> DEFINE Goal == requests' \in Nat /\ faults' \in Nat /\ disturbed' \subseteq Experiments
<1>1. Request \/ Fault \/ UNCHANGED bounds => requests' \in Nat /\ faults' \in Nat
  BY DEF Request, Fault, bounds
<1>2. \A e \in Experiments : \A b \in BOOLEAN : Disturb(e, b) => disturbed' \subseteq Experiments
  BY DEF Disturb
<1>3. \A e : InFlight(e) \in BOOLEAN /\ Starting(e) \in BOOLEAN
  BY DEF InFlight, Starting
<1> USE <1>1, <1>2
<1>4. ASSUME NEW c \in Callers, NEW e \in Experiments, Handler(c, e) PROVE Goal
  BY <1>3, <1>4 DEF Handler, Begin, StartRead, QueueExperiment, Advance, StartFailed, StopRead,
     StopWrite, PollRead, PollWrite, PollReread, UploadRead, ReleaseRunner
<1>5. ASSUME NEW c \in Callers, NEW r \in Runners, NEW e \in Experiments, RunnerCall(c, r, e)
      PROVE Goal
  BY <1>3, <1>5 DEF RunnerCall, Allocate, PostInitialize, PostStart, PostStop, PollRemote, UploadAllocate
<1>6. ASSUME NEW c \in Callers, NoCapacity(c) \/ PostFails(c) PROVE Goal
  BY <1>6 DEF NoCapacity, PostFails
<1>7. ASSUME NEW e \in Experiments, ClaimQueued(e) \/ ScheduledRead(e) PROVE Goal
  BY <1>3, <1>7 DEF ClaimQueued, ScheduledRead
<1>8. ASSUME NEW r \in Runners, NEW e \in Experiments, Background(r, e) PROVE Goal
  BY <1>3, <1>8 DEF Background, ReconcileRead, ReconcileProbe, FinishLate, RemoteEnds
<1>9. ASSUME NEW r \in Runners, RunnerRow(r) PROVE Goal
  BY <1>9 DEF RunnerRow, HealthDecide, InstanceEndpoint, HealthWrite
<1>10. CASE RecoverStale \/ MasterRestarts
  BY <1>10 DEF RecoverStale, MasterRestarts
<1> QED BY <1>4, <1>5, <1>6, <1>7, <1>8, <1>9, <1>10, Actions

\* Every variable keeps its type.
LEMMA TypeStep ==
    ASSUME IInv, Next PROVE TypeOK'
<1>0. TypeOK /\ CallsFine /\ call' \in [Callers -> Calls]
      /\ requests' \in Nat /\ faults' \in Nat /\ disturbed' \subseteq Experiments
  BY CallTypeStep, BoundsStep DEF IInv, TypeOK
<1> USE <1>0, PoolAssumption
<1> USE DEF TypeOK, SetStatus, Release, Occupy, SetRemote, tables, outside
<1>1. ASSUME NEW c \in Callers, NEW e \in Experiments, Handler(c, e) PROVE TypeOK'
  <2>1. CASE StartRead(c, e)
    BY <2>1 DEF StartRead
  <2>2. CASE QueueExperiment(c, e)
    BY <2>2 DEF QueueExperiment, ExperimentStatus, Waiting
  <2>3. CASE Advance(c, e)
    BY <2>3 DEF Advance, ExperimentStatus
  <2>4. CASE StartFailed(c, e)
    BY <2>4 DEF StartFailed, ExperimentStatus, Terminal
  <2>5. CASE StopRead(c, e)
    BY <2>5 DEF StopRead
  <2>6. CASE StopWrite(c, e)
    BY <2>6 DEF StopWrite, ExperimentStatus, Terminal
  <2>7. CASE PollRead(c, e)
    BY <2>7 DEF PollRead
  <2>8. CASE PollWrite(c, e)
    <3>1. call[c].seen \in ExperimentStatus
      BY <2>8 DEF PollWrite, Goto, CallsFine, ExperimentStatus
    <3> QED BY <2>8, <3>1 DEF PollWrite
  <2>9. CASE PollReread(c, e)
    BY <2>9 DEF PollReread
  <2>10. CASE UploadRead(c, e)
    BY <2>10 DEF UploadRead
  <2>11. CASE ReleaseRunner(c, e)
    BY <2>11 DEF ReleaseRunner, RunnerStatus
  <2> QED BY <1>1, <2>1, <2>2, <2>3, <2>4, <2>5, <2>6, <2>7, <2>8, <2>9, <2>10, <2>11 DEF Handler
<1>2. ASSUME NEW c \in Callers, NEW r \in Runners, NEW e \in Experiments, RunnerCall(c, r, e)
      PROVE TypeOK'
  <2>1. CASE Allocate(c, r, e)
    BY <2>1 DEF Allocate, RunnerStatus
  <2>2. CASE PostInitialize(c, r, e)
    <3>1. CASE SetRemote(r, e, "initialized")
      BY <2>2, <3>1 DEF PostInitialize, RemoteStatus
    <3>2. CASE late' = late \cup {<<r, e>>} /\ UNCHANGED remote
      BY <2>2, <3>2 DEF PostInitialize
    <3> QED BY <2>2, <3>1, <3>2 DEF PostInitialize
  <2>3. CASE PostStart(c, r, e)
    <3>1. /\ UNCHANGED <<tables, health>>
          /\ SetRemote(r, e, "running") \/ SetRemote(r, e, "failed") \/ UNCHANGED outside
      BY <2>3 DEF PostStart
    <3> QED BY <3>1 DEF RemoteStatus, Terminal
  <2>4. CASE PostStop(c, r, e)
    BY <2>4 DEF PostStop, RemoteStatus, Terminal
  <2>5. CASE PollRemote(c, r, e)
    BY <2>5 DEF PollRemote
  <2>6. CASE UploadAllocate(c, r, e)
    BY <2>6 DEF UploadAllocate, RunnerStatus
  <2> QED BY <1>2, <2>1, <2>2, <2>3, <2>4, <2>5, <2>6 DEF RunnerCall
<1>3. ASSUME NEW c \in Callers, NoCapacity(c) \/ PostFails(c) PROVE TypeOK'
  BY <1>3 DEF NoCapacity, PostFails
<1>4. ASSUME NEW e \in Experiments, ClaimQueued(e) \/ ScheduledRead(e) PROVE TypeOK'
  BY <1>4 DEF ClaimQueued, ScheduledRead, ExperimentStatus, Waiting
<1>5. ASSUME NEW r \in Runners, NEW e \in Experiments, Background(r, e) PROVE TypeOK'
  <2>1. ASSUME NEW s \in Terminal, RemoteEnds(r, e, s) PROVE TypeOK'
    BY <2>1 DEF RemoteEnds, RemoteStatus, Terminal
  <2>2. CASE FinishLate(r, e)
    BY <2>2 DEF FinishLate, RemoteStatus
  <2>3. CASE ReconcileRead(r, e) \/ ReconcileProbe(r, e)
    BY <2>3 DEF ReconcileRead, ReconcileProbe
  <2> QED BY <1>5, <2>1, <2>2, <2>3 DEF Background
<1>6. ASSUME NEW r \in Runners, RunnerRow(r) PROVE TypeOK'
  <2>1. ASSUME NEW s \in RunnerStatus, HealthDecide(r, s) PROVE TypeOK'
    BY <2>1 DEF HealthDecide
  <2>2. ASSUME NEW s \in RunnerStatus, InstanceEndpoint(r, s) PROVE TypeOK'
    BY <2>2 DEF InstanceEndpoint
  <2>3. CASE HealthWrite(r)
    BY <2>3 DEF HealthWrite
  <2> QED BY <1>6, <2>1, <2>2, <2>3 DEF RunnerRow
<1>7. CASE RecoverStale
  BY <1>7 DEF RecoverStale, ExperimentStatus, Waiting
<1>8. CASE MasterRestarts
  <2>1. health' \in [Runners -> RunnerStatus \cup {None}]
    BY <1>8 DEF MasterRestarts
  <2>2. UNCHANGED <<tables, outside>>
    BY <1>8 DEF MasterRestarts
  <2> QED BY <2>1, <2>2
<1> QED BY <1>1, <1>2, <1>3, <1>4, <1>5, <1>6, <1>7, <1>8, Actions

-----------------------------------------------------------------------------
(* The other conjuncts.                                                    *)

\* Only a runner that reported a terminal status sends a poll to its write, and a handler
\* that ends leaves Idle behind.
LEMMA CallsFineStep ==
    ASSUME IInv, Next PROVE CallsFine'
<1>0. CallsFine /\ call \in [Callers -> Calls] /\ Runners \subseteq Callers /\ Scheduler \in Callers
  BY DEF IInv, TypeOK, Callers
<1> USE <1>0
<1> DEFINE Fine(step) == /\ step.op = "poll_write" => step.seen \in Terminal
                         /\ step.op = "idle" => step.exp = None
<1>1. ASSUME NEW c \in Callers, NEW step, call' = [call EXCEPT ![c] = step], Fine(step)
      PROVE  CallsFine'
  <2>1. call'[c] = step /\ \A d \in Callers \ {c} : call'[d] = call[d]
    BY <1>1
  <2> QED BY <1>1, <2>1 DEF CallsFine
<1>2. \A c \in Callers : \A op : op \notin {"poll_write", "idle"} => Fine(At(c, op))
  BY DEF At, Calls
<1>3. \A op, e, r, s : op \notin {"poll_write", "idle"} =>
          Fine(Poll(op, e, r, s)) /\ Fine(Step(op, e, r)) /\ Fine(Idle)
  BY DEF Poll, Step, Idle
<1>4. \A e, r : \A s \in Terminal : Fine(Poll("poll_write", e, r, s))
  BY DEF Poll
<1>5. UNCHANGED call => CallsFine'
  BY DEF CallsFine
<1> HIDE DEF Fine
<1> USE <1>1, <1>2, <1>3 DEF Goto, Begin
<1>6. ASSUME NEW c \in Callers, NEW e \in Experiments, Handler(c, e) PROVE CallsFine'
  BY <1>6 DEF Handler, StartRead, QueueExperiment, Advance, StartFailed, StopRead, StopWrite,
     PollRead, PollWrite, PollReread, UploadRead, ReleaseRunner, Finish
<1>7. ASSUME NEW c \in Callers, NEW r \in Runners, NEW e \in Experiments, RunnerCall(c, r, e)
      PROVE CallsFine'
  BY <1>7, <1>4 DEF RunnerCall, Allocate, PostInitialize, PostStart, PostStop, PollRemote, Finish,
     UploadAllocate
<1>8. ASSUME NEW c \in Callers, NoCapacity(c) \/ PostFails(c) PROVE CallsFine'
  BY <1>8 DEF NoCapacity, PostFails
<1>9. ASSUME NEW e \in Experiments, ClaimQueued(e) \/ ScheduledRead(e) PROVE CallsFine'
  BY <1>9 DEF ClaimQueued, ScheduledRead
<1>10. ASSUME NEW r \in Runners, NEW e \in Experiments, Background(r, e) PROVE CallsFine'
  BY <1>10, <1>5 DEF Background, ReconcileRead, ReconcileProbe, FinishLate, RemoteEnds
<1>11. ASSUME NEW r \in Runners, RunnerRow(r) PROVE CallsFine'
  BY <1>11, <1>5 DEF RunnerRow, HealthDecide, InstanceEndpoint, HealthWrite
<1>12. CASE RecoverStale
  BY <1>12, <1>5 DEF RecoverStale
<1>13. CASE MasterRestarts
  BY <1>13 DEF MasterRestarts, CallsFine, Idle, Step, Poll
<1> QED BY <1>6, <1>7, <1>8, <1>9, <1>10, <1>11, <1>12, <1>13, Actions

\* What a step does to the runner rows: one runner is occupied or released, or statuses
\* other than BUSY are written, or nothing.
LEMMA RowStep ==
    ASSUME IInv, Next
    PROVE  \/ \E r \in Runners, e \in Experiments : Occupy(r, e)
           \/ \E r \in Runners, e \in Experiments : Release(r, e)
           \/ \E r \in Runners, s \in RunnerStatus \ {"busy"} :
                 runner' = [runner EXCEPT ![r] = s] /\ UNCHANGED cur
           \/ UNCHANGED <<runner, cur>>
<1> DEFINE Goal == \/ \E r \in Runners, e \in Experiments : Occupy(r, e)
                   \/ \E r \in Runners, e \in Experiments : Release(r, e)
                   \/ \E r \in Runners, s \in RunnerStatus \ {"busy"} :
                         runner' = [runner EXCEPT ![r] = s] /\ UNCHANGED cur
                   \/ UNCHANGED <<runner, cur>>
<1>0. TypeOK /\ BusyOccupied
  BY DEF IInv
<1> USE DEF tables, SetStatus
<1>1. ASSUME NEW c \in Callers, NEW e \in Experiments, Handler(c, e) PROVE Goal
  <2>1. CASE ReleaseRunner(c, e)
    <3>1. call[c].runner \in Runners \cup {None}
      BY <1>0 DEF TypeOK, Calls
    <3>2. CASE call[c].runner \in Runners
      BY <2>1, <3>2 DEF ReleaseRunner
    <3>3. CASE call[c].runner = None
      BY <2>1, <3>3 DEF ReleaseRunner, Release
    <3> QED BY <3>1, <3>2, <3>3
  <2>2. CASE ~ReleaseRunner(c, e)
    BY <1>1, <2>2 DEF Handler, StartRead, QueueExperiment, Advance, StartFailed, StopRead, StopWrite,
       PollRead, PollWrite, PollReread, UploadRead
  <2> QED BY <2>1, <2>2
<1>2. ASSUME NEW c \in Callers, NEW r \in Runners, NEW e \in Experiments, RunnerCall(c, r, e)
      PROVE Goal
  BY <1>2 DEF RunnerCall, Allocate, PostInitialize, PostStart, PostStop, PollRemote, UploadAllocate
<1>3. ASSUME NEW c \in Callers, NoCapacity(c) \/ PostFails(c) PROVE Goal
  BY <1>3 DEF NoCapacity, PostFails
<1>4. ASSUME NEW e \in Experiments, ClaimQueued(e) \/ ScheduledRead(e) PROVE Goal
  BY <1>4 DEF ClaimQueued, ScheduledRead
<1>5. ASSUME NEW r \in Runners, NEW e \in Experiments, Background(r, e) PROVE Goal
  BY <1>5 DEF Background, ReconcileRead, ReconcileProbe, FinishLate, RemoteEnds
<1>6. ASSUME NEW r \in Runners, RunnerRow(r) PROVE Goal
  <2>1. CASE HealthWrite(r)
    BY <1>0, <2>1 DEF HealthWrite, TypeOK, BusyOccupied
  <2>2. ASSUME NEW s \in RunnerStatus, HealthDecide(r, s) PROVE Goal
    BY <2>2 DEF HealthDecide
  <2>3. ASSUME NEW s \in RunnerStatus, InstanceEndpoint(r, s) PROVE Goal
    BY <2>3, PoolAssumption DEF InstanceEndpoint
  <2> QED BY <1>6, <2>1, <2>2, <2>3 DEF RunnerRow
<1>7. CASE RecoverStale \/ MasterRestarts
  BY <1>7 DEF RecoverStale, MasterRestarts
<1> QED BY <1>1, <1>2, <1>3, <1>4, <1>5, <1>6, <1>7, Actions, Zenon

\* What the health monitor decides on is never BUSY.
LEMMA HealthStep ==
    ASSUME IInv, Next PROVE \A r \in Runners : health'[r] \in (RunnerStatus \ {"busy"}) \cup {None}
<1>0. health \in [Runners -> RunnerStatus \cup {None}]
      /\ \A r \in Runners : health[r] \in (RunnerStatus \ {"busy"}) \cup {None}
  BY DEF IInv, TypeOK, BusyOccupied
<1>1. UNCHANGED health \/ (\E r \in Runners : RunnerRow(r)) \/ MasterRestarts
  <2>1. ASSUME NEW c \in Callers, NEW e \in Experiments, Handler(c, e) PROVE UNCHANGED health
    BY <2>1 DEF Handler, StartRead, QueueExperiment, Advance, StartFailed, StopRead, StopWrite,
       PollRead, PollWrite, PollReread, UploadRead, ReleaseRunner
  <2>2. ASSUME NEW c \in Callers, NEW r \in Runners, NEW e \in Experiments, RunnerCall(c, r, e)
        PROVE UNCHANGED health
    BY <2>2 DEF RunnerCall, Allocate, PostInitialize, PostStart, PostStop, PollRemote, UploadAllocate
  <2>3. ASSUME NEW c \in Callers, NoCapacity(c) \/ PostFails(c) PROVE UNCHANGED health
    BY <2>3 DEF NoCapacity, PostFails
  <2>4. ASSUME NEW e \in Experiments, ClaimQueued(e) \/ ScheduledRead(e) PROVE UNCHANGED health
    BY <2>4 DEF ClaimQueued, ScheduledRead
  <2>5. ASSUME NEW r \in Runners, NEW e \in Experiments, Background(r, e) PROVE UNCHANGED health
    BY <2>5 DEF Background, ReconcileRead, ReconcileProbe, FinishLate, RemoteEnds
  <2>6. CASE RecoverStale
    BY <2>6 DEF RecoverStale
  <2> QED BY <2>1, <2>2, <2>3, <2>4, <2>5, <2>6, Actions
<1> QED BY <1>0, <1>1 DEF RunnerStatus, RunnerRow, HealthDecide, InstanceEndpoint, HealthWrite, MasterRestarts

\* Only an allocation makes a runner BUSY.
LEMMA BusyOccupiedStep ==
    ASSUME IInv, Next PROVE BusyOccupied'
<1>0. /\ runner \in [Runners -> RunnerStatus] /\ cur \in [Runners -> Experiments \cup {None}]
      /\ BusyOccupied
  BY DEF IInv, TypeOK
<1>1. ASSUME NEW r \in Runners PROVE runner'[r] = "busy" => cur'[r] \in Experiments
  <2>1. ASSUME NEW q \in Runners, NEW e \in Experiments, Occupy(q, e) \/ Release(q, e)
        PROVE  runner'[r] = "busy" => cur'[r] \in Experiments
    BY <1>0, <2>1 DEF BusyOccupied, Occupy, Release
  <2>2. ASSUME NEW q \in Runners, NEW s \in RunnerStatus \ {"busy"},
               runner' = [runner EXCEPT ![q] = s], UNCHANGED cur
        PROVE  runner'[r] = "busy" => cur'[r] \in Experiments
    BY <1>0, <2>2 DEF BusyOccupied
  <2> QED BY <1>0, <2>1, <2>2, RowStep DEF BusyOccupied
<1> QED BY <1>1, HealthStep DEF BusyOccupied

\* A step gives a runner away only when nobody holds it.
LEMMA NeverStolenStep ==
    ASSUME IInv, Next, NEW r \in Runners, cur[r] # None PROVE cur'[r] \in {cur[r], None}
<1>0. cur \in [Runners -> Experiments \cup {None}]
  BY DEF IInv, TypeOK
<1> QED BY <1>0, RowStep DEF Occupy, Release, Free

-----------------------------------------------------------------------------
(* The invariant and what follows.                                         *)

\* The invariant at the start.
LEMMA InitInvariant == Init => IInv
<1> SUFFICES ASSUME Init PROVE IInv
  OBVIOUS
<1>1. TypeOK
  BY DEF Init, TypeOK, ExperimentStatus, RunnerStatus, RemoteStatus, Waiting, Calls, Callers,
         Idle, Step, Poll
<1>2. CallsFine /\ BusyOccupied
  BY DEF Init, CallsFine, BusyOccupied, Idle, Step, Poll
<1> QED BY <1>1, <1>2 DEF IInv

\* No step of a handler, a loop or the environment leaves the inductive invariant.
LEMMA StepInvariant == IInv /\ [Next]_vars => IInv'
<1>1. IInv /\ Next => IInv'
  BY TypeStep, CallsFineStep, BusyOccupiedStep DEF IInv
<1>2. IInv /\ UNCHANGED vars => IInv'
  BY DEF IInv, TypeOK, CallsFine, BusyOccupied, vars, tables, outside, bounds
<1> QED BY <1>1, <1>2

\* The inductive invariant holds in every reachable state of the pool.
THEOREM PoolInvariance == Spec => []IInv
BY InitInvariant, StepInvariant, PTL DEF Spec

\* The tables, the runners' reports and the handlers in flight keep to their types.
THEOREM PoolTypeCorrect == Spec => []TypeOK
<1>1. IInv => TypeOK
  BY DEF IInv
<1> QED BY <1>1, PoolInvariance, PTL

\* A BUSY runner is always held for some experiment, whatever the health monitor and the
\* operator write, so the reconciler has something to ask it about.
THEOREM BusyRunnersAreOccupied == Spec => []BusyOccupied
<1>1. IInv => BusyOccupied
  BY DEF IInv
<1> QED BY <1>1, PoolInvariance, PTL

\* A runner held for one experiment is given to another only after it was released, with
\* any number of handlers, schedulers' turns, faults and restarts.
THEOREM RunnersAreNeverStolen == Spec => NeverStolen
<1>1. IInv /\ [Next]_vars => [\A r \in Runners : cur[r] # None => cur'[r] \in {cur[r], None}]_vars
  BY NeverStolenStep
<1> QED BY <1>1, PoolInvariance, PTL DEF Spec, NeverStolen

-----------------------------------------------------------------------------
(* The reconciler's turns: the safety half of BusyRunnerReleased.          *)

\* What the reconciler's turn with a runner carries.
Turn(r) == \/ call[r] = Idle
           \/ \E e \in Experiments, op \in {"probe", "release"} : call[r] = Step(op, e, r)
Turns == \A r \in Runners : Turn(r)

\* A BUSY runner whose experiment is over there, and how many steps the reconciler is from
\* giving it back, counting those of a turn it may have begun for an earlier experiment.
Finished(r, e) == runner[r] = "busy" /\ cur[r] = e /\ remote[r][e] \in Terminal
Distance(r, e) ==
    IF call[r].exp = e THEN IF call[r].op = "release" THEN 1 ELSE 2
    ELSE IF call[r].op = "idle" THEN 3
    ELSE IF call[r].op = "release" THEN 4 ELSE 5

\* Without a fault, the reconciler's steps get closer to the release and no other step
\* undoes them.
TurnsAdvance ==
    [][\A r \in Runners, e \in Experiments :
          Finished(r, e) /\ Finished(r, e)' /\ faults' = faults =>
             IF Reconcile(r) THEN Distance(r, e)' < Distance(r, e) ELSE call'[r] = call[r]]_vars

\* The fields of a turn.
LEMMA TurnFields ==
    ASSUME NEW r \in Runners, Turn(r)
    PROVE  \/ call[r].op = "idle" /\ call[r].exp = None
           \/ /\ call[r].op \in {"probe", "release"} /\ call[r].exp \in Experiments
              /\ call[r].runner = r /\ call[r].seen = None
              /\ call[r] = Step(call[r].op, call[r].exp, r)
<1>1. CASE call[r] = Idle
  BY <1>1 DEF Idle, Step, Poll
<1>2. ASSUME NEW e \in Experiments, NEW op \in {"probe", "release"}, call[r] = Step(op, e, r)
      PROVE  /\ call[r].op = op /\ call[r].exp = e /\ call[r].runner = r /\ call[r].seen = None
             /\ call[r] = Step(call[r].op, call[r].exp, r)
  BY <1>2 DEF Step, Poll
<1> QED BY <1>1, <1>2 DEF Turn

\* How the reconciler's step moves its turn with r.
LEMMA ReconcileMoves ==
    ASSUME IInv, NEW r \in Runners, Turn(r), Reconcile(r)
    PROVE  \E e \in Experiments :
              \/ /\ call[r].op = "idle" /\ cur[r] = e /\ call'[r] = Step("probe", e, r)
              \/ /\ call[r].op = "probe" /\ call[r].exp = e
                 /\ \/ call'[r] = Step("release", e, r)
                    \/ call'[r] = Idle /\ (remote[r][e] \notin Terminal \/ faults' = faults + 1)
              \/ /\ call[r].op = "release" /\ call[r].exp = e /\ call'[r] = Idle
                 /\ cur'[r] # e
<1>0. /\ call \in [Callers -> Calls] /\ r \in Callers /\ cur \in [Runners -> Experiments \cup {None}]
      /\ None \notin Experiments
  BY PoolAssumption DEF IInv, TypeOK, Callers
<1>1. PICK e \in Experiments : ReconcileRead(r, e) \/ ReconcileProbe(r, e) \/ ReleaseRunner(r, e)
  BY DEF Reconcile
<1>2. \A step : call' = [call EXCEPT ![r] = step] => call'[r] = step
  BY <1>0
<1>3. CASE ReconcileRead(r, e)
  BY <1>2, <1>3 DEF ReconcileRead, Goto
<1>4. CASE ReconcileProbe(r, e)
  <2>1. call[r].op = "probe" /\ call[r].exp = e
    BY <1>4 DEF ReconcileProbe, Goto
  <2>2. call[r] = Step("probe", e, r)
    BY <2>1, TurnFields
  <2>3. At(r, "release") = Step("release", e, r)
    BY <2>2 DEF At, Step, Poll
  <2> QED BY <1>2, <1>4, <2>1, <2>3 DEF ReconcileProbe, Goto, Fault
<1>5. CASE ReleaseRunner(r, e)
  <2>1. call[r].op \in {"release", "unwind", "final", "upload"} /\ call[r].exp = e
        /\ Release(call[r].runner, e)
    BY <1>5 DEF ReleaseRunner, Goto
  <2>2. call[r].op = "release" /\ call[r].runner = r /\ call[r].seen = None
    BY <2>1, TurnFields
  <2>3. Finish(r) = Idle
    BY <2>2, NoneAssumption DEF Finish
  <2>4. call'[r] = Idle
    BY <1>2, <1>5, <2>2, <2>3 DEF ReleaseRunner, Goto
  <2>5. cur'[r] # e
    BY <1>0, <2>1, <2>2, PoolAssumption DEF Release
  <2> QED BY <2>1, <2>2, <2>4, <2>5
<1> QED BY <1>1, <1>3, <1>4, <1>5

\* Only the reconciler takes its turns; a restart of the Master ends them.
LEMMA OthersTurns ==
    ASSUME IInv, Next, NEW r \in Runners, Turn(r), ~Reconcile(r)
    PROVE  call'[r] = call[r] \/ (call'[r] = Idle /\ faults' = faults + 1)
<1>0. /\ call \in [Callers -> Calls] /\ r \in Callers /\ Runners \subseteq Callers
      /\ r \notin Clients /\ r # Scheduler /\ Scheduler \in Callers
  BY PoolAssumption DEF IInv, TypeOK, Callers
<1>1. call[r].op \in {"idle", "probe", "release"}
  BY TurnFields
<1>2. \A c \in Callers : \A step : c # r /\ call' = [call EXCEPT ![c] = step] => call'[r] = call[r]
  BY <1>0
<1>3. ASSUME NEW c \in Callers, NEW e \in Experiments, Handler(c, e) PROVE call'[r] = call[r]
  <2>1. CASE c = r
    BY <1>0, <1>1, <1>3, <2>1 DEF Handler, StartRead, QueueExperiment, Advance, StartFailed, StopRead,
       StopWrite, PollRead, PollWrite, PollReread, UploadRead, Begin, Goto, Reconcile
  <2>2. CASE c # r
    BY <1>2, <1>3, <2>2 DEF Handler, StartRead, QueueExperiment, Advance, StartFailed, StopRead,
       StopWrite, PollRead, PollWrite, PollReread, UploadRead, ReleaseRunner, Begin, Goto
  <2> QED BY <2>1, <2>2
<1>4. ASSUME NEW c \in Callers, NEW q \in Runners, NEW e \in Experiments, RunnerCall(c, q, e)
      PROVE  call'[r] = call[r]
  <2>1. CASE c = r
    BY <1>1, <1>4, <2>1 DEF RunnerCall, Allocate, PostInitialize, PostStart, PostStop, PollRemote,
       UploadAllocate, Goto
  <2>2. CASE c # r
    BY <1>2, <1>4, <2>2 DEF RunnerCall, Allocate, PostInitialize, PostStart, PostStop, PollRemote,
       UploadAllocate, Goto
  <2> QED BY <2>1, <2>2
<1>5. ASSUME NEW c \in Callers, NoCapacity(c) \/ PostFails(c) PROVE call'[r] = call[r]
  BY <1>1, <1>2, <1>5 DEF NoCapacity, PostFails, Goto
<1>6. ASSUME NEW e \in Experiments, ClaimQueued(e) \/ ScheduledRead(e) PROVE call'[r] = call[r]
  BY <1>0, <1>2, <1>6 DEF ClaimQueued, ScheduledRead, Goto
<1>7. ASSUME NEW q \in Runners, NEW e \in Experiments, Background(q, e) PROVE call'[r] = call[r]
  BY <1>0, <1>2, <1>7 DEF Background, ReconcileRead, ReconcileProbe, FinishLate, RemoteEnds, Goto,
     Reconcile
<1>8. ASSUME NEW q \in Runners, RunnerRow(q) PROVE call'[r] = call[r]
  BY <1>8 DEF RunnerRow, HealthDecide, InstanceEndpoint, HealthWrite
<1>9. CASE RecoverStale
  BY <1>9 DEF RecoverStale
<1>10. CASE MasterRestarts
  BY <1>0, <1>10 DEF MasterRestarts, Fault
<1> QED BY <1>3, <1>4, <1>5, <1>6, <1>7, <1>8, <1>9, <1>10, Actions

\* Every step leaves the reconciler with a turn.
LEMMA TurnsStep == IInv /\ Turns /\ [Next]_vars => Turns'
<1>1. ASSUME IInv, Turns, Next, NEW r \in Runners PROVE Turn(r)'
  <2>1. CASE Reconcile(r)
    BY <1>1, <2>1, ReconcileMoves DEF Turns, Turn
  <2>2. CASE ~Reconcile(r)
    BY <1>1, <2>2, OthersTurns DEF Turns, Turn
  <2> QED BY <2>1, <2>2
<1>2. Turns /\ UNCHANGED vars => Turns'
  BY DEF Turns, Turn, vars
<1> QED BY <1>1, <1>2 DEF Turns

\* A step of the reconciler gets closer.
LEMMA Closer ==
    ASSUME IInv, Turns, NEW r \in Runners, NEW e \in Experiments, Finished(r, e), Finished(r, e)',
           faults' = faults, Reconcile(r)
    PROVE  Distance(r, e)' < Distance(r, e)
<1>0. Turn(r) /\ faults \in Nat /\ None \notin Experiments
  BY PoolAssumption DEF Turns, IInv, TypeOK
<1>1. faults' # faults + 1
  BY <1>0
<1>2. \A f : Step("probe", f, r).op = "probe" /\ Step("probe", f, r).exp = f
             /\ Step("release", f, r).op = "release" /\ Step("release", f, r).exp = f
             /\ Idle.op = "idle" /\ Idle.exp = None
  BY DEF Step, Idle, Poll
<1>3. PICK f \in Experiments :
              \/ /\ call[r].op = "idle" /\ cur[r] = f /\ call'[r] = Step("probe", f, r)
              \/ /\ call[r].op = "probe" /\ call[r].exp = f
                 /\ \/ call'[r] = Step("release", f, r)
                    \/ call'[r] = Idle /\ (remote[r][f] \notin Terminal \/ faults' = faults + 1)
              \/ /\ call[r].op = "release" /\ call[r].exp = f /\ call'[r] = Idle
                 /\ cur'[r] # f
  BY <1>0, ReconcileMoves
<1>4. call[r].op = "idle" => call[r].exp = None
  BY <1>0, TurnFields
<1> QED BY <1>0, <1>1, <1>2, <1>3, <1>4 DEF Distance, Finished

\* A BUSY runner whose experiment is over there: without faults every step of the reconciler
\* brings its release nearer, and none of the handlers, loops or runners puts it off.
THEOREM ReconcilerAdvances == Spec => TurnsAdvance
<1>1. Init => Turns
  BY DEF Init, Turns, Turn, Callers
<1>2. IInv /\ Turns /\ [Next]_vars =>
        [\A r \in Runners, e \in Experiments :
            Finished(r, e) /\ Finished(r, e)' /\ faults' = faults =>
               IF Reconcile(r) THEN Distance(r, e)' < Distance(r, e) ELSE call'[r] = call[r]]_vars
  <2> SUFFICES ASSUME IInv, Turns, Next, NEW r \in Runners, NEW e \in Experiments,
                      Finished(r, e), Finished(r, e)', faults' = faults
               PROVE  IF Reconcile(r) THEN Distance(r, e)' < Distance(r, e) ELSE call'[r] = call[r]
    OBVIOUS
  <2>1. Turn(r) /\ faults' # faults + 1
    BY DEF Turns, IInv, TypeOK
  <2> QED BY <2>1, Closer, OthersTurns
<1> QED BY <1>1, <1>2, TurnsStep, PoolInvariance, PTL DEF Spec, TurnsAdvance

=============================================================================
