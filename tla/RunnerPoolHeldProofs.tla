-------------------------- MODULE RunnerPoolHeldProofs --------------------------
(***************************************************************************)
(* RunnerHeld, SettledRunsNowhere and NoRunnerLeaked for any number of     *)
(* experiments, runners, requests and faults.  Sound(e) says how the       *)
(* tables, the runners and the handlers at work on e agree while e is      *)
(* undisturbed.  A step that works on e keeps it by one lemma for each     *)
(* handler; every other step leaves what it speaks of alone (Frame).       *)
(* The last section is about the scheduler's turns: a dispatch comes to    *)
(* its end and DISPATCHING does not outlive it.                            *)
(***************************************************************************)
EXTENDS RunnerPoolProofs

-----------------------------------------------------------------------------
(* What holds of an undisturbed experiment.                                *)

\* Steps of a start before and after it got its runner; steps of the other handlers that
\* will release the runner, and those of an experiment that runs no more.
Early == {"read", "alloc", "queue", "requeue"}
Late == StartOps \ Early
Releasing == {"poll_read", "release", "upload", "final"}
Over == {"cancel", "stopped", "poll_write", "upload_alloc"} \cup Releasing

On(c, e) == call[c].exp = e
RunsNowhere(e) == \A r \in Runners : remote[r][e] # "running"
HeldNowhere(e) == \A r \in Runners : cur[r] # e

\* Beside a start there are only polls and probes, and only once it has its runner.
StartsAlone(e) ==
    \A c, d \in Callers :
        c # d /\ On(c, e) /\ On(d, e) /\ call[c].op \in StartOps =>
            /\ call[c].op \in Late /\ call[d].op \in {"poll", "probe"}
            /\ call[d].op = "poll" => call[d].seen \notin Terminal

\* The table, the runner rows and the handlers name the same runner, and the reconciler
\* asks the runner whose turn it is.
OneRunner(e) ==
    /\ \A c \in Callers : On(c, e) =>
          /\ call[c].op \in Late \cup OtherOps => call[c].runner = assigned[e]
          /\ call[c].op = "probe" => call[c].runner = c
    /\ \A r \in Runners : cur[r] = e => assigned[e] = r

\* Where e can be running and who holds it, during a start.
StartPhase(e) ==
    \A c \in Callers : On(c, e) =>
        /\ call[c].op \in Early => RunsNowhere(e) /\ HeldNowhere(e)
        /\ call[c].op \in Late =>
              /\ call[c].runner \in Runners /\ cur[call[c].runner] = e
              /\ \A r \in Runners : remote[r][e] = "running" => r = call[c].runner /\ call[c].op = "running"
        /\ call[c].op \in {"post_start", "running"} => exp[e] = "preparing"

\* A handler that takes e for finished is right.
OverRunsNowhere(e) ==
    \A c \in Callers :
        On(c, e) /\ (call[c].op \in Over \/ (call[c].op = "poll" /\ call[c].seen \in Terminal))
            => RunsNowhere(e)

\* With no start at work, e runs only as the table says, and whoever holds it runs it or
\* is about to let go.
AtRest(e) ==
    ~Starting(e) =>
        \A r \in Runners :
            /\ remote[r][e] = "running" => cur[r] = e /\ exp[e] = "running"
            /\ cur[r] = e => exp[e] = "running" \/ \E c \in Callers : On(c, e) /\ call[c].op \in Releasing

\* What the runner reports once e was started there.
Reported(e) ==
    /\ \A r \in Runners :
          /\ <<r, e>> \notin late
          /\ ~Starting(e) /\ exp[e] = "running" /\ cur[r] = e => remote[r][e] \in Terminal \cup {"running"}
    /\ \A c \in Callers : On(c, e) =>
          /\ call[c].op = "running" => remote[call[c].runner][e] \in Terminal \cup {"running"}
          /\ call[c].op = "upload_alloc" => exp[e] # "running"
          /\ call[c].op \in {"poll_write", "poll_read"} =>
                call[c].runner \in Runners /\ remote[call[c].runner][e] \in Terminal

Sound(e) ==
    /\ StartsAlone(e) /\ OneRunner(e) /\ StartPhase(e)
    /\ OverRunsNowhere(e) /\ AtRest(e) /\ Reported(e)

AllSound == \A e \in Experiments \ disturbed : Sound(e)

-----------------------------------------------------------------------------
(* Steps that do not work on e.                                            *)

\* Nothing that Sound(e) speaks of changes.
SameView(e) ==
    /\ exp'[e] = exp[e] /\ assigned'[e] = assigned[e]
    /\ \A c \in Callers : (On(c, e) \/ On(c, e)') => call'[c] = call[c]
    /\ \A r \in Runners : /\ remote'[r][e] = remote[r][e]
                          /\ cur'[r] = e <=> cur[r] = e
                          /\ <<r, e>> \in late' => <<r, e>> \in late

\* Then it goes on holding.
LEMMA Frame ==
    ASSUME NEW e \in Experiments, Sound(e), SameView(e) PROVE Sound(e)'
<1> USE DEF Sound, SameView, On, RunsNowhere, HeldNowhere
<1>1. StartsAlone(e)'
  BY DEF StartsAlone
<1>2. OneRunner(e)'
  BY DEF OneRunner
<1>3. StartPhase(e)'
  BY DEF StartPhase
<1>4. OverRunsNowhere(e)'
  BY DEF OverRunsNowhere
<1>5. Starting(e)' <=> Starting(e)
  BY DEF Starting
<1>6. AtRest(e)'
  BY <1>5 DEF AtRest
<1>7. Reported(e)'
  BY <1>5 DEF Reported, StartPhase, Late, StartOps, Early
<1> QED BY <1>1, <1>2, <1>3, <1>4, <1>6, <1>7

\* The fields of the call a handler goes on with.
LEMMA Fields ==
    ASSUME call \in [Callers -> Calls], NEW c \in Callers
    PROVE  /\ \A op : /\ At(c, op).op = op /\ At(c, op).exp = call[c].exp
                      /\ At(c, op).runner = call[c].runner /\ At(c, op).seen = call[c].seen
           /\ \A op, e, r, s : /\ Poll(op, e, r, s).op = op /\ Poll(op, e, r, s).exp = e
                               /\ Poll(op, e, r, s).runner = r /\ Poll(op, e, r, s).seen = s
           /\ \A op, e, r : /\ Step(op, e, r).op = op /\ Step(op, e, r).exp = e
                            /\ Step(op, e, r).runner = r
           /\ Idle.op = "idle" /\ Idle.exp = None
BY DEF At, Poll, Step, Idle, Calls

\* One caller's step is no other caller's.
LEMMA Moves ==
    ASSUME call \in [Callers -> Calls], NEW c \in Callers, NEW to, call' = [call EXCEPT ![c] = to]
    PROVE  call'[c] = to /\ \A d \in Callers \ {c} : call'[d] = call[d]
OBVIOUS

-----------------------------------------------------------------------------
(* start_experiment_forward.                                               *)

\* A start that finds no handler at work on e, and e not running.
LEMMA BeginStart ==
    ASSUME TypeOK, NEW c \in Callers, NEW e \in Experiments, Sound(e), ~InFlight(e), exp[e] # "running",
           NEW op \in Early, call' = [call EXCEPT ![c] = Step(op, e, None)],
           UNCHANGED <<assigned, cur, outside>>
    PROVE  Sound(e)'
<1>0. call \in [Callers -> Calls] /\ ~Starting(e)
  BY DEF TypeOK, InFlight, Starting
<1>1. /\ call'[c].op = op /\ call'[c].exp = e
      /\ \A d \in Callers \ {c} : call'[d] = call[d]
  BY <1>0, Moves, Fields
<1>2. \A d \in Callers : ~On(d, e)
  BY DEF InFlight, On
<1>3. RunsNowhere(e)' /\ HeldNowhere(e)'
  BY <1>0, <1>2 DEF Sound, AtRest, RunsNowhere, HeldNowhere, outside
<1>4. \A d \in Callers : On(d, e)' => d = c /\ call'[d].op \in Early
  BY <1>1, <1>2 DEF On
<1>5. Starting(e)'
  BY <1>1 DEF Starting, Early, StartOps
<1>6. \A r \in Runners : <<r, e>> \notin late'
  BY DEF Sound, Reported, outside
<1> QED
  BY <1>3, <1>4, <1>5, <1>6 DEF Sound, StartsAlone, OneRunner, StartPhase, OverRunsNowhere, AtRest,
     Reported, Early, Late, OtherOps, Over, Releasing, HeldNowhere

\* A start without a runner goes on, or ends, whatever status it writes.
LEMMA EarlyStep ==
    ASSUME TypeOK, NEW c \in Callers, NEW e \in Experiments, Sound(e), On(c, e), call[c].op \in Early,
           NEW to, call' = [call EXCEPT ![c] = to],
           to = Idle \/ (to.exp = e /\ to.op \in Early),
           UNCHANGED <<assigned, cur, outside>>
    PROVE  Sound(e)'
<1>0. call \in [Callers -> Calls] /\ e # None
  BY PoolAssumption DEF TypeOK
<1>1. call'[c] = to /\ \A d \in Callers \ {c} : call'[d] = call[d]
  BY <1>0, Moves
<1>2. \A d \in Callers : On(d, e) => d = c
  BY DEF Sound, StartsAlone, Late, Early, StartOps
<1>3. RunsNowhere(e)' /\ HeldNowhere(e)'
  BY DEF Sound, StartPhase, RunsNowhere, HeldNowhere, outside
<1>4. \A d \in Callers : On(d, e)' => d = c /\ call'[d].op \in Early
  BY <1>0, <1>1, <1>2, Fields DEF On
<1>5. \A r \in Runners : <<r, e>> \notin late'
  BY DEF Sound, Reported, outside
<1> QED
  BY <1>3, <1>4, <1>5 DEF Sound, StartsAlone, OneRunner, StartPhase, OverRunsNowhere, AtRest,
     Reported, Early, Late, OtherOps, Over, Releasing, HeldNowhere, RunsNowhere

\* The status changes with no handler taking a step, neither from nor to one that counts.
LEMMA StatusStep ==
    ASSUME NEW e \in Experiments, Sound(e), exp[e] \notin {"preparing", "running"}, exp'[e] # "running",
           UNCHANGED <<assigned, cur, outside, call>>
    PROVE  Sound(e)'
BY DEF Sound, StartsAlone, OneRunner, StartPhase, OverRunsNowhere, AtRest, Reported, On, RunsNowhere,
       HeldNowhere, Starting, outside

\* A start gets its runner.
LEMMA AllocateStep ==
    ASSUME TypeOK, NEW c \in Callers, NEW e \in Experiments, NEW r \in Runners, Sound(e), Allocate(c, r, e)
    PROVE  Sound(e)'
<1>0. /\ call \in [Callers -> Calls] /\ cur \in [Runners -> Experiments \cup {None}]
      /\ assigned \in [Experiments -> Runners \cup {None}] /\ e # None
  BY PoolAssumption DEF TypeOK
<1>1. /\ call'[c].op = "init" /\ call'[c].exp = e /\ call'[c].runner = r
      /\ \A d \in Callers \ {c} : call'[d] = call[d]
  BY <1>0, Moves, Fields DEF Allocate, Goto
<1>2. call[c].op = "alloc" /\ On(c, e) /\ UNCHANGED <<exp, outside>>
  BY DEF Allocate, Goto, On, Occupy
<1>3. assigned'[e] = r /\ \A q \in Runners : cur'[q] = e <=> q = r
  <2>1. HeldNowhere(e)
    BY <1>2 DEF Sound, StartPhase, Early
  <2> QED BY <1>0, <2>1 DEF Allocate, Occupy, HeldNowhere
<1>4. RunsNowhere(e)'
  BY <1>2 DEF Sound, StartPhase, Early, RunsNowhere, outside
<1>5. \A d \in Callers : On(d, e)' => d = c
  BY <1>1, <1>2 DEF On, Sound, StartsAlone, Late, Early, StartOps
<1>6. \A q \in Runners : <<q, e>> \notin late'
  BY <1>2 DEF Sound, Reported, outside
<1>7. Starting(e)'
  BY <1>1 DEF Starting, StartOps
<1> QED
  BY <1>1, <1>3, <1>4, <1>5, <1>6, <1>7 DEF Sound, StartsAlone, OneRunner, StartPhase, OverRunsNowhere,
     AtRest, Reported, Early, Late, OtherOps, Over, Releasing, RunsNowhere

\* A start that has its runner goes on to its next step.
LEMMA LateStep ==
    ASSUME TypeOK, NEW c \in Callers, NEW e \in Experiments, Sound(e), On(c, e), call[c].op \in Late,
           NEW op \in Late, call' = [call EXCEPT ![c] = At(c, op)],
           UNCHANGED <<assigned, cur, late>>,
           \A r \in Runners : remote'[r][e] = "running" => r = call[c].runner /\ op = "running",
           op \in {"post_start", "running"} => exp'[e] = "preparing",
           op = "running" => remote'[call[c].runner][e] \in Terminal \cup {"running"}
    PROVE  Sound(e)'
<1>0. call \in [Callers -> Calls]
  BY DEF TypeOK
<1>1. /\ call'[c].op = op /\ call'[c].exp = e /\ call'[c].runner = call[c].runner
      /\ \A d \in Callers \ {c} : call'[d] = call[d]
  BY <1>0, Moves, Fields DEF On
<1>2. \A d \in Callers \ {c} : On(d, e) => call[d].op \in {"poll", "probe"}
                                         /\ (call[d].op = "poll" => call[d].seen \notin Terminal)
  BY DEF Sound, StartsAlone, Late
<1>3. call[c].op \in StartOps /\ op \in StartOps /\ op \notin Early /\ op \notin OtherOps
  BY DEF Late, StartOps, OtherOps
<1>4. Starting(e)'
  BY <1>1, <1>3 DEF Starting
<1>5. StartsAlone(e)'
  BY <1>1, <1>2, <1>3 DEF StartsAlone, On, StartOps
<1>6. OneRunner(e)'
  BY <1>1, <1>3 DEF Sound, OneRunner, On, OtherOps
<1>7. StartPhase(e)'
  BY <1>1, <1>2, <1>3 DEF Sound, StartPhase, On, Late, StartOps, Early
<1>8. OverRunsNowhere(e)'
  BY <1>1, <1>2, <1>3 DEF OverRunsNowhere, On, Over, Releasing, Late, StartOps, Early
<1>9. AtRest(e)'
  BY <1>4 DEF AtRest
<1>10. Reported(e)'
  BY <1>1, <1>2, <1>3, <1>4 DEF Sound, Reported, On, Late, StartOps, Early
<1> QED BY <1>5, <1>6, <1>7, <1>8, <1>9, <1>10 DEF Sound

\* The last step of a start that went well.
LEMMA RunningStep ==
    ASSUME TypeOK, NEW c \in Callers, NEW e \in Experiments, Sound(e), On(c, e), call[c].op = "running",
           call' = [call EXCEPT ![c] = Idle], exp' = [exp EXCEPT ![e] = "running"],
           UNCHANGED <<assigned, cur, outside>>
    PROVE  Sound(e)'
<1>0. call \in [Callers -> Calls] /\ e # None /\ exp'[e] = "running"
  BY PoolAssumption DEF TypeOK
<1>1. call'[c].op = "idle" /\ call'[c].exp # e /\ \A d \in Callers \ {c} : call'[d] = call[d]
  BY <1>0, Moves, Fields
<1>2. call[c].op \in Late /\ call[c].op \in StartOps
  BY DEF Late, Early, StartOps
<1>3. \A d \in Callers : On(d, e)' => /\ d # c /\ On(d, e) /\ call'[d] = call[d]
                                      /\ call[d].op \in {"poll", "probe"}
                                      /\ call[d].op = "poll" => call[d].seen \notin Terminal
  BY <1>1, <1>2 DEF Sound, StartsAlone, On
<1>4. /\ call[c].runner \in Runners /\ cur[call[c].runner] = e /\ call[c].runner = assigned[e]
      /\ \A r \in Runners : remote[r][e] = "running" => r = call[c].runner
      /\ \A r \in Runners : cur[r] = e => r = call[c].runner
      /\ remote[call[c].runner][e] \in Terminal \cup {"running"}
      /\ \A r \in Runners : <<r, e>> \notin late
  BY <1>2 DEF Sound, StartPhase, OneRunner, Reported
<1>5. ~Starting(e)'
  BY <1>3 DEF Starting, On, StartOps
<1>6. StartsAlone(e)' /\ StartPhase(e)' /\ OverRunsNowhere(e)'
  BY <1>3 DEF StartsAlone, StartPhase, OverRunsNowhere, Early, Late, StartOps, Over, Releasing
<1>7. OneRunner(e)'
  BY <1>3, <1>4 DEF Sound, OneRunner
<1>8. AtRest(e)' /\ Reported(e)'
  BY <1>0, <1>3, <1>4 DEF AtRest, Reported, outside
<1> QED BY <1>6, <1>7, <1>8 DEF Sound

-----------------------------------------------------------------------------
(* The other handlers.                                                     *)

\* A handler that starts nothing reads, asks the runner, decides and goes on; e, its
\* runner and its row stay.
LEMMA ReaderStep ==
    ASSUME TypeOK, NEW c \in Callers, NEW e \in Experiments, Sound(e),
           ~On(c, e) \/ call[c].op \notin StartOps,
           NEW to, call' = [call EXCEPT ![c] = to],
           \/ to = Idle
           \/ /\ to.exp = e /\ to.op \in OtherOps /\ to.runner = assigned[e]
              /\ Starting(e) => /\ to.op \in {"poll", "probe"} /\ \E r \in Runners : cur[r] = e
                                /\ to.op = "poll" => to.seen \notin Terminal
              /\ to.op \in Over \/ (to.op = "poll" /\ to.seen \in Terminal) => RunsNowhere(e)
              /\ to.op = "upload_alloc" => exp[e] # "running"
              /\ to.op = "probe" => to.runner = c
              /\ to.op \in {"poll_write", "poll_read"} =>
                    to.runner \in Runners /\ remote[to.runner][e] \in Terminal,
           On(c, e) /\ call[c].op \in Releasing => to # Idle /\ to.op \in Releasing,
           UNCHANGED <<tables, outside>>
    PROVE  Sound(e)'
<1>0. call \in [Callers -> Calls] /\ e # None /\ UNCHANGED <<exp, assigned, cur, remote, late>>
  BY PoolAssumption DEF TypeOK, tables, outside
<1>1. call'[c] = to /\ \A d \in Callers \ {c} : call'[d] = call[d]
  BY <1>0, Moves
<1>2. On(c, e)' => to # Idle /\ to.exp = e
  BY <1>0, <1>1, Fields DEF On
<1>3. Starting(e)' <=> Starting(e)
  BY <1>1, <1>2 DEF Starting, On, StartOps, OtherOps
<1>4. StartsAlone(e)'
  <2>1. ASSUME NEW d \in Callers, NEW b \in Callers, d # b, On(d, e)', On(b, e)', call'[d].op \in StartOps
        PROVE  /\ call'[d].op \in Late /\ call'[b].op \in {"poll", "probe"}
               /\ call'[b].op = "poll" => call'[b].seen \notin Terminal
    <3>1. d # c
      BY <1>1, <1>2, <2>1 DEF StartOps, OtherOps
    <3>2. On(d, e) /\ call'[d] = call[d] /\ call[d].op \in StartOps /\ Starting(e)
      BY <1>1, <2>1, <3>1 DEF On, Starting
    <3>3. CASE b = c
      <4>1. /\ to.op \in {"poll", "probe"} /\ \E r \in Runners : cur[r] = e
            /\ to.op = "poll" => to.seen \notin Terminal
        BY <1>2, <2>1, <3>2, <3>3
      <4>2. call[d].op \in Late
        BY <3>2, <4>1 DEF Sound, StartPhase, HeldNowhere, Late
      <4> QED BY <1>1, <3>2, <3>3, <4>1, <4>2
    <3>4. CASE b # c
      BY <1>1, <2>1, <3>2, <3>4 DEF Sound, StartsAlone, On
    <3> QED BY <3>3, <3>4
  <2> QED BY <2>1 DEF StartsAlone
<1>5. OneRunner(e)'
  BY <1>0, <1>1, <1>2 DEF Sound, OneRunner, On
<1>6. StartPhase(e)'
  BY <1>0, <1>1, <1>2 DEF Sound, StartPhase, On, RunsNowhere, HeldNowhere, Early, Late, StartOps, OtherOps
<1>7. OverRunsNowhere(e)'
  BY <1>0, <1>1, <1>2 DEF Sound, OverRunsNowhere, On, RunsNowhere
<1>8. AtRest(e)'
  BY <1>0, <1>1, <1>2, <1>3, Fields DEF Sound, AtRest, On
<1>9. Reported(e)'
  BY <1>0, <1>1, <1>2, <1>3 DEF Sound, Reported, On, OtherOps
<1> QED BY <1>4, <1>5, <1>6, <1>7, <1>8, <1>9 DEF Sound

\* A handler that works on e and may not do so beside a start does not.
LEMMA NoStart ==
    ASSUME NEW c \in Callers, NEW e \in Experiments, Sound(e), On(c, e),
           call[c].op \in OtherOps \ {"poll", "probe"}
    PROVE  ~Starting(e)
BY DEF Sound, StartsAlone, Starting, On, StartOps, OtherOps

\* e runs on its assigned runner or nowhere, when no start is at work.
LEMMA RunsOnAssigned ==
    ASSUME NEW e \in Experiments, Sound(e), ~Starting(e), NEW r \in Runners, remote[r][e] = "running"
    PROVE  assigned[e] = r /\ cur[r] = e /\ exp[e] = "running"
BY DEF Sound, AtRest, OneRunner

\* stop_experiment_forward.
LEMMA StopReadStep ==
    ASSUME IInv, NEW c \in Callers, NEW e \in Experiments, Sound(e), StopRead(c, e), e \notin disturbed'
    PROVE  Sound(e)'
<1> DEFINE to == Step(IF exp[e] = "running" THEN "post_stop" ELSE "cancel", e, assigned[e])
<1>0. TypeOK /\ call \in [Callers -> Calls] /\ ~On(c, e)
  BY PoolAssumption DEF IInv, TypeOK, StopRead, Begin, On, Idle, Step, Poll
<1>1. call' = [call EXCEPT ![c] = to] /\ UNCHANGED <<tables, outside>> /\ ~Starting(e)
  BY DEF StopRead, Begin, Disturb
<1>2. /\ to.exp = e /\ to.runner = assigned[e] /\ to.op \in OtherOps
      /\ to.op \notin {"poll", "probe", "upload_alloc", "poll_write", "poll_read"}
      /\ to.op \in Over => exp[e] # "running"
  BY <1>0, Fields DEF OtherOps, Over, Releasing
<1>3. exp[e] # "running" => RunsNowhere(e)
  BY <1>1, RunsOnAssigned DEF RunsNowhere
<1> HIDE DEF to
<1> QED BY <1>0, <1>1, <1>2, <1>3, ReaderStep

\* The runner is told to stop, with or without an answer.
LEMMA PostStopStep ==
    ASSUME IInv, NEW c \in Callers, NEW e \in Experiments, NEW r \in Runners, Sound(e), PostStop(c, r, e)
    PROVE  Sound(e)'
<1>0. /\ TypeOK /\ call \in [Callers -> Calls] /\ On(c, e) /\ call[c].op = "post_stop"
      /\ remote \in [Runners -> [Experiments -> RemoteStatus]] /\ e # None
  BY PoolAssumption DEF IInv, TypeOK, PostStop, Goto, On
<1>1. ~Starting(e) /\ assigned[e] = r
  BY <1>0, NoStart DEF PostStop, Sound, OneRunner, OtherOps
<1>2. CASE UNCHANGED outside /\ call' = [call EXCEPT ![c] = Idle]
  BY <1>0, <1>2, ReaderStep DEF PostStop, StartOps, Releasing
<1>3. ASSUME NEW to, call' = [call EXCEPT ![c] = to], to \in {Idle, At(c, "stopped")},
             SetRemote(r, e, "cancelled")
      PROVE  Sound(e)'
  <2>1. /\ UNCHANGED <<exp, assigned, cur, late>> /\ remote'[r][e] = "cancelled"
        /\ \A q \in Runners \ {r} : remote'[q][e] = remote[q][e]
    BY <1>0, <1>3 DEF PostStop, SetRemote, tables
  <2>2. RunsNowhere(e)'
    BY <1>1, <2>1, RunsOnAssigned DEF RunsNowhere
  <2>3. /\ \A d \in Callers \ {c} : call'[d] = call[d]
        /\ call'[c] = to
    BY <1>0, <1>3, Moves
  <2>4. On(c, e)' => call'[c].op = "stopped" /\ call'[c].runner = call[c].runner
    BY <1>0, <1>3, <2>3, Fields DEF On
  <2>5. \A d \in Callers \ {c} : On(d, e) => call[d].op \notin StartOps
    BY <1>1 DEF Starting, On
  <2>6. ~Starting(e)'
    BY <2>3, <2>4, <2>5 DEF Starting, On, StartOps
  <2>7. StartsAlone(e)' /\ StartPhase(e)'
    BY <2>3, <2>4, <2>5 DEF StartsAlone, StartPhase, On, Early, Late, StartOps
  <2>8. OneRunner(e)'
    BY <1>0, <2>1, <2>3, <2>4 DEF Sound, OneRunner, On, OtherOps
  <2>9. OverRunsNowhere(e)'
    BY <2>2 DEF OverRunsNowhere
  <2>10. AtRest(e)'
    BY <1>0, <1>1, <2>1, <2>2, <2>3 DEF Sound, AtRest, RunsNowhere, On, Releasing
  <2>11. Reported(e)'
    BY <1>1, <2>1, <2>3, <2>4, <2>5 DEF Sound, Reported, On, Terminal, StartOps
  <2> QED BY <2>7, <2>8, <2>9, <2>10, <2>11 DEF Sound
<1> QED BY <1>2, <1>3 DEF PostStop, Goto

\* Writing a status other than RUNNING for an experiment that is not running, by a handler
\* that will release its runner.
LEMMA SettleStep ==
    ASSUME TypeOK, NEW c \in Callers, NEW e \in Experiments, Sound(e), On(c, e),
           call[c].op \in Over, NEW op \in {"release", "poll_read"},
           call' = [call EXCEPT ![c] = At(c, op)], exp'[e] # "running",
           op = "poll_read" => call[c].op = "poll_write",
           UNCHANGED <<assigned, cur, outside>>
    PROVE  Sound(e)'
<1>0. call \in [Callers -> Calls] /\ UNCHANGED <<remote, late>>
  BY DEF TypeOK, outside
<1>1. /\ call'[c].op = op /\ call'[c].exp = e /\ call'[c].runner = call[c].runner
      /\ \A d \in Callers \ {c} : call'[d] = call[d]
  BY <1>0, Moves, Fields DEF On
<1>2. ~Starting(e) /\ RunsNowhere(e) /\ call[c].op \in OtherOps \ {"poll", "probe"}
  BY NoStart DEF Sound, OverRunsNowhere, Over, Releasing, OtherOps
<1>3. \A d \in Callers : On(d, e)' => call'[d].op \notin StartOps
  BY <1>1, <1>2 DEF Starting, On, StartOps
<1>4. StartsAlone(e)' /\ StartPhase(e)'
  BY <1>3 DEF StartsAlone, StartPhase, Early, Late, StartOps
<1>5. OneRunner(e)'
  BY <1>0, <1>1, <1>2 DEF Sound, OneRunner, On
<1>6. OverRunsNowhere(e)'
  BY <1>0, <1>2 DEF OverRunsNowhere, RunsNowhere
<1>7. AtRest(e)'
  BY <1>0, <1>1, <1>2 DEF AtRest, RunsNowhere, On, Releasing
<1>8. Reported(e)'
  BY <1>0, <1>1, <1>3 DEF Sound, Reported, On, StartOps
<1> QED BY <1>4, <1>5, <1>6, <1>7, <1>8 DEF Sound

\* get_experiment_status.
LEMMA PollReadStep ==
    ASSUME IInv, NEW c \in Callers, NEW e \in Experiments, Sound(e), PollRead(c, e), e \notin disturbed'
    PROVE  Sound(e)'
<1> DEFINE to == Poll("poll", e, assigned[e], exp[e])
<1>0. /\ TypeOK /\ call \in [Callers -> Calls] /\ ~On(c, e)
      /\ assigned \in [Experiments -> Runners \cup {None}]
  BY PoolAssumption DEF IInv, TypeOK, PollRead, Begin, On, Idle, Step, Poll
<1>1. /\ call' = [call EXCEPT ![c] = to] /\ UNCHANGED <<tables, outside>> /\ assigned[e] \in Runners
      /\ Starting(e) => exp[e] \notin Terminal /\ cur[assigned[e]] = e
  BY <1>0 DEF PollRead, Begin, Disturb
<1>2. to.exp = e /\ to.runner = assigned[e] /\ to.op = "poll" /\ to.seen = exp[e]
  BY <1>0, Fields
<1>3. exp[e] \in Terminal => RunsNowhere(e)
  BY <1>1, RunsOnAssigned DEF RunsNowhere, Terminal
<1> HIDE DEF to
<1>4. "poll" \in OtherOps /\ "poll" \notin Over
  BY DEF OtherOps, Over, Releasing
<1> QED BY <1>0, <1>1, <1>2, <1>3, <1>4, ReaderStep

\* A runner that is known not to run e any more settles where e runs.
LEMMA NotRunningThere ==
    ASSUME NEW e \in Experiments, Sound(e), ~Starting(e), NEW r \in Runners, assigned[e] = r,
           remote[r][e] # "running"
    PROVE  RunsNowhere(e)
BY RunsOnAssigned DEF RunsNowhere

\* What the poll makes of the runner's report.
LEMMA PollRemoteStep ==
    ASSUME IInv, NEW c \in Callers, NEW e \in Experiments, NEW r \in Runners, Sound(e),
           PollRemote(c, r, e), e \notin disturbed'
    PROVE  Sound(e)'
<1>0. /\ TypeOK /\ call \in [Callers -> Calls] /\ On(c, e) /\ call[c].op = "poll"
      /\ call[c].runner = r /\ UNCHANGED <<tables, outside>>
      /\ call[c].op \in OtherOps /\ call[c].op \notin StartOps \cup Releasing
  BY DEF IInv, TypeOK, PollRemote, Goto, On, OtherOps, StartOps, Releasing
<1>1. assigned[e] = r
  BY <1>0 DEF Sound, OneRunner
<1>2. ASSUME NEW to, call' = [call EXCEPT ![c] = to], ~Starting(e), RunsNowhere(e),
             \/ to = At(c, "release")
             \/ to = Poll("poll_write", e, r, remote[r][e]) /\ remote[r][e] \in Terminal
      PROVE  Sound(e)'
  <2>1. to.exp = e /\ to.runner = r /\ to.op \in {"release", "poll_write"}
        /\ (to.op = "poll_write" => remote[r][e] \in Terminal)
    BY <1>0, <1>2, Fields DEF On
  <2> QED BY <1>0, <1>1, <1>2, <2>1, ReaderStep DEF OtherOps
<1>3. CASE Goto(c, "poll", Finish(c))
  <2>1. CASE call[c].seen \notin Terminal
    BY <1>0, <1>3, <2>1, ReaderStep DEF Goto, Finish
  <2>2. CASE call[c].seen \in Terminal
    <3>1. RunsNowhere(e) /\ ~Starting(e)
      BY <1>0, <2>2 DEF Sound, OverRunsNowhere, StartsAlone, Starting, On, StartOps
    <3>2. call' = [call EXCEPT ![c] = At(c, "final")]
      BY <1>3, <2>2 DEF Goto, Finish
    <3>3. At(c, "final").exp = e /\ At(c, "final").runner = r /\ At(c, "final").op = "final"
      BY <1>0, Fields DEF On
    <3> QED BY <1>0, <1>1, <3>1, <3>2, <3>3, ReaderStep DEF OtherOps
  <2> QED BY <2>1, <2>2
<1>4. CASE ~Goto(c, "poll", Finish(c))
  <2>1. remote[r][e] \in Terminal \cup {"absent"} /\ ~Starting(e)
    BY <1>4 DEF PollRemote, Disturb
  <2>2. RunsNowhere(e)
    BY <1>1, <2>1, NotRunningThere DEF Terminal
  <2>3. \/ call' = [call EXCEPT ![c] = At(c, "release")]
        \/ /\ call' = [call EXCEPT ![c] = Poll("poll_write", e, r, remote[r][e])]
           /\ remote[r][e] \in Terminal
    BY <1>4 DEF PollRemote, Goto
  <2> QED BY <1>2, <2>1, <2>2, <2>3
<1> QED BY <1>3, <1>4

\* The poll writes down that e is over.
LEMMA PollWriteStep ==
    ASSUME IInv, NEW c \in Callers, NEW e \in Experiments, Sound(e), PollWrite(c, e)
    PROVE  Sound(e)'
<1>1. call[c].seen \in Terminal /\ call[c].op = "poll_write" /\ On(c, e)
  BY DEF IInv, CallsFine, PollWrite, Goto, On
<1>2. exp'[e] # "running"
  BY <1>1 DEF IInv, TypeOK, PollWrite, SetStatus, Terminal
<1> QED BY <1>1, <1>2, SettleStep DEF IInv, PollWrite, Goto, SetStatus, Over

\* It reads the status again before it releases.
LEMMA PollRereadStep ==
    ASSUME IInv, NEW c \in Callers, NEW e \in Experiments, Sound(e), PollReread(c, e)
    PROVE  Sound(e)'
<1> DEFINE to == Poll("release", e, call[c].runner, exp[e])
<1>0. /\ TypeOK /\ call \in [Callers -> Calls] /\ On(c, e) /\ call[c].op = "poll_read"
      /\ call' = [call EXCEPT ![c] = to] /\ UNCHANGED <<tables, outside>>
  BY DEF IInv, TypeOK, PollReread, Goto, On
<1>1. ~Starting(e) /\ RunsNowhere(e) /\ assigned[e] = call[c].runner
  BY <1>0, NoStart DEF Sound, OneRunner, OverRunsNowhere, Over, Releasing, OtherOps
<1>2. to.exp = e /\ to.runner = call[c].runner /\ to.op = "release" /\ to # Idle
  BY <1>0, PoolAssumption, Fields
<1> HIDE DEF to
<1>3. "release" \in OtherOps /\ "release" \in Releasing /\ "poll_read" \notin StartOps
  BY DEF OtherOps, StartOps, Releasing
<1> QED BY <1>0, <1>1, <1>2, <1>3, ReaderStep

\* CANCELLED is written when e runs nowhere.
LEMMA StopWriteStep ==
    ASSUME IInv, NEW c \in Callers, NEW e \in Experiments, Sound(e), StopWrite(c, e)
    PROVE  Sound(e)'
<1>1. /\ call[c].op \in Over /\ On(c, e) /\ call' = [call EXCEPT ![c] = At(c, "release")]
      /\ UNCHANGED <<assigned, cur, outside>>
  BY DEF StopWrite, Goto, SetStatus, On, Over
<1>2. exp'[e] # "running"
  BY DEF IInv, TypeOK, StopWrite, SetStatus
<1> QED BY <1>1, <1>2, SettleStep DEF IInv

\* upload_to_memory.
LEMMA UploadReadStep ==
    ASSUME IInv, NEW c \in Callers, NEW e \in Experiments, Sound(e), UploadRead(c, e), e \notin disturbed'
    PROVE  Sound(e)'
<1> DEFINE to == Step("upload_alloc", e, assigned[e])
<1>0. TypeOK /\ call \in [Callers -> Calls] /\ ~On(c, e)
  BY PoolAssumption DEF IInv, TypeOK, UploadRead, Begin, On, Idle, Step, Poll
<1>1. /\ call' = [call EXCEPT ![c] = to] /\ UNCHANGED <<tables, outside>> /\ ~Starting(e)
      /\ exp[e] # "running"
  BY DEF UploadRead, Begin, Disturb, Terminal
<1>2. to.exp = e /\ to.runner = assigned[e] /\ to.op = "upload_alloc"
  BY <1>0, Fields
<1>3. RunsNowhere(e)
  BY <1>1, RunsOnAssigned DEF RunsNowhere
<1> HIDE DEF to
<1> QED BY <1>0, <1>1, <1>2, <1>3, ReaderStep DEF OtherOps

\* The runner is lent to a finished experiment, or is not to be had.
LEMMA UploadAllocateStep ==
    ASSUME IInv, NEW c \in Callers, NEW e \in Experiments, NEW r \in Runners, Sound(e),
           UploadAllocate(c, r, e)
    PROVE  Sound(e)'
<1>0. /\ TypeOK /\ call \in [Callers -> Calls] /\ On(c, e) /\ call[c].op = "upload_alloc"
      /\ UNCHANGED outside
  BY DEF IInv, TypeOK, UploadAllocate, Goto, On
<1>1. ~Starting(e) /\ RunsNowhere(e) /\ assigned[e] = r /\ exp[e] # "running"
  BY <1>0, NoStart DEF UploadAllocate, Sound, OneRunner, OverRunsNowhere, Reported, Over, OtherOps
<1>2. CASE UNCHANGED tables /\ Goto(c, "upload_alloc", Idle)
  BY <1>0, <1>2, ReaderStep DEF Goto, StartOps, Releasing
<1>3. CASE Goto(c, "upload_alloc", At(c, "upload")) /\ Occupy(r, e)
  <2>1. /\ call'[c].op = "upload" /\ call'[c].exp = e /\ call'[c].runner = call[c].runner
        /\ \A d \in Callers \ {c} : call'[d] = call[d]
    BY <1>0, <1>3, Moves, Fields DEF Goto, On
  <2>2. /\ exp'[e] = exp[e] /\ assigned'[e] = assigned[e] /\ UNCHANGED <<remote, late>>
        /\ \A q \in Runners : cur'[q] = e => q = r \/ cur[q] = e
    BY <1>0, <1>1, <1>3 DEF TypeOK, Occupy, outside
  <2>3. \A d \in Callers : On(d, e)' => call'[d].op \notin StartOps
    BY <1>1, <2>1 DEF Starting, On, StartOps
  <2>4. StartsAlone(e)' /\ StartPhase(e)'
    BY <2>3 DEF StartsAlone, StartPhase, Early, Late, StartOps
  <2>5. OneRunner(e)'
    BY <1>0, <1>1, <2>1, <2>2 DEF Sound, OneRunner, On, OtherOps
  <2>6. OverRunsNowhere(e)'
    BY <1>1, <2>2 DEF OverRunsNowhere, RunsNowhere
  <2>7. AtRest(e)'
    BY <1>1, <2>1, <2>2 DEF AtRest, RunsNowhere, On, Releasing
  <2>8. Reported(e)'
    BY <1>1, <2>1, <2>2, <2>3 DEF Sound, Reported, On, StartOps
  <2> QED BY <2>4, <2>5, <2>6, <2>7, <2>8 DEF Sound
<1> QED BY <1>2, <1>3 DEF UploadAllocate

\* The releases.
LEMMA ReleaseStep ==
    ASSUME IInv, NEW c \in Callers, NEW e \in Experiments, Sound(e), ReleaseRunner(c, e)
    PROVE  Sound(e)'
<1>0. /\ TypeOK /\ call \in [Callers -> Calls] /\ On(c, e) /\ e # None
      /\ call[c].op \in {"release", "unwind", "final", "upload"}
      /\ UNCHANGED <<exp, assigned, outside>> /\ cur \in [Runners -> Experiments \cup {None}]
  BY PoolAssumption DEF IInv, TypeOK, ReleaseRunner, Goto, On, Release
<1>1. RunsNowhere(e) /\ call[c].runner = assigned[e]
  BY <1>0 DEF Sound, StartPhase, OverRunsNowhere, OneRunner, Over, Releasing, Late, Early, StartOps,
     OtherOps, RunsNowhere
<1>2. HeldNowhere(e)'
  <2>1. ASSUME NEW q \in Runners, cur'[q] = e PROVE FALSE
    <3>1. cur[q] = e
      BY <1>0, <2>1 DEF ReleaseRunner, Release
    <3>2. q = call[c].runner
      BY <1>1, <3>1 DEF Sound, OneRunner
    <3>3. q # None
      BY PoolAssumption
    <3> QED BY <1>0, <2>1, <3>1, <3>2, <3>3 DEF ReleaseRunner, Release
  <2> QED BY <2>1 DEF HeldNowhere
<1>3. PICK to \in {Idle, At(c, "final")} : call' = [call EXCEPT ![c] = to]
  BY DEF ReleaseRunner, Goto, Finish
<1>4. call'[c] = to /\ \A d \in Callers \ {c} : call'[d] = call[d]
  BY <1>0, <1>3, Moves
<1>5. On(c, e)' => call'[c].op = "final" /\ call'[c].runner = call[c].runner
  BY <1>0, <1>3, <1>4, Fields DEF On
<1>6. \A d \in Callers \ {c} : On(d, e) => call[d].op \notin StartOps
  BY <1>0 DEF Sound, StartsAlone, StartOps
<1>7. \A d \in Callers : On(d, e)' => call'[d].op \notin StartOps
  BY <1>4, <1>5, <1>6 DEF On, StartOps
<1>8. StartsAlone(e)' /\ StartPhase(e)'
  BY <1>7 DEF StartsAlone, StartPhase, Early, Late, StartOps
<1>9. OneRunner(e)'
  BY <1>0, <1>1, <1>2, <1>4, <1>5 DEF Sound, OneRunner, On, HeldNowhere
<1>10. OverRunsNowhere(e)' /\ AtRest(e)'
  BY <1>0, <1>1, <1>2 DEF OverRunsNowhere, AtRest, RunsNowhere, HeldNowhere, outside
<1>11. Reported(e)'
  BY <1>0, <1>2, <1>4, <1>5, <1>7 DEF Sound, Reported, On, HeldNowhere, StartOps, outside
<1> QED BY <1>8, <1>9, <1>10, <1>11 DEF Sound

-----------------------------------------------------------------------------
(* The reconciler, the runner and the Master's process.                    *)

\* The reconciler takes up a runner held for e ...
LEMMA ReconcileReadStep ==
    ASSUME IInv, NEW r \in Runners, NEW e \in Experiments, Sound(e), ReconcileRead(r, e)
    PROVE  Sound(e)'
<1> DEFINE to == Step("probe", e, r)
<1>0. /\ TypeOK /\ call \in [Callers -> Calls] /\ r \in Callers /\ cur[r] = e
      /\ call' = [call EXCEPT ![r] = to] /\ UNCHANGED <<tables, outside>>
  BY DEF IInv, TypeOK, ReconcileRead, Goto, Callers
<1>1. assigned[e] = r /\ call[r].op = "idle"
  BY <1>0 DEF Sound, OneRunner, ReconcileRead, Goto
<1>2. to.exp = e /\ to.runner = r /\ to.op = "probe"
  BY <1>0, Fields
<1> HIDE DEF to
<1>3. "idle" \notin StartOps \cup Releasing /\ "probe" \in OtherOps /\ "probe" \notin Over
  BY DEF StartOps, OtherOps, Over, Releasing
<1> QED BY <1>0, <1>1, <1>2, <1>3, ReaderStep

\* ... and lets go of it only if e is over there or unknown.
LEMMA ReconcileProbeStep ==
    ASSUME IInv, NEW r \in Runners, NEW e \in Experiments, Sound(e), ReconcileProbe(r, e),
           e \notin disturbed'
    PROVE  Sound(e)'
<1>0. /\ TypeOK /\ call \in [Callers -> Calls] /\ r \in Callers /\ On(r, e)
      /\ call[r].op = "probe" /\ call[r].op \notin StartOps \cup Releasing
      /\ UNCHANGED <<tables, outside>>
  BY DEF IInv, TypeOK, ReconcileProbe, Goto, On, Callers, StartOps, Releasing
<1>1. assigned[e] = r /\ call[r].runner = r
  BY <1>0 DEF Sound, OneRunner, OtherOps
<1>2. CASE call' = [call EXCEPT ![r] = Idle]
  BY <1>0, <1>2, ReaderStep
<1>3. CASE /\ remote[r][e] \in Terminal \cup {"absent"} /\ call' = [call EXCEPT ![r] = At(r, "release")]
           /\ ~Starting(e)
  <2>1. RunsNowhere(e)
    BY <1>1, <1>3, NotRunningThere DEF Terminal
  <2>2. At(r, "release").exp = e /\ At(r, "release").runner = call[r].runner
        /\ At(r, "release").op = "release"
    BY <1>0, Fields DEF On
  <2> QED BY <1>0, <1>1, <1>3, <2>1, <2>2, ReaderStep DEF OtherOps
<1> QED BY <1>2, <1>3 DEF ReconcileProbe, Goto, Disturb

-----------------------------------------------------------------------------
(* Each action, when it works on e.                                        *)

\* Until the runner has accepted the start, e runs nowhere.
LEMMA NotYetRunning ==
    ASSUME NEW c \in Callers, NEW e \in Experiments, Sound(e), On(c, e),
           call[c].op \in Late \ {"running"}
    PROVE  \A r \in Runners : remote[r][e] # "running"
BY DEF Sound, StartPhase

\* A handler's transaction.
LEMMA OwnHandler ==
    ASSUME IInv, NEW c \in Callers, NEW e \in Experiments, Sound(e), Handler(c, e), e \notin disturbed'
    PROVE  Sound(e)'
<1>0. TypeOK
  BY DEF IInv
<1>1. CASE StartRead(c, e)
  BY <1>0, <1>1, BeginStart DEF StartRead, Begin, Disturb, Startable, Early, tables
<1>2. CASE QueueExperiment(c, e)
  <2>1. PICK to \in {Idle, At(c, "requeue")} : call' = [call EXCEPT ![c] = to]
    BY <1>2 DEF QueueExperiment, Goto
  <2>2. At(c, "requeue").exp = call[c].exp /\ At(c, "requeue").op = "requeue"
    BY <1>0, Fields DEF TypeOK
  <2> QED BY <1>0, <1>2, <2>1, <2>2, EarlyStep DEF QueueExperiment, Goto, SetStatus, On, Early
<1>3. CASE Advance(c, e)
  <2>0. On(c, e) /\ exp \in [Experiments -> ExperimentStatus] /\ UNCHANGED <<assigned, cur, outside>>
    BY <1>0, <1>3 DEF TypeOK, Advance, SetStatus, On
  <2>1. CASE Goto(c, "init", At(c, "post_init")) /\ SetStatus(e, "initializing")
    <3>1. call[c].op \in Late \ {"running"} /\ "post_init" \in Late
      BY <2>1 DEF Goto, Late, Early, StartOps
    <3> QED BY <1>0, <2>0, <2>1, <3>1, NotYetRunning, LateStep DEF Goto, outside
  <2>2. CASE Goto(c, "preparing", At(c, "post_start")) /\ SetStatus(e, "preparing")
    <3>1. /\ call[c].op \in Late \ {"running"} /\ "post_start" \in Late
          /\ exp'[e] = "preparing"
      BY <2>0, <2>2 DEF Goto, SetStatus, Late, Early, StartOps
    <3> QED BY <1>0, <2>0, <2>2, <3>1, NotYetRunning, LateStep DEF Goto, outside
  <2>3. CASE Goto(c, "running", Idle) /\ SetStatus(e, "running")
    BY <1>0, <2>0, <2>3, RunningStep DEF Goto, SetStatus
  <2> QED BY <1>3, <2>1, <2>2, <2>3 DEF Advance
<1>4. CASE StartFailed(c, e)
  <2>1. call[c].op \in Late \ {"running"} /\ "unwind" \in Late /\ On(c, e)
    BY <1>4 DEF StartFailed, Goto, On, Late, Early, StartOps
  <2> QED BY <1>0, <1>4, <2>1, NotYetRunning, LateStep DEF StartFailed, Goto, SetStatus, outside
<1>5. CASE StopRead(c, e) \/ StopWrite(c, e) \/ PollRead(c, e) \/ PollWrite(c, e) \/ PollReread(c, e)
           \/ UploadRead(c, e) \/ ReleaseRunner(c, e)
  BY <1>5, StopReadStep, StopWriteStep, PollReadStep, PollWriteStep, PollRereadStep, UploadReadStep,
     ReleaseStep
<1> QED BY <1>1, <1>2, <1>3, <1>4, <1>5 DEF Handler

\* The scheduler claims e and begins a start.
LEMMA OwnScheduler ==
    ASSUME IInv, NEW e \in Experiments, Sound(e), ClaimQueued(e) \/ ScheduledRead(e), e \notin disturbed'
    PROVE  Sound(e)'
<1>0. TypeOK /\ Scheduler \in Callers
  BY DEF IInv, Callers
<1>1. CASE ClaimQueued(e)
  BY <1>0, <1>1, BeginStart DEF ClaimQueued, Goto, SetStatus, Disturb, Early
<1>2. CASE ScheduledRead(e)
  <2>1. PICK to \in {Idle, At(Scheduler, "alloc")} : call' = [call EXCEPT ![Scheduler] = to]
    BY <1>2 DEF ScheduledRead, Goto
  <2>2. At(Scheduler, "alloc").exp = call[Scheduler].exp /\ At(Scheduler, "alloc").op = "alloc"
    BY <1>0, Fields DEF TypeOK
  <2> QED BY <1>0, <1>2, <2>1, <2>2, EarlyStep DEF ScheduledRead, Goto, On, Early, tables
<1> QED BY <1>1, <1>2

\* A handler's call of a runner, or an allocation.
LEMMA OwnCall ==
    ASSUME IInv, NEW c \in Callers, NEW r \in Runners, NEW e \in Experiments, Sound(e),
           RunnerCall(c, r, e), e \notin disturbed'
    PROVE  Sound(e)'
<1>0. TypeOK /\ remote \in [Runners -> [Experiments -> RemoteStatus]]
  BY DEF IInv, TypeOK
<1>1. CASE PostInitialize(c, r, e)
  <2>1. /\ On(c, e) /\ call[c].runner = r /\ call[c].op = "post_init" /\ UNCHANGED <<assigned, cur, late>>
        /\ call' = [call EXCEPT ![c] = At(c, "preparing")]
        /\ remote' = [remote EXCEPT ![r][e] = "initialized"]
    BY <1>1 DEF PostInitialize, Goto, SetRemote, Disturb, On, tables
  <2>2. \A q \in Runners : remote'[q][e] # "running"
    BY <1>0, <2>1 DEF Sound, StartPhase, Late, Early, StartOps
  <2> QED BY <1>0, <2>1, <2>2, LateStep DEF Late, Early, StartOps
<1>2. CASE PostStart(c, r, e)
  <2>0. /\ On(c, e) /\ call[c].runner = r /\ call[c].op = "post_start" /\ call[c].op \in Late
        /\ UNCHANGED <<exp, assigned, cur, late>>
        /\ \A q \in Runners : remote[q][e] # "running"
        /\ exp[e] = "preparing"
    BY <1>2 DEF PostStart, Goto, SetRemote, On, tables, outside, Sound, StartPhase, Late, Early, StartOps
  <2>1. CASE /\ call' = [call EXCEPT ![c] = At(c, "running")]
             /\ remote' = [remote EXCEPT ![r][e] = "running"]
    <3>1. remote'[r][e] = "running" /\ \A q \in Runners : remote'[q][e] = "running" => q = r
      BY <1>0, <2>0, <2>1
    <3> QED BY <1>0, <2>0, <2>1, <3>1, LateStep DEF Late, Early, StartOps
  <2>2. CASE call' = [call EXCEPT ![c] = At(c, "failed")] /\ UNCHANGED outside
    BY <1>0, <2>0, <2>2, LateStep DEF Late, Early, StartOps, outside
  <2>3. CASE /\ call' = [call EXCEPT ![c] = At(c, "failed")]
             /\ remote' = [remote EXCEPT ![r][e] = "failed"]
    <3>1. \A q \in Runners : remote'[q][e] # "running"
      BY <1>0, <2>0, <2>3
    <3> QED BY <1>0, <2>0, <2>3, <3>1, LateStep DEF Late, Early, StartOps
  <2>4. ~Disturb(e, TRUE)
    BY DEF Disturb
  <2>5. \/ call' = [call EXCEPT ![c] = At(c, "running")] /\ SetRemote(r, e, "running")
        \/ call' = [call EXCEPT ![c] = At(c, "failed")] /\ UNCHANGED outside
        \/ call' = [call EXCEPT ![c] = At(c, "failed")] /\ SetRemote(r, e, "failed")
    BY <1>2, <2>4 DEF PostStart, Goto
  <2> QED BY <2>1, <2>2, <2>3, <2>5 DEF SetRemote
<1> QED BY <1>0, <1>1, <1>2, AllocateStep, PostStopStep, PollRemoteStep, UploadAllocateStep DEF RunnerCall

\* The runner reports how e ended.
LEMMA RemoteEndsStep ==
    ASSUME IInv, NEW r \in Runners, NEW e \in Experiments, NEW s \in Terminal, Sound(e), RemoteEnds(r, e, s)
    PROVE  Sound(e)'
<1>0. /\ remote \in [Runners -> [Experiments -> RemoteStatus]]
      /\ remote[r][e] \in {"running", "cancelled"} /\ s \in Terminal
      /\ remote' = [remote EXCEPT ![r][e] = s] /\ UNCHANGED <<exp, assigned, cur, call, late>>
      /\ s # "running"
  BY DEF IInv, TypeOK, RemoteEnds, SetRemote, tables, Terminal
<1>1. \A q \in Runners : /\ remote'[q][e] = "running" => remote[q][e] = "running"
                         /\ remote[q][e] \in Terminal => remote'[q][e] \in Terminal
                         /\ remote[q][e] = "running" => remote'[q][e] \in Terminal \cup {"running"}
  BY <1>0
<1>2. Starting(e)' <=> Starting(e)
  BY <1>0 DEF Starting
<1>3. StartsAlone(e)' /\ OneRunner(e)' /\ StartPhase(e)' /\ OverRunsNowhere(e)'
  BY <1>0, <1>1 DEF Sound, StartsAlone, OneRunner, StartPhase, OverRunsNowhere, On, RunsNowhere,
     HeldNowhere
<1>4. AtRest(e)'
  BY <1>0, <1>1, <1>2 DEF Sound, AtRest, On
<1>5. Reported(e)'
  BY <1>0, <1>1, <1>2 DEF Sound, Reported, On, StartPhase, Late, Early, StartOps
<1> QED BY <1>3, <1>4, <1>5 DEF Sound

\* The reconciler's turn, and the runner itself.
LEMMA OwnBackground ==
    ASSUME IInv, NEW r \in Runners, NEW e \in Experiments, Sound(e), Background(r, e), e \notin disturbed'
    PROVE  Sound(e)'
<1>1. ~FinishLate(r, e)
  BY DEF FinishLate, Sound, Reported
<1> QED BY <1>1, ReconcileReadStep, ReconcileProbeStep, RemoteEndsStep DEF Background

-----------------------------------------------------------------------------
(* Actions that work on another experiment, or on none.                    *)

\* What a step for experiment f can do to the tables, the calls and the runners.
TablesFor(f) ==
    \/ UNCHANGED tables
    \/ \E s : SetStatus(f, s)
    \/ \E r \in Runners : Occupy(r, f)
    \/ \E r \in Runners \cup {None} : Release(r, f)

CallsFor(f) ==
    \/ UNCHANGED call
    \/ \E c \in Callers : \E to : /\ call' = [call EXCEPT ![c] = to]
                                  /\ call[c].exp \in {f, None} /\ to.exp \in {f, None}

OutsideFor(f) ==
    \A r \in Runners, g \in Experiments \ {f} :
        remote'[r][g] = remote[r][g] /\ (<<r, g>> \in late' => <<r, g>> \in late)

\* A step for f leaves alone what Sound(e) speaks of.
LEMMA Elsewhere ==
    ASSUME IInv, NEW e \in Experiments, NEW f \in Experiments \ {e}, Sound(e),
           TablesFor(f), CallsFor(f), OutsideFor(f)
    PROVE  Sound(e)'
<1>0. TypeOK /\ e # None
  BY PoolAssumption DEF IInv
<1>1. /\ exp'[e] = exp[e] /\ assigned'[e] = assigned[e]
      /\ \A r \in Runners : cur'[r] = e <=> cur[r] = e
  <2>1. CASE UNCHANGED tables
    BY <2>1 DEF tables
  <2>2. ASSUME NEW s, SetStatus(f, s) PROVE <1>1!:
    BY <1>0, <2>2 DEF SetStatus, TypeOK
  <2>3. ASSUME NEW q \in Runners, Occupy(q, f) PROVE <1>1!:
    BY <1>0, <2>3 DEF Occupy, Free, TypeOK
  <2>4. ASSUME NEW q \in Runners \cup {None}, Release(q, f) PROVE <1>1!:
    BY <1>0, <2>4 DEF Release, TypeOK
  <2> QED BY <2>1, <2>2, <2>3, <2>4 DEF TablesFor
<1>2. \A c \in Callers : On(c, e) \/ On(c, e)' => call'[c] = call[c]
  BY <1>0 DEF CallsFor, On, TypeOK
<1>3. SameView(e)
  BY <1>1, <1>2 DEF SameView, OutsideFor
<1> QED BY <1>3, Frame

\* The actions of f are such steps: a handler's transactions,
LEMMA HandlerFor ==
    ASSUME IInv, NEW c \in Callers, NEW f \in Experiments, Handler(c, f)
    PROVE  TablesFor(f) /\ CallsFor(f) /\ OutsideFor(f)
<1>0. call \in [Callers -> Calls]
  BY DEF IInv, TypeOK
<1>1. OutsideFor(f)
  BY DEF Handler, StartRead, QueueExperiment, Advance, StartFailed, StopRead, StopWrite, PollRead,
     PollWrite, PollReread, UploadRead, ReleaseRunner, OutsideFor, outside
<1>2. TablesFor(f)
  <2>1. call[c].runner \in Runners \cup {None}
    BY <1>0 DEF Calls
  <2> QED BY <2>1 DEF Handler, StartRead, QueueExperiment, Advance, StartFailed, StopRead, StopWrite,
     PollRead, PollWrite, PollReread, UploadRead, ReleaseRunner, TablesFor
<1>3. CallsFor(f)
  <2>1. Idle.exp = None /\ \A op, r, s : Poll(op, f, r, s).exp = f /\ Step(op, f, r).exp = f
                                         /\ At(c, op).exp = call[c].exp
    BY <1>0, Fields
  <2>2. \A to : /\ call' = [call EXCEPT ![c] = to]
                /\ call[c].exp \in {f, None} /\ to.exp \in {f, None}
                => CallsFor(f)
    BY DEF CallsFor
  <2> QED
    BY <2>1, <2>2 DEF Handler, StartRead, QueueExperiment, Advance, StartFailed, StopRead, StopWrite,
       PollRead, PollWrite, PollReread, UploadRead, ReleaseRunner, Begin, Goto, Finish
<1> QED BY <1>1, <1>2, <1>3

\* its calls of a runner and allocations,
LEMMA RunnerCallFor ==
    ASSUME IInv, NEW c \in Callers, NEW r \in Runners, NEW f \in Experiments, RunnerCall(c, r, f)
    PROVE  TablesFor(f) /\ CallsFor(f) /\ OutsideFor(f)
<1>0. call \in [Callers -> Calls] /\ remote \in [Runners -> [Experiments -> RemoteStatus]]
  BY DEF IInv, TypeOK
<1>1. OutsideFor(f)
  <2>1. ASSUME NEW s, SetRemote(r, f, s) PROVE OutsideFor(f)
    BY <1>0, <2>1 DEF SetRemote, OutsideFor
  <2>2. CASE late' = late \cup {<<r, f>>} /\ UNCHANGED remote
    BY <2>2 DEF OutsideFor
  <2>3. CASE UNCHANGED outside
    BY <2>3 DEF OutsideFor, outside
  <2> QED BY <2>1, <2>2, <2>3 DEF RunnerCall, Allocate, PostInitialize, PostStart, PostStop, PollRemote,
       UploadAllocate
<1>2. TablesFor(f)
  BY DEF RunnerCall, Allocate, PostInitialize, PostStart, PostStop, PollRemote, UploadAllocate, TablesFor
<1>3. CallsFor(f)
  <2>1. Idle.exp = None /\ \A op, q, s : Poll(op, f, q, s).exp = f /\ Step(op, f, q).exp = f
                                         /\ At(c, op).exp = call[c].exp
    BY <1>0, Fields
  <2>2. \A to : /\ call' = [call EXCEPT ![c] = to]
                /\ call[c].exp \in {f, None} /\ to.exp \in {f, None}
                => CallsFor(f)
    BY DEF CallsFor
  <2>3. CASE Allocate(c, r, f) \/ PostStop(c, r, f) \/ UploadAllocate(c, r, f)
    BY <2>1, <2>2, <2>3 DEF Allocate, PostStop, UploadAllocate, Goto
  <2>4. CASE PostInitialize(c, r, f) \/ PostStart(c, r, f)
    BY <2>1, <2>2, <2>4 DEF PostInitialize, PostStart, Goto
  <2>5. CASE PollRemote(c, r, f)
    BY <2>1, <2>2, <2>5 DEF PollRemote, Goto, Finish
  <2> QED BY <2>3, <2>4, <2>5 DEF RunnerCall
<1> QED BY <1>1, <1>2, <1>3

\* the scheduler's claim,
LEMMA SchedulerFor ==
    ASSUME IInv, NEW f \in Experiments, ClaimQueued(f) \/ ScheduledRead(f)
    PROVE  TablesFor(f) /\ CallsFor(f) /\ OutsideFor(f)
<1>0. call \in [Callers -> Calls] /\ Scheduler \in Callers
  BY DEF IInv, TypeOK, Callers
<1>1. OutsideFor(f) /\ TablesFor(f)
  BY DEF ClaimQueued, ScheduledRead, OutsideFor, outside, TablesFor
<1>2. CallsFor(f)
  <2>1. call[Scheduler].op = "idle" => call[Scheduler].exp = None
    BY <1>0 DEF IInv, CallsFine
  <2>2. Idle.exp = None /\ \A op : Step(op, f, None).exp = f
                                   /\ At(Scheduler, op).exp = call[Scheduler].exp
    BY <1>0, Fields
  <2>3. \A to : /\ call' = [call EXCEPT ![Scheduler] = to]
                /\ call[Scheduler].exp \in {f, None} /\ to.exp \in {f, None}
                => CallsFor(f)
    BY <1>0 DEF CallsFor
  <2> QED BY <2>1, <2>2, <2>3 DEF ClaimQueued, ScheduledRead, Goto
<1> QED BY <1>1, <1>2

\* and the reconciler's turns and the runners' reports.
LEMMA BackgroundFor ==
    ASSUME IInv, NEW r \in Runners, NEW f \in Experiments, Background(r, f)
    PROVE  TablesFor(f) /\ CallsFor(f) /\ OutsideFor(f)
<1>0. /\ call \in [Callers -> Calls] /\ remote \in [Runners -> [Experiments -> RemoteStatus]]
      /\ r \in Callers
  BY DEF IInv, TypeOK, Callers
<1>1. OutsideFor(f)
  <2>1. ASSUME NEW s, remote' = [remote EXCEPT ![r][f] = s], late' \subseteq late PROVE OutsideFor(f)
    BY <1>0, <2>1 DEF OutsideFor
  <2>2. CASE UNCHANGED outside
    BY <2>2 DEF OutsideFor, outside
  <2> QED BY <2>1, <2>2 DEF Background, ReconcileRead, ReconcileProbe, FinishLate, RemoteEnds, SetRemote
<1>2. TablesFor(f)
  BY DEF Background, ReconcileRead, ReconcileProbe, FinishLate, RemoteEnds, TablesFor
<1>3. CallsFor(f)
  <2>1. call[r].op = "idle" => call[r].exp = None
    BY <1>0 DEF IInv, CallsFine
  <2>2. Idle.exp = None /\ \A op : Step(op, f, r).exp = f /\ At(r, op).exp = call[r].exp
    BY <1>0, Fields
  <2>3. \A to : /\ call' = [call EXCEPT ![r] = to]
                /\ call[r].exp \in {f, None} /\ to.exp \in {f, None}
                => CallsFor(f)
    BY <1>0 DEF CallsFor
  <2>4. UNCHANGED call => CallsFor(f)
    BY DEF CallsFor
  <2> QED BY <2>1, <2>2, <2>3, <2>4
       DEF Background, ReconcileRead, ReconcileProbe, FinishLate, RemoteEnds, Goto
<1> QED BY <1>1, <1>2, <1>3

\* What the health monitor, the operator and the recovery of stale dispatches write is
\* nothing that Sound(e) speaks of, but for the status DISPATCHING.
LEMMA RowOnly ==
    ASSUME NEW e \in Experiments, Sound(e), UNCHANGED <<exp, assigned, cur, outside, call>> PROVE Sound(e)'
<1>1. SameView(e)
  BY DEF SameView, outside
<1> QED BY <1>1, Frame

\* DISPATCHING turns into QUEUED, which is as good.
LEMMA RecoverStaleStep ==
    ASSUME IInv, NEW e \in Experiments, Sound(e), RecoverStale PROVE Sound(e)'
<1>0. exp'[e] = IF exp[e] = "dispatching" THEN "queued" ELSE exp[e]
  BY DEF RecoverStale
<1>1. CASE exp[e] = "dispatching"
  BY <1>0, <1>1, StatusStep DEF RecoverStale
<1>2. CASE exp[e] # "dispatching"
  <2>1. SameView(e)
    BY <1>0, <1>2 DEF SameView, RecoverStale, outside
  <2> QED BY <2>1, Frame
<1> QED BY <1>1, <1>2

\* A caller's step that its experiment is not named in: NoCapacity and PostFails.
LEMMA CallerStep ==
    ASSUME IInv, NEW c \in Callers, NEW e \in Experiments, Sound(e), NoCapacity(c) \/ PostFails(c)
    PROVE  Sound(e)'
<1> DEFINE to == At(c, IF NoCapacity(c) THEN "queue" ELSE "failed")
<1>0. /\ TypeOK /\ call \in [Callers -> Calls] /\ UNCHANGED <<tables, outside>>
      /\ call' = [call EXCEPT ![c] = to]
  BY DEF IInv, TypeOK, NoCapacity, PostFails, Goto
<1>1. CASE ~On(c, e)
  <2>1. call'[c].exp = call[c].exp /\ \A d \in Callers \ {c} : call'[d] = call[d]
    BY <1>0, Moves, Fields
  <2>2. SameView(e)
    BY <1>0, <1>1, <2>1 DEF SameView, On, tables, outside
  <2> QED BY <2>2, Frame
<1>2. CASE On(c, e) /\ NoCapacity(c)
  <2>1. to.exp = e /\ to.op = "queue" /\ call[c].op = "alloc"
    BY <1>0, <1>2, Fields DEF On, NoCapacity, Goto
  <2> HIDE DEF to
  <2> QED BY <1>0, <1>2, <2>1, EarlyStep DEF Early, tables
<1>3. CASE On(c, e) /\ PostFails(c) /\ ~NoCapacity(c)
  <2>1. call[c].op \in Late \ {"running"} /\ "failed" \in Late
    BY <1>3 DEF PostFails, Goto, Late, Early, StartOps
  <2> QED BY <1>0, <1>3, <2>1, NotYetRunning, LateStep DEF tables, outside
<1> QED BY <1>1, <1>2, <1>3

\* A restart of the Master leaves undisturbed only what no handler worked on.
LEMMA RestartStep ==
    ASSUME IInv, NEW e \in Experiments, Sound(e), MasterRestarts, e \notin disturbed' PROVE Sound(e)'
<1>1. /\ \A c \in Callers : ~On(c, e) /\ call'[c] = Idle
      /\ UNCHANGED <<exp, assigned, cur, remote, late>> /\ e # None
  BY PoolAssumption DEF MasterRestarts, InFlight, On, tables, outside
<1>2. \A c \in Callers : ~On(c, e)'
  BY <1>1 DEF On, Idle, Step, Poll
<1>3. ~Starting(e)
  BY <1>1 DEF Starting, On
<1> QED BY <1>1, <1>2, <1>3
     DEF Sound, StartsAlone, OneRunner, StartPhase, OverRunsNowhere, AtRest, Reported

-----------------------------------------------------------------------------
(* Every step.                                                             *)

\* No step puts an experiment back among the undisturbed.
LEMMA DisturbedGrows == ASSUME Next PROVE disturbed \subseteq disturbed'
<1>0. \A e \in Experiments : \A b \in BOOLEAN : Disturb(e, b) => disturbed \subseteq disturbed'
  BY DEF Disturb
<1>1. \A e : InFlight(e) \in BOOLEAN /\ Starting(e) \in BOOLEAN
  BY DEF InFlight, Starting
<1>2. ASSUME NEW c \in Callers, NEW e \in Experiments, Handler(c, e) PROVE disturbed \subseteq disturbed'
  BY <1>0, <1>1, <1>2 DEF Handler, StartRead, QueueExperiment, Advance, StartFailed, StopRead, StopWrite,
     PollRead, PollWrite, PollReread, UploadRead, ReleaseRunner
<1>3. ASSUME NEW c \in Callers, NEW r \in Runners, NEW e \in Experiments, RunnerCall(c, r, e)
      PROVE disturbed \subseteq disturbed'
  BY <1>0, <1>1, <1>3 DEF RunnerCall, Allocate, PostInitialize, PostStart, PostStop, PollRemote,
     UploadAllocate
<1>4. ASSUME NEW c \in Callers, NoCapacity(c) \/ PostFails(c) PROVE disturbed \subseteq disturbed'
  BY <1>4 DEF NoCapacity, PostFails
<1>5. ASSUME NEW e \in Experiments, ClaimQueued(e) \/ ScheduledRead(e) PROVE disturbed \subseteq disturbed'
  BY <1>0, <1>1, <1>5 DEF ClaimQueued, ScheduledRead
<1>6. ASSUME NEW r \in Runners, NEW e \in Experiments, Background(r, e) PROVE disturbed \subseteq disturbed'
  BY <1>0, <1>1, <1>6 DEF Background, ReconcileRead, ReconcileProbe, FinishLate, RemoteEnds
<1>7. ASSUME NEW r \in Runners, RunnerRow(r) PROVE disturbed \subseteq disturbed'
  BY <1>7 DEF RunnerRow, HealthDecide, InstanceEndpoint, HealthWrite
<1>8. CASE RecoverStale \/ MasterRestarts
  BY <1>8 DEF RecoverStale, MasterRestarts
<1> QED BY <1>2, <1>3, <1>4, <1>5, <1>6, <1>7, <1>8, Actions

\* A step keeps Sound(e), whatever it works on, unless it disturbs e.
LEMMA SoundStep ==
    ASSUME IInv, Next, NEW e \in Experiments, Sound(e), e \notin disturbed' PROVE Sound(e)'
<1>1. ASSUME NEW c \in Callers, NEW f \in Experiments, Handler(c, f) PROVE Sound(e)'
  <2>1. CASE f = e
    BY <1>1, <2>1, OwnHandler
  <2>2. CASE f # e
    BY <1>1, <2>2, HandlerFor, Elsewhere
  <2> QED BY <2>1, <2>2
<1>2. ASSUME NEW c \in Callers, NEW r \in Runners, NEW f \in Experiments, RunnerCall(c, r, f)
      PROVE  Sound(e)'
  <2>1. CASE f = e
    BY <1>2, <2>1, OwnCall
  <2>2. CASE f # e
    BY <1>2, <2>2, RunnerCallFor, Elsewhere
  <2> QED BY <2>1, <2>2
<1>3. ASSUME NEW c \in Callers, NoCapacity(c) \/ PostFails(c) PROVE Sound(e)'
  BY <1>3, CallerStep
<1>4. ASSUME NEW f \in Experiments, ClaimQueued(f) \/ ScheduledRead(f) PROVE Sound(e)'
  <2>1. CASE f = e
    BY <1>4, <2>1, OwnScheduler
  <2>2. CASE f # e
    BY <1>4, <2>2, SchedulerFor, Elsewhere
  <2> QED BY <2>1, <2>2
<1>5. ASSUME NEW r \in Runners, NEW f \in Experiments, Background(r, f) PROVE Sound(e)'
  <2>1. CASE f = e
    BY <1>5, <2>1, OwnBackground
  <2>2. CASE f # e
    BY <1>5, <2>2, BackgroundFor, Elsewhere
  <2> QED BY <2>1, <2>2
<1>6. ASSUME NEW r \in Runners, RunnerRow(r) PROVE Sound(e)'
  BY <1>6, RowOnly DEF RunnerRow, HealthDecide, InstanceEndpoint, HealthWrite, tables
<1>7. CASE RecoverStale
  BY <1>7, RecoverStaleStep
<1>8. CASE MasterRestarts
  BY <1>8, RestartStep
<1> QED BY <1>1, <1>2, <1>3, <1>4, <1>5, <1>6, <1>7, <1>8, Actions

\* And so it does for all that are still undisturbed.
LEMMA AllSoundStep == IInv /\ AllSound /\ [Next]_vars => AllSound'
<1>1. IInv /\ AllSound /\ Next => AllSound'
  BY SoundStep, DisturbedGrows DEF AllSound
<1>2. ASSUME AllSound, UNCHANGED vars, NEW e \in Experiments \ disturbed PROVE Sound(e)'
  BY <1>2, RowOnly DEF AllSound, vars, tables
<1> QED BY <1>1, <1>2 DEF AllSound, vars

\* At the start nothing runs and nobody is held.
LEMMA InitSound == Init => AllSound
<1> SUFFICES ASSUME Init, NEW e \in Experiments PROVE Sound(e)
  BY DEF AllSound
<1>1. /\ \A c \in Callers : ~On(c, e)
      /\ \A r \in Runners : cur[r] # e /\ remote[r][e] = "absent" /\ <<r, e>> \notin late
  BY PoolAssumption DEF Init, On, Idle, Step, Poll
<1> QED BY <1>1 DEF Sound, StartsAlone, OneRunner, StartPhase, OverRunsNowhere, AtRest, Reported

-----------------------------------------------------------------------------
(* The invariant and what follows.                                         *)

\* What Sound says of an undisturbed experiment holds in every reachable state.
THEOREM UndisturbedAreSound == Spec => [](IInv /\ AllSound)
<1>1. IInv /\ AllSound /\ [Next]_vars => (IInv /\ AllSound)'
  BY StepInvariant, AllSoundStep
<1>2. Init => IInv /\ AllSound
  BY InitInvariant, InitSound
<1> QED BY <1>1, <1>2, PTL DEF Spec

\* Where an experiment runs.
LEMMA RunsWhereHeld ==
    ASSUME IInv, NEW e \in Experiments, Sound(e), NEW r \in Runners, remote[r][e] = "running"
    PROVE  cur[r] = e /\ assigned[e] = r /\ exp[e] \in {"preparing", "running"}
<1>1. CASE Starting(e)
  <2>1. PICK c \in Callers : On(c, e) /\ call[c].op \in StartOps
    BY <1>1 DEF Starting, On
  <2>2. call[c].op = "running" /\ r = call[c].runner /\ cur[r] = e /\ exp[e] = "preparing"
    BY <2>1 DEF Sound, StartPhase, RunsNowhere, Late
  <2> QED BY <2>2 DEF Sound, OneRunner
<1>2. CASE ~Starting(e)
  BY <1>2, RunsOnAssigned
<1> QED BY <1>1, <1>2

\* A runner that executes an experiment whose start went undisturbed is held for it and is
\* the one the experiment knows, however many requests and turns of the loops interleave.
THEOREM RunningIsHeld == Spec => []RunnerHeld
<1>1. IInv /\ AllSound => RunnerHeld
  BY RunsWhereHeld DEF AllSound, RunnerHeld
<1> QED BY <1>1, UndisturbedAreSound, PTL

\* No runner executes an experiment that the Master's table has waiting or over, if its
\* start went undisturbed.
THEOREM SettledIsStopped == Spec => []SettledRunsNowhere
<1>1. IInv /\ AllSound => SettledRunsNowhere
  <2>1. {"preparing", "running"} \cap (Waiting \cup Terminal) = {}
    BY DEF Waiting, Terminal
  <2> QED BY <2>1, RunsWhereHeld DEF AllSound, SettledRunsNowhere
<1> QED BY <1>1, UndisturbedAreSound, PTL

\* A runner held for an undisturbed experiment is on its way to run it, lent to it, or has
\* something to report that makes the reconciler let go of it.
THEOREM HoldsEnd == Spec => []NoRunnerLeaked
<1>1. IInv /\ AllSound => NoRunnerLeaked
  <2> DEFINE Kept(r, e) ==
        \/ remote[r][e] \in Terminal \cup {"running"}
        \/ \E c \in Callers : call[c].exp = e /\ call[c].runner = r
                              /\ call[c].op \in StartOps \cup {"upload", "release", "final"}
  <2>0. (\A r \in Runners : cur[r] \in Experiments \ disturbed => Kept(r, cur[r])) => NoRunnerLeaked
    BY Zenon DEF NoRunnerLeaked
  <2> HIDE DEF Kept
  <2>1. SUFFICES ASSUME IInv, AllSound, NEW r \in Runners, NEW e \in Experiments \ disturbed, cur[r] = e
        PROVE  Kept(r, e)
    BY <2>0
  <2> USE DEF Kept
  <2>2. Sound(e)
    BY <2>1 DEF AllSound
  <2>3. CASE Starting(e)
    <3>1. PICK c \in Callers : On(c, e) /\ call[c].op \in StartOps
      BY <2>3 DEF Starting, On
    <3>2. call[c].op \in Late
      BY <2>1, <2>2, <3>1 DEF Sound, StartPhase, HeldNowhere, Late
    <3>3. call[c].runner = r
      BY <2>1, <2>2, <3>1, <3>2 DEF Sound, OneRunner
    <3> QED BY <3>1, <3>3 DEF On
  <2>4. CASE ~Starting(e) /\ exp[e] = "running"
    BY <2>1, <2>2, <2>4 DEF Sound, Reported
  <2>5. CASE ~Starting(e) /\ exp[e] # "running"
    <3>1. PICK c \in Callers : On(c, e) /\ call[c].op \in Releasing
      BY <2>1, <2>2, <2>5 DEF Sound, AtRest
    <3>2. call[c].runner = r
      BY <2>1, <2>2, <3>1 DEF Sound, OneRunner, Releasing, OtherOps
    <3>3. CASE call[c].op = "poll_read"
      BY <2>2, <3>1, <3>2, <3>3 DEF Sound, Reported
    <3>4. CASE call[c].op # "poll_read"
      BY <3>1, <3>2, <3>4 DEF On, Releasing
    <3> QED BY <3>3, <3>4
  <2> QED BY <2>3, <2>4, <2>5
<1> QED BY <1>1, UndisturbedAreSound, PTL

-----------------------------------------------------------------------------
(* The scheduler's turns: the safety half of QueuedDispatched.             *)

\* The scheduler does nothing but start experiments.
Scheduling == call[Scheduler].op \in {"idle"} \cup StartOps

\* How many steps the scheduler is from the end of its turn, at most.
Rest == [read |-> 8, alloc |-> 7, init |-> 6, post_init |-> 5, preparing |-> 4, post_start |-> 3,
         failed |-> 2, unwind |-> 1, queue |-> 2, requeue |-> 1, running |-> 1, idle |-> 0]

TurnGoesOn ==
    /\ Rest[call'[Scheduler].op] < Rest[call[Scheduler].op]
    /\ call'[Scheduler].exp \in {call[Scheduler].exp, None}
    /\ call'[Scheduler].op \in {"idle"} \cup StartOps

\* Without a fault, each step of the scheduler brings its turn closer to its end, without
\* losing the experiment it claimed, and no other step touches the turn.
DispatchEnds ==
    [][faults' = faults =>
          IF Schedule /\ call[Scheduler].op # "idle" THEN TurnGoesOn
          ELSE call'[Scheduler] = call[Scheduler] \/ \E e \in Experiments : ClaimQueued(e)]_vars

\* DISPATCHING means that the scheduler has the experiment in hand and has not written its
\* outcome yet, unless a restart of the Master made it lose it.
InHand(e) == On(Scheduler, e) /\ call[Scheduler].op \in {"read", "alloc", "queue", "init"}
DispatchInHand == \A e \in Experiments \ disturbed : exp[e] = "dispatching" => InHand(e)

LEMMA SchedulerFacts ==
    ASSUME IInv
    PROVE  /\ Scheduler \in Callers /\ Scheduler \notin Clients /\ Scheduler \notin Runners
           /\ call \in [Callers -> Calls] /\ call[Scheduler].exp \in Experiments \cup {None}
           /\ Clients \subseteq Callers /\ Runners \subseteq Callers
BY PoolAssumption DEF IInv, TypeOK, Callers, Calls

\* The scheduler's own steps.
LEMMA ScheduleMoves ==
    ASSUME IInv, Scheduling, Schedule, call[Scheduler].op # "idle"
    PROVE  TurnGoesOn \/ (faults' = faults + 1 /\ call'[Scheduler].op \in StartOps)
<1> DEFINE S == Scheduler
           Nearer(from, to) == /\ Rest[to.op] < Rest[from] /\ to.op \in {"idle"} \cup StartOps
                               /\ to.exp \in {call[S].exp, None}
<1>0. S \in Callers /\ S \notin Clients /\ call \in [Callers -> Calls]
  BY SchedulerFacts
<1>1. ASSUME NEW from, NEW to, Goto(S, from, to), Nearer(from, to)
      PROVE  TurnGoesOn
  <2>1. call[S].op = from /\ call'[S] = to
    BY <1>0, <1>1 DEF Goto
  <2> QED BY <1>1, <2>1 DEF TurnGoesOn
<1>2. /\ \A op : At(S, op).op = op /\ At(S, op).exp = call[S].exp
      /\ \A op, e, r : Step(op, e, r).op = op /\ Step(op, e, r).exp = e
      /\ Idle.op = "idle" /\ Idle.exp = None
  BY <1>0, Fields
<1>3. CASE RecoverStale \/ \E e \in Experiments : ClaimQueued(e)
  BY <1>2, <1>3 DEF RecoverStale, ClaimQueued, Goto
<1>4. ASSUME NEW e \in Experiments, ScheduledRead(e) PROVE TurnGoesOn
  <2>1. Nearer("read", At(S, "alloc")) /\ Nearer("read", Idle)
    BY <1>2 DEF Rest, StartOps
  <2> HIDE DEF Nearer
  <2> QED BY <1>1, <1>4, <2>1 DEF ScheduledRead
<1>5. CASE NoCapacity(S)
  <2>1. Nearer("alloc", At(S, "queue"))
    BY <1>2 DEF Rest, StartOps
  <2> HIDE DEF Nearer
  <2> QED BY <1>1, <1>5, <2>1 DEF NoCapacity
<1>6. ASSUME NEW e \in Experiments, ReleaseRunner(S, e) PROVE TurnGoesOn
  <2>1. Goto(S, "unwind", Idle)
    BY <1>6 DEF ReleaseRunner, Goto, Scheduling, StartOps
  <2>2. Nearer("unwind", Idle)
    BY <1>2 DEF Rest, StartOps
  <2> HIDE DEF Nearer
  <2> QED BY <1>1, <2>1, <2>2
<1>7. ASSUME NEW e \in Experiments, QueueExperiment(S, e) \/ StartFailed(S, e) PROVE TurnGoesOn
  <2>1. Goto(S, "queue", At(S, "requeue")) \/ Goto(S, "requeue", Idle) \/ Goto(S, "failed", At(S, "unwind"))
    BY <1>7 DEF QueueExperiment, StartFailed
  <2>2. Nearer("queue", At(S, "requeue")) /\ Nearer("requeue", Idle) /\ Nearer("failed", At(S, "unwind"))
    BY <1>2 DEF Rest, StartOps
  <2> HIDE DEF Nearer
  <2> QED BY <1>1, <2>1, <2>2
<1>8. ASSUME NEW e \in Experiments, Advance(S, e) PROVE TurnGoesOn
  <2>1. \/ Goto(S, "init", At(S, "post_init")) \/ Goto(S, "preparing", At(S, "post_start"))
        \/ Goto(S, "running", Idle)
    BY <1>8 DEF Advance
  <2>2. Nearer("init", At(S, "post_init")) /\ Nearer("preparing", At(S, "post_start"))
        /\ Nearer("running", Idle)
    BY <1>2 DEF Rest, StartOps
  <2> HIDE DEF Nearer
  <2> QED BY <1>1, <2>1, <2>2
<1>9. ASSUME NEW e \in Experiments, StartRead(S, e) PROVE FALSE
  BY <1>0, <1>9 DEF StartRead, Begin
<1>10. ASSUME NEW e \in Experiments, NEW r \in Runners, Allocate(S, r, e) PROVE TurnGoesOn
  <2>1. Goto(S, "alloc", Step("init", e, r)) /\ e = call[S].exp
    BY <1>10 DEF Allocate
  <2>2. Nearer("alloc", Step("init", e, r))
    BY <1>2, <2>1 DEF Rest, StartOps
  <2> HIDE DEF Nearer
  <2> QED BY <1>1, <2>1, <2>2
<1>11. ASSUME NEW e \in Experiments, NEW r \in Runners, PostInitialize(S, r, e) \/ PostStart(S, r, e)
       PROVE  TurnGoesOn \/ (faults' = faults + 1 /\ call'[S].op \in StartOps)
  <2>1. \/ Goto(S, "post_init", At(S, "preparing")) \/ Goto(S, "post_start", At(S, "running"))
        \/ Goto(S, "post_start", At(S, "failed"))
        \/ /\ faults' = faults + 1
           /\ Goto(S, "post_init", At(S, "post_init")) \/ Goto(S, "post_start", At(S, "post_start"))
    BY <1>11 DEF PostInitialize, PostStart, Fault
  <2>2. Nearer("post_init", At(S, "preparing")) /\ Nearer("post_start", At(S, "running"))
        /\ Nearer("post_start", At(S, "failed"))
    BY <1>2 DEF Rest, StartOps
  <2>3. Goto(S, "post_init", At(S, "post_init")) \/ Goto(S, "post_start", At(S, "post_start"))
        => call'[S].op \in StartOps
    BY <1>0, <1>2 DEF Goto, StartOps
  <2> HIDE DEF Nearer
  <2> QED BY <1>1, <2>1, <2>2, <2>3
<1>12. ASSUME NEW e \in Experiments, Dispatch(S, e)
       PROVE  TurnGoesOn \/ (faults' = faults + 1 /\ call'[S].op \in StartOps)
  BY <1>7, <1>8, <1>9, <1>10, <1>11, <1>12 DEF Dispatch
<1> QED BY <1>3, <1>4, <1>5, <1>6, <1>12 DEF Schedule

\* Everybody else's steps, and the claim that begins a turn.
LEMMA OthersSchedule ==
    ASSUME IInv, Scheduling, Next, ~(Schedule /\ call[Scheduler].op # "idle")
    PROVE  \/ call'[Scheduler] = call[Scheduler]
           \/ (\E e \in Experiments : ClaimQueued(e)) /\ call'[Scheduler].op = "read"
           \/ faults' = faults + 1 /\ call'[Scheduler].op \in {"idle"} \cup StartOps
<1> DEFINE S == Scheduler
           Goal == \/ call'[S] = call[S]
                   \/ (\E e \in Experiments : ClaimQueued(e)) /\ call'[S].op = "read"
                   \/ faults' = faults + 1 /\ call'[S].op \in {"idle"} \cup StartOps
<1>0. S \in Callers /\ S \notin Clients /\ S \notin Runners /\ call \in [Callers -> Calls]
      /\ Clients \subseteq Callers /\ Runners \subseteq Callers
  BY SchedulerFacts
<1>1. ASSUME NEW c \in Callers, NEW to, c # S, call' = [call EXCEPT ![c] = to] PROVE Goal
  BY <1>0, <1>1
<1>2. call[S].op \in {"idle"} \cup StartOps /\ Idle.op = "idle"
  BY DEF Scheduling, Idle, Step, Poll
<1>3. ASSUME NEW e \in Experiments, Handler(S, e) PROVE call[S].op # "idle" /\ Schedule
  BY <1>0, <1>2, <1>3 DEF Handler, StartRead, QueueExperiment, Advance, StartFailed, StopRead, StopWrite,
     PollRead, PollWrite, PollReread, UploadRead, ReleaseRunner, Begin, Goto, StartOps, Schedule, Dispatch
<1>4. ASSUME NEW r \in Runners, NEW e \in Experiments, RunnerCall(S, r, e)
      PROVE  call[S].op # "idle" /\ Schedule
  BY <1>2, <1>4 DEF RunnerCall, Allocate, PostInitialize, PostStart, PostStop, PollRemote, UploadAllocate,
     Goto, StartOps, Schedule, Dispatch
<1> HIDE DEF Goal
<1>5. ASSUME NEW c \in Callers, NEW e \in Experiments, Handler(c, e) PROVE Goal
  BY <1>1, <1>3, <1>5 DEF Handler, StartRead, QueueExperiment, Advance, StartFailed, StopRead, StopWrite,
     PollRead, PollWrite, PollReread, UploadRead, ReleaseRunner, Begin, Goto
<1>6. ASSUME NEW c \in Callers, NEW r \in Runners, NEW e \in Experiments, RunnerCall(c, r, e) PROVE Goal
  BY <1>1, <1>4, <1>6 DEF RunnerCall, Allocate, PostInitialize, PostStart, PostStop, PollRemote,
     UploadAllocate, Goto
<1>7. ASSUME NEW c \in Callers, NoCapacity(c) \/ PostFails(c) PROVE Goal
  <2>1. CASE c # S
    BY <1>1, <1>7, <2>1 DEF NoCapacity, PostFails, Goto
  <2>2. CASE c = S /\ NoCapacity(S)
    BY <2>2 DEF NoCapacity, Goto, Schedule
  <2>3. CASE c = S /\ PostFails(S)
    <3>1. faults' = faults + 1 /\ call' = [call EXCEPT ![S] = At(S, "failed")]
      BY <2>3 DEF PostFails, Goto, Fault
    <3>2. call'[S].op = "failed"
      BY <1>0, <3>1, Fields
    <3> QED BY <3>1, <3>2 DEF Goal, StartOps
  <2> QED BY <1>7, <2>1, <2>2, <2>3
<1>8. ASSUME NEW e \in Experiments, ClaimQueued(e) PROVE Goal
  <2>1. call'[S] = Step("read", e, None)
    BY <1>0, <1>8 DEF ClaimQueued, Goto
  <2> QED BY <1>8, <2>1 DEF Goal, Step, Poll
<1>9. ASSUME NEW e \in Experiments, ScheduledRead(e) PROVE Goal
  BY <1>9 DEF ScheduledRead, Goto, Schedule
<1>10. ASSUME NEW r \in Runners, NEW e \in Experiments, Background(r, e) PROVE Goal
  <2>1. CASE ReconcileRead(r, e) \/ ReconcileProbe(r, e)
    BY <1>0, <1>1, <2>1 DEF ReconcileRead, ReconcileProbe, Goto
  <2>2. CASE FinishLate(r, e) \/ \E s \in Terminal : RemoteEnds(r, e, s)
    BY <2>2 DEF FinishLate, RemoteEnds, Goal
  <2> QED BY <1>10, <2>1, <2>2 DEF Background
<1>11. ASSUME NEW r \in Runners, RunnerRow(r) PROVE Goal
  BY <1>11 DEF RunnerRow, HealthDecide, InstanceEndpoint, HealthWrite, Goal
<1>12. CASE RecoverStale
  BY <1>12 DEF RecoverStale, Goal
<1>13. CASE MasterRestarts
  BY <1>0, <1>2, <1>13 DEF MasterRestarts, Fault, Goal
<1> QED BY <1>5, <1>6, <1>7, <1>8, <1>9, <1>10, <1>11, <1>12, <1>13, Actions DEF Goal

LEMMA SchedulingStep == IInv /\ Scheduling /\ [Next]_vars => Scheduling'
<1>1. ASSUME IInv, Scheduling, Next PROVE Scheduling'
  BY <1>1, ScheduleMoves, OthersSchedule DEF Scheduling, TurnGoesOn, StartOps
<1>2. Scheduling /\ UNCHANGED vars => Scheduling'
  BY DEF Scheduling, vars
<1> QED BY <1>1, <1>2

\* A turn of the scheduler comes to its end.
THEOREM SchedulerAdvances == Spec => DispatchEnds
<1>1. Init => Scheduling
  BY DEF Init, Scheduling, Callers, Idle, Step, Poll
<1>2. IInv /\ Scheduling /\ [Next]_vars =>
        [faults' = faults =>
            IF Schedule /\ call[Scheduler].op # "idle" THEN TurnGoesOn
            ELSE call'[Scheduler] = call[Scheduler] \/ \E e \in Experiments : ClaimQueued(e)]_vars
  <2> SUFFICES ASSUME IInv, Scheduling, Next, faults' = faults
               PROVE  IF Schedule /\ call[Scheduler].op # "idle" THEN TurnGoesOn
                      ELSE call'[Scheduler] = call[Scheduler] \/ \E e \in Experiments : ClaimQueued(e)
    OBVIOUS
  <2>1. faults' # faults + 1
    BY DEF IInv, TypeOK
  <2> QED BY <2>1, ScheduleMoves, OthersSchedule
<1> QED BY <1>1, <1>2, SchedulingStep, PoolInvariance, PTL DEF Spec, DispatchEnds

\* Only the claim writes DISPATCHING.
LEMMA DispatchingWritten ==
    ASSUME IInv, Next, NEW e \in Experiments, exp'[e] = "dispatching"
    PROVE  exp[e] = "dispatching" \/ ClaimQueued(e)
<1>0. exp \in [Experiments -> ExperimentStatus] /\ CallsFine
  BY DEF IInv, TypeOK
<1>1. ASSUME NEW f \in Experiments, NEW st, st # "dispatching", SetStatus(f, st)
      PROVE  exp[e] = "dispatching"
  BY <1>0, <1>1 DEF SetStatus
<1>2. ASSUME NEW c \in Callers, NEW f \in Experiments, Handler(c, f) PROVE exp[e] = "dispatching"
  <2>1. CASE QueueExperiment(c, f) \/ Advance(c, f) \/ StartFailed(c, f) \/ StopWrite(c, f)
    BY <1>1, <2>1 DEF QueueExperiment, Advance, StartFailed, StopWrite
  <2>2. CASE PollWrite(c, f)
    <3>1. call[c].seen # "dispatching"
      BY <1>0, <2>2 DEF PollWrite, Goto, CallsFine, Terminal
    <3> QED BY <1>1, <2>2, <3>1 DEF PollWrite
  <2>3. CASE StartRead(c, f) \/ StopRead(c, f) \/ PollRead(c, f) \/ PollReread(c, f) \/ UploadRead(c, f)
             \/ ReleaseRunner(c, f)
    BY <2>3 DEF StartRead, StopRead, PollRead, PollReread, UploadRead, ReleaseRunner, Release, tables
  <2> QED BY <1>2, <2>1, <2>2, <2>3 DEF Handler
<1>3. ASSUME NEW c \in Callers, NEW r \in Runners, NEW f \in Experiments, RunnerCall(c, r, f)
      PROVE  exp[e] = "dispatching"
  BY <1>3 DEF RunnerCall, Allocate, PostInitialize, PostStart, PostStop, PollRemote, UploadAllocate,
     Occupy, tables
<1>4. ASSUME NEW c \in Callers, NoCapacity(c) \/ PostFails(c) PROVE exp[e] = "dispatching"
  BY <1>4 DEF NoCapacity, PostFails, tables
<1>5. ASSUME NEW f \in Experiments, ClaimQueued(f) \/ ScheduledRead(f)
      PROVE  exp[e] = "dispatching" \/ ClaimQueued(e)
  BY <1>0, <1>5 DEF ClaimQueued, ScheduledRead, SetStatus, tables
<1>6. ASSUME NEW r \in Runners, NEW f \in Experiments, Background(r, f) PROVE exp[e] = "dispatching"
  BY <1>6 DEF Background, ReconcileRead, ReconcileProbe, FinishLate, RemoteEnds, tables
<1>7. ASSUME NEW r \in Runners, RunnerRow(r) PROVE exp[e] = "dispatching"
  BY <1>7 DEF RunnerRow, HealthDecide, InstanceEndpoint, HealthWrite, tables
<1>8. CASE RecoverStale \/ MasterRestarts
  BY <1>0, <1>8 DEF RecoverStale, MasterRestarts, tables
<1> QED BY <1>2, <1>3, <1>4, <1>5, <1>6, <1>7, <1>8, Actions

\* The scheduler's steps with an experiment it has in hand.
LEMMA InHandStep ==
    ASSUME IInv, Scheduling, Next, NEW e \in Experiments, InHand(e), exp[e] = "dispatching",
           exp'[e] = "dispatching"
    PROVE  InHand(e)' \/ e \in disturbed'
<1> DEFINE S == Scheduler
<1>0. S \in Callers /\ S \notin Clients /\ S \notin Runners /\ call \in [Callers -> Calls]
      /\ exp \in [Experiments -> ExperimentStatus]
  BY SchedulerFacts DEF IInv, TypeOK
<1>1. call'[S] = call[S] => InHand(e)'
  BY DEF InHand, On
<1>2. ASSUME NEW from, NEW to, Goto(S, from, to), to.exp = e, to.op \in {"read", "alloc", "queue", "init"}
      PROVE  InHand(e)'
  BY <1>0, <1>2 DEF InHand, On, Goto
<1>3. /\ \A op : At(S, op).op = op /\ At(S, op).exp = call[S].exp
      /\ \A op, f, r : Step(op, f, r).op = op /\ Step(op, f, r).exp = f
      /\ call[S].exp = e /\ call[S].op \in {"read", "alloc", "queue", "init"}
  BY <1>0, Fields DEF InHand, On
<1>4. CASE Schedule
  <2>1. CASE RecoverStale \/ \E f \in Experiments : ClaimQueued(f)
    BY <1>3, <2>1 DEF RecoverStale, ClaimQueued, Goto, Idle, Step, Poll
  <2>2. ASSUME NEW f \in Experiments, ScheduledRead(f) PROVE InHand(e)'
    BY <1>2, <1>3, <2>2 DEF ScheduledRead
  <2>3. ASSUME NEW f \in Experiments, ReleaseRunner(S, f) PROVE FALSE
    BY <1>3, <2>3 DEF ReleaseRunner, Goto
  <2>4. CASE NoCapacity(S)
    BY <1>2, <1>3, <2>4 DEF NoCapacity
  <2>5. ASSUME NEW f \in Experiments, Dispatch(S, f) PROVE InHand(e)'
    <3>1. CASE \E r \in Runners : Allocate(S, r, f)
      BY <1>2, <1>3, <3>1 DEF Allocate
    <3>2. CASE QueueExperiment(S, f) \/ Advance(S, f)
      BY <1>0, <1>3, <3>2 DEF QueueExperiment, Advance, SetStatus, Goto
    <3>3. CASE StartRead(S, f) \/ StartFailed(S, f) \/ \E r \in Runners : PostInitialize(S, r, f) \/ PostStart(S, r, f)
      BY <1>0, <1>3, <3>3 DEF StartRead, StartFailed, PostInitialize, PostStart, Begin, Goto
    <3> QED BY <2>5, <3>1, <3>2, <3>3 DEF Dispatch
  <2> QED BY <1>4, <2>1, <2>2, <2>3, <2>4, <2>5 DEF Schedule
<1>5. CASE MasterRestarts
  BY <1>0, <1>3, <1>5 DEF MasterRestarts, InFlight
<1>6. ASSUME ~Schedule, ~MasterRestarts PROVE call'[S] = call[S]
  <2>1. call[S].op # "post_init" /\ call[S].op # "post_start" /\ call[S].op # "idle"
    BY <1>3
  <2>2. ASSUME NEW c \in Callers, NEW to, c # S, call' = [call EXCEPT ![c] = to] PROVE call'[S] = call[S]
    BY <1>0, <2>2
  <2>3. ASSUME NEW c \in Callers, NEW f \in Experiments, Handler(c, f) PROVE call'[S] = call[S]
    <3>1. c # S
      BY <1>0, <1>3, <1>6, <2>3 DEF Handler, StartRead, QueueExperiment, Advance, StartFailed, StopRead,
         StopWrite, PollRead, PollWrite, PollReread, UploadRead, ReleaseRunner, Begin, Goto, Schedule, Dispatch
    <3> QED BY <2>2, <2>3, <3>1 DEF Handler, StartRead, QueueExperiment, Advance, StartFailed, StopRead,
            StopWrite, PollRead, PollWrite, PollReread, UploadRead, ReleaseRunner, Begin, Goto
  <2>4. ASSUME NEW c \in Callers, NEW r \in Runners, NEW f \in Experiments, RunnerCall(c, r, f)
        PROVE  call'[S] = call[S]
    <3>1. c # S
      BY <1>3, <1>6, <2>4 DEF RunnerCall, Allocate, PostInitialize, PostStart, PostStop, PollRemote,
         UploadAllocate, Goto, Schedule, Dispatch
    <3> QED BY <2>2, <2>4, <3>1 DEF RunnerCall, Allocate, PostInitialize, PostStart, PostStop, PollRemote,
            UploadAllocate, Goto
  <2>5. ASSUME NEW c \in Callers, NoCapacity(c) \/ PostFails(c) PROVE call'[S] = call[S]
    <3>1. c # S
      BY <1>6, <2>1, <2>5 DEF NoCapacity, PostFails, Goto, Schedule
    <3> QED BY <2>2, <2>5, <3>1 DEF NoCapacity, PostFails, Goto
  <2>6. ASSUME NEW f \in Experiments, ClaimQueued(f) \/ ScheduledRead(f) PROVE FALSE
    BY <1>6, <2>6 DEF Schedule
  <2>7. ASSUME NEW r \in Runners, NEW f \in Experiments, Background(r, f) PROVE call'[S] = call[S]
    BY <1>0, <2>2, <2>7, SchedulerFacts DEF Background, ReconcileRead, ReconcileProbe, FinishLate,
       RemoteEnds, Goto
  <2>8. ASSUME NEW r \in Runners, RunnerRow(r) PROVE call'[S] = call[S]
    BY <2>8 DEF RunnerRow, HealthDecide, InstanceEndpoint, HealthWrite
  <2>9. CASE RecoverStale
    BY <1>6, <2>9 DEF Schedule
  <2> QED BY <1>6, <2>3, <2>4, <2>5, <2>6, <2>7, <2>8, <2>9, Actions
<1> QED BY <1>1, <1>4, <1>5, <1>6

\* Only a restart of the Master leaves an experiment DISPATCHING with nobody at it, which is
\* what recover_stale_dispatching is for.
THEOREM DispatchingIsInHand == Spec => []DispatchInHand
<1>1. Init => Scheduling /\ DispatchInHand
  BY DEF Init, Scheduling, DispatchInHand, Callers, Idle, Step, Poll
<1>2. IInv /\ Scheduling /\ DispatchInHand /\ [Next]_vars => DispatchInHand'
  <2>1. ASSUME IInv, Scheduling, DispatchInHand, Next, NEW e \in Experiments, e \notin disturbed',
               exp'[e] = "dispatching"
        PROVE  InHand(e)'
    <3>1. CASE exp[e] = "dispatching"
      BY <2>1, <3>1, DisturbedGrows, InHandStep DEF DispatchInHand
    <3>2. CASE ClaimQueued(e)
      <4>1. call'[Scheduler] = Step("read", e, None)
        BY <2>1, <3>2, SchedulerFacts DEF ClaimQueued, Goto
      <4> QED BY <4>1 DEF InHand, On, Step, Poll
    <3> QED BY <2>1, <3>1, <3>2, DispatchingWritten
  <2>2. DispatchInHand /\ UNCHANGED vars => DispatchInHand'
    BY DEF DispatchInHand, InHand, On, vars, tables
  <2> QED BY <2>1, <2>2 DEF DispatchInHand
<1> QED BY <1>1, <1>2, SchedulingStep, PoolInvariance, PTL DEF Spec

=============================================================================
