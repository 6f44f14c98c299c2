--------------------------- MODULE PreparationProofs ---------------------------
(***************************************************************************)
(* The safety properties of Preparation, for any number of experiments,    *)
(* requests and faults, and that the consumer forgets no message and gets  *)
(* on with each.                                                           *)
(***************************************************************************)
EXTENDS Preparation, Integers, TLAPS

----------------------------------------------------------------------------
(* The inductive invariant. *)

Handles(e, pcs) == job.exp = e /\ job.pc \in pcs

\* The files are in storage before anything says so, and nothing but its creation writes an
\* experiment before it is created.
Stored(e) ==
    /\ row[e].files \/ row[e].path = "prefix" => e \in uploaded
    /\ Handles(e, {"uploaded", "path", "status"}) => e \in uploaded
    /\ creator[e] = "uploaded" => e \in uploaded
    /\ row[e].files \/ job.exp = e \/ starter[e].pc # "idle" => creator[e] = "done"
    /\ creator[e] = "new" => ~Exists(e)
    /\ ~Exists(e) => ~row[e].files

\* What the handler has yet to write.
Prepared(e) ==
    /\ row[e].status = "prepared" => row[e].files
    /\ row[e].files => row[e].path = "prefix" \/ Handles(e, {"path"})
    /\ Handles(e, {"path", "status"}) /\ Exists(e) => row[e].files
    /\ Handles(e, {"status"}) /\ Exists(e) => row[e].path = "prefix"

\* A handler that takes the message of an experiment that was started finds the prefix, and
\* will fail.
Used(e) ==
    /\ creator[e] = "done"
    /\ Exists(e) => row[e].path = "prefix"
    /\ job.exp = e => job.path = "prefix" /\ job.pc \in {"taken", "build", "failed", "raised"}

\* An experiment that has run cannot be started again.
Spent(e) ==
    /\ Used(e)
    /\ starter[e].pc = "idle"
    /\ row[e].status \notin {"prepared", "failed"}

HasRun(e) == runs[e] >= 1 \/ row[e].status = "running"

Undisturbed(e) == e \notin harmed \cup crossed
Facts(e) ==
    /\ Stored(e)
    /\ e \notin harmed => Prepared(e)
    /\ stopper[<<"drop", e>>] # "idle" => drop.pc = "stopping" /\ e \notin drop.todo
    /\ Undisturbed(e) =>
          /\ runs[e] <= 1
          /\ HasRun(e) => Spent(e)
          /\ starter[e].pc # "idle" => runs[e] = 0 /\ Used(e)

Messages ==
    /\ job.pc = "idle" <=> job.exp = None
    /\ \A k \in 1..Len(topic) : creator[topic[k]] = "done"

IInv == TypeOK /\ Messages /\ \A e \in Exps : Facts(e)

----------------------------------------------------------------------------
(* Types. *)

LEMMA Types ==
    ASSUME TypeOK, NEW e \in Exps
    PROVE  /\ row[e] \in Row /\ row[e].status \in Status /\ row[e].files \in BOOLEAN
           /\ row[e].path \in Paths /\ creator[e] \in Creating /\ starter[e] \in Starter
           /\ starter[e].pc \in {"idle", "allocated", "initializing", "preparing"}
           /\ runs[e] \in Nat /\ drop.seen[e] \in Status
           /\ \A c \in Callers : stopper[<<c, e>>] \in Stopping
BY DEF TypeOK, Row, Starter, Drop

\* What an update of an experiment's row leaves.
LEMMA UpdateFacts ==
    ASSUME TypeOK, NEW e \in Exps, NEW new \in Row, Update(e, new)
    PROVE  /\ row' \in [Exps -> Row]
           /\ \A f \in Exps \ {e} : row'[f] = row[f]
           /\ row'[e] = row[e] \/ (Exists(e) /\ row'[e] = new)
           /\ e \notin harmed' /\ Exists(e) => row'[e] = new
           /\ harmed' \subseteq Exps /\ harmed \subseteq harmed'
           /\ requests' \in 0..MaxRequests /\ faults' \in 0..MaxFaults
<1>1. row \in [Exps -> Row] /\ harmed \subseteq Exps /\ requests \in 0..MaxRequests
      /\ faults \in 0..MaxFaults
  BY DEF TypeOK
<1>2. CASE /\ row' = IF Exists(e) THEN [row EXCEPT ![e] = new] ELSE row
           /\ UNCHANGED bounds
  BY <1>1, <1>2 DEF bounds
<1>3. CASE Fault({e}) /\ UNCHANGED row
  BY <1>1, <1>3, PreparationAssumption DEF Fault
<1> QED BY <1>2, <1>3 DEF Update

LEMMA StatusFacts ==
    ASSUME TypeOK, NEW e \in Exps, NEW st \in Status \ {"none"}, UpdateStatus(e, st)
    PROVE  /\ row' \in [Exps -> Row]
           /\ \A f \in Exps \ {e} : row'[f] = row[f]
           /\ row'[e].files = row[e].files /\ row'[e].path = row[e].path
           /\ (row[e].status = "none") <=> (row'[e].status = "none")
           /\ row'[e].status \in {row[e].status, st}
           /\ e \notin harmed' /\ Exists(e) => row'[e].status = st
           /\ harmed' \subseteq Exps /\ harmed \subseteq harmed'
           /\ requests' \in 0..MaxRequests /\ faults' \in 0..MaxFaults
<1> DEFINE new == [row[e] EXCEPT !.status = st]
<1>1. row[e] \in Row
  BY DEF TypeOK
<1>2. new \in Row /\ new.files = row[e].files /\ new.path = row[e].path /\ new.status = st
  BY <1>1 DEF Row
<1>3. Update(e, new)
  BY DEF UpdateStatus
<1> HIDE DEF new
<1> QED BY <1>2, <1>3, UpdateFacts DEF Exists

----------------------------------------------------------------------------
\* A step that does not concern e leaves what is said of it.
LEMMA Frame ==
    ASSUME NEW e \in Exps, Facts(e), row'[e] = row[e], creator'[e] = creator[e],
           starter'[e] = starter[e], runs'[e] = runs[e],
           stopper'[<<"drop", e>>] = stopper[<<"drop", e>>],
           uploaded \subseteq uploaded', harmed \subseteq harmed', crossed \subseteq crossed',
           drop' = drop, job' = job \/ (job.exp # e /\ job'.exp # e)
    PROVE  Facts(e)'
<1>1. CASE job' = job
  BY <1>1 DEF Facts, Stored, Prepared, Undisturbed, HasRun, Spent, Used, Handles, Exists
<1>2. CASE job.exp # e /\ job'.exp # e
  BY <1>2 DEF Facts, Stored, Prepared, Undisturbed, HasRun, Spent, Used, Handles, Exists
<1> QED BY <1>1, <1>2

\* One that concerns another experiment does not either.
LEMMA OthersRow ==
    ASSUME TypeOK, NEW e \in Exps, NEW f \in Exps \ {e}, NEW st \in Status \ {"none"},
           UpdateStatus(f, st)
    PROVE  row'[e] = row[e] /\ harmed \subseteq harmed'
BY StatusFacts

----------------------------------------------------------------------------
(* The requests that create experiments. *)

\* Nothing has happened yet to an experiment that is being created.
LEMMA Fresh ==
    ASSUME IInv, NEW e \in Exps, creator[e] # "done"
    PROVE  /\ ~row[e].files /\ job.exp # e /\ starter[e].pc = "idle"
           /\ Undisturbed(e) => ~HasRun(e)
           /\ row[e].files = FALSE
BY Types DEF IInv, Facts, Stored, Spent, Used

LEMMA CreateRowStep ==
    ASSUME IInv, NEW e \in Exps, NEW f \in Exps, NEW kind \in {"ml", "prompt", "chain"},
           CreateRow(f, kind)
    PROVE  Facts(e)'
<1>1. Facts(e) /\ TypeOK
  BY DEF IInv
<1>2. UNCHANGED <<uploaded, starter, job, stopper, drop, runs, harmed, crossed>>
  BY DEF CreateRow, storage, bounds
<1>3. CASE e # f
  <2>1. row'[e] = row[e] /\ creator'[e] = creator[e]
    BY <1>1, <1>3 DEF CreateRow, TypeOK
  <2> QED BY <1>1, <1>2, <2>1, Frame
<1>4. CASE e = f
  <2>1. row[e] \in Row
    BY <1>1, Types
  <2>2. /\ row'[e].status = "pending" /\ row'[e].files = row[e].files
        /\ row'[e].path = row[e].path /\ creator'[e] = kind /\ creator[e] = "new"
    BY <1>1, <1>4, <2>1 DEF CreateRow, TypeOK, Row
  <2>3. /\ ~row[e].files /\ job.exp # e /\ starter[e].pc = "idle"
        /\ Undisturbed(e) => ~HasRun(e)
    BY <2>2, Fresh
  <2> QED BY <1>1, <1>2, <2>2, <2>3 DEF Facts, Stored, Prepared, Undisturbed, HasRun, Handles, Exists
<1> QED BY <1>3, <1>4

LEMMA PublishStep ==
    ASSUME IInv, NEW e \in Exps, NEW f \in Exps, Publish(f)
    PROVE  Facts(e)'
<1>1. Facts(e) /\ TypeOK
  BY DEF IInv
<1>2. UNCHANGED <<row, uploaded, starter, job, stopper, drop, runs, crossed>>
      /\ harmed \subseteq harmed'
  BY DEF Publish, storage, bounds, Fault
<1>3. CASE e # f
  <2>1. creator'[e] = creator[e]
    BY <1>1, <1>3 DEF Publish, TypeOK
  <2> QED BY <1>1, <1>2, <2>1, Frame
<1>4. CASE e = f
  <2>1. creator'[e] = "done" /\ creator[e] = "ml"
    BY <1>1, <1>4 DEF Publish, TypeOK
  <2>2. /\ ~row[e].files /\ job.exp # e /\ starter[e].pc = "idle"
        /\ Undisturbed(e) => ~HasRun(e)
    BY <2>1, Fresh
  <2> QED BY <1>1, <1>2, <2>1, <2>2 DEF Facts, Stored, Prepared, Undisturbed, HasRun, Handles, Exists
<1> QED BY <1>3, <1>4

LEMMA BuildDirectStep ==
    ASSUME IInv, NEW e \in Exps, NEW f \in Exps, BuildPrompt(f) \/ BuildChain(f)
    PROVE  Facts(e)'
<1>1. Facts(e) /\ TypeOK
  BY DEF IInv
<1>2. UNCHANGED <<row, starter, job, stopper, drop, runs, harmed, crossed>>
      /\ uploaded \subseteq uploaded'
  BY DEF BuildPrompt, BuildChain, BuildDirect, Upload, bounds
<1>3. CASE e # f
  <2>1. creator'[e] = creator[e]
    BY <1>1, <1>3 DEF BuildPrompt, BuildChain, BuildDirect, TypeOK
  <2> QED BY <1>1, <1>2, <2>1, Frame
<1>4. CASE e = f
  <2>1. creator[e] \in {"prompt", "chain"}
    BY <1>4 DEF BuildPrompt, BuildChain
  <2>2. creator'[e] \in {"uploaded", "done", "preparation_failed", "failed"}
        /\ (creator'[e] = "uploaded" => e \in uploaded')
    BY <1>1, <1>4 DEF BuildPrompt, BuildChain, BuildDirect, Upload, TypeOK
  <2>3. /\ ~row[e].files /\ job.exp # e /\ starter[e].pc = "idle"
        /\ Undisturbed(e) => ~HasRun(e)
    BY <2>1, Fresh
  <2> QED BY <1>1, <1>2, <2>1, <2>2, <2>3 DEF Facts, Stored, Prepared, Undisturbed, HasRun, Handles, Exists
<1> QED BY <1>3, <1>4

LEMMA RecordDirectStep ==
    ASSUME IInv, NEW e \in Exps, NEW f \in Exps, RecordDirect(f)
    PROVE  Facts(e)'
<1> DEFINE new == [status |-> "prepared", files |-> TRUE, path |-> "prefix"]
<1>1. Facts(e) /\ TypeOK
  BY DEF IInv
<1>2. UNCHANGED <<uploaded, starter, job, stopper, drop, runs, crossed>>
      /\ creator' = [creator EXCEPT ![f] = "done"]
  BY DEF RecordDirect, storage
<1>3. new \in Row
  BY DEF Row, Status, Paths
<1>4. creator[f] # "done" /\ creator[f] # "new"
  BY DEF RecordDirect
<1>5. CASE creator[f] = "uploaded" /\ Update(f, new)
  <2>1. /\ \A g \in Exps \ {f} : row'[g] = row[g]
        /\ row'[f] = row[f] \/ row'[f] = new
        /\ harmed \subseteq harmed'
    BY <1>1, <1>3, <1>5, UpdateFacts
  <2>2. CASE e # f
    BY <1>1, <1>2, <2>1, <2>2, Frame DEF TypeOK
  <2>3. CASE e = f
    <3>1. /\ ~row[e].files /\ job.exp # e /\ starter[e].pc = "idle"
          /\ Undisturbed(e) => ~HasRun(e)
      BY <1>4, <2>3, Fresh
    <3>2. e \in uploaded /\ creator'[e] = "done"
      BY <1>1, <1>2, <1>5, <2>3 DEF Facts, Stored, TypeOK
    <3>3. CASE row'[e] = row[e]
      BY <1>1, <1>2, <2>1, <3>1, <3>2, <3>3
         DEF Facts, Stored, Prepared, Undisturbed, HasRun, Handles, Exists
    <3>4. CASE row'[e].status = "prepared" /\ row'[e].files /\ row'[e].path = "prefix"
      BY <1>1, <1>2, <2>1, <2>3, <3>1, <3>2, <3>4, <1>4
         DEF Facts, Stored, Prepared, Undisturbed, HasRun, Handles, Exists
    <3> QED BY <2>1, <2>3, <3>3, <3>4
  <2> QED BY <2>2, <2>3
<1>6. CASE creator[f] \in {"preparation_failed", "failed"} /\ UpdateStatus(f, creator[f])
  <2>1. creator[f] \in Status \ {"none"}
    BY <1>6 DEF Status
  <2>2. /\ \A g \in Exps \ {f} : row'[g] = row[g]
        /\ row'[f].files = row[f].files /\ row'[f].path = row[f].path
        /\ (row[f].status = "none") <=> (row'[f].status = "none")
        /\ row'[f].status \in {row[f].status, creator[f]}
        /\ harmed \subseteq harmed'
    BY <1>1, <1>6, <2>1, StatusFacts
  <2>3. CASE e # f
    BY <1>1, <1>2, <2>2, <2>3, Frame DEF TypeOK
  <2>4. CASE e = f
    <3>1. /\ ~row[e].files /\ job.exp # e /\ starter[e].pc = "idle"
          /\ Undisturbed(e) => ~HasRun(e)
      BY <1>4, <2>4, Fresh
    <3>2. creator'[e] = "done"
      BY <1>1, <1>2, <2>4 DEF TypeOK
    <3> QED BY <1>1, <1>2, <1>4, <1>6, <2>2, <2>4, <3>1, <3>2
            DEF Facts, Stored, Prepared, Undisturbed, HasRun, Handles, Exists
  <2> QED BY <2>3, <2>4
<1> QED BY <1>5, <1>6 DEF RecordDirect

----------------------------------------------------------------------------
(* The workflow consumer. *)

LEMMA TakeStep ==
    ASSUME IInv, NEW e \in Exps, Take
    PROVE  Facts(e)'
<1>1. Facts(e) /\ TypeOK /\ Messages
  BY DEF IInv
<1>2. UNCHANGED <<row, uploaded, creator, starter, stopper, drop, runs, harmed, crossed>>
  BY DEF Take, storage, bounds
<1>3. job.exp = None /\ next \in 1..Len(topic) /\ topic \in Seq(Exps) /\ None \notin Exps
  BY <1>1, PreparationAssumption DEF Take, Messages, TypeOK
<1>4. topic[next] \in Exps /\ creator[topic[next]] = "done"
  BY <1>1, <1>3 DEF Messages
<1>5. job'.exp \in {None, topic[next]}
      /\ (job'.exp # None => job'.pc = "taken" /\ job'.path = row[topic[next]].path
                             /\ Exists(topic[next]))
  BY <1>3, <1>4 DEF Take, NoJob
<1>6. CASE job'.exp # e
  BY <1>1, <1>2, <1>3, <1>6, Frame
<1>7. CASE job'.exp = e
  BY <1>1, <1>2, <1>3, <1>4, <1>5, <1>7
     DEF Facts, Stored, Prepared, Undisturbed, HasRun, Spent, Used, Handles, Exists
<1> QED BY <1>6, <1>7

\* The message in hand.
LEMMA InHand ==
    ASSUME IInv, job.pc # "idle"
    PROVE  job.exp \in Exps /\ creator[job.exp] = "done" /\ job \in Job
<1>1. job \in Job /\ job.exp \in Exps
  BY DEF IInv, TypeOK, Messages, Job
<1> QED BY <1>1 DEF IInv, Facts, Stored

LEMMA GoesFacts ==
    ASSUME job \in Job, NEW pc, Goes(pc)
    PROVE  job'.pc = pc /\ job'.exp = job.exp /\ job'.path = job.path
BY DEF Goes, Job

LEMMA HandleOthers ==
    ASSUME IInv, NEW e \in Exps, job.pc # "idle", job.exp # e, row'[e] = row[e], HandlerOnly,
           uploaded \subseteq uploaded', harmed \subseteq harmed', job'.exp \in {job.exp, None}
    PROVE  Facts(e)'
<1>1. e # None
  BY PreparationAssumption
<1> QED BY <1>1, Frame DEF IInv, HandlerOnly

LEMMA InitializeStep ==
    ASSUME IInv, NEW e \in Exps, Initialize
    PROVE  Facts(e)'
<1> DEFINE j == job.exp
<1>1. job.pc = "taken" /\ job \in Job /\ j \in Exps /\ Facts(e) /\ TypeOK
  BY InHand DEF Initialize, IInv
<1>2. /\ \A f \in Exps \ {j} : row'[f] = row[f]
      /\ row'[j].files = row[j].files /\ row'[j].path = row[j].path
      /\ (row[j].status = "none") <=> (row'[j].status = "none")
      /\ row'[j].status \in {row[j].status, "initializing"}
      /\ j \notin harmed' /\ Exists(j) => row'[j].status = "initializing"
      /\ harmed \subseteq harmed'
  BY <1>1, StatusFacts DEF Initialize, Status
<1>3. job'.pc = "build" /\ job'.exp = job.exp /\ job'.path = job.path
  BY <1>1, GoesFacts DEF Initialize
<1>4. HandlerOnly /\ UNCHANGED uploaded
  BY DEF Initialize, storage
<1>5. CASE j # e
  BY <1>1, <1>2, <1>3, <1>4, <1>5, HandleOthers
<1>6. CASE j = e
  BY <1>1, <1>2, <1>3, <1>4, <1>6
     DEF HandlerOnly, Facts, Stored, Prepared, Undisturbed, HasRun, Spent, Used,
         Handles, Exists
<1> QED BY <1>5, <1>6

\* A handler that was given the prefix has no dataset.
LEMMA BuildFilesStep ==
    ASSUME IInv, NEW e \in Exps, BuildFiles
    PROVE  Facts(e)'
<1> DEFINE j == job.exp
<1>1. job.pc = "build" /\ job \in Job /\ j \in Exps /\ Facts(e) /\ TypeOK
  BY InHand DEF BuildFiles, IInv
<1>2. /\ \/ job.path = "data" /\ job'.pc = "uploaded" /\ uploaded' = uploaded \cup {j}
         \/ job'.pc \in {"failed", "raised"} /\ uploaded' = uploaded
      /\ job'.exp = job.exp /\ job'.path = job.path
  BY <1>1, GoesFacts DEF BuildFiles, HasDataset, Upload
<1>3. HandlerOnly /\ UNCHANGED <<row, harmed>>
  BY DEF BuildFiles, bounds
<1>4. CASE j # e
  BY <1>1, <1>2, <1>3, <1>4, HandleOthers
<1>5. CASE j = e
  BY <1>1, <1>2, <1>3, <1>5
     DEF HandlerOnly, Facts, Stored, Prepared, Undisturbed, HasRun, Spent, Used,
         Handles, Exists
<1> QED BY <1>4, <1>5

LEMMA RecordFilesStep ==
    ASSUME IInv, NEW e \in Exps, RecordFiles
    PROVE  Facts(e)'
<1> DEFINE j == job.exp
           new == [row[j] EXCEPT !.status = "prepared", !.files = TRUE]
<1>1. job.pc = "uploaded" /\ job \in Job /\ j \in Exps /\ Facts(e) /\ TypeOK
  BY InHand DEF RecordFiles, IInv
<1>2. row[j] \in Row
  BY <1>1, Types
<1>3. new \in Row /\ new.status = "prepared" /\ new.files /\ new.path = row[j].path
  BY <1>2 DEF Row, Status
<1>4. HandlerOnly /\ UNCHANGED uploaded
  BY DEF RecordFiles, storage
<1>5. CASE Update(j, new) /\ Goes("path")
  <2>1. job'.pc = "path" /\ job'.exp = job.exp /\ job'.path = job.path
    BY <1>1, <1>5, GoesFacts
  <2> HIDE DEF new
  <2>2. /\ \A f \in Exps \ {j} : row'[f] = row[f]
        /\ row'[j] = row[j] \/ (Exists(j) /\ row'[j] = new)
        /\ j \notin harmed' /\ Exists(j) => row'[j] = new
        /\ harmed \subseteq harmed'
    BY <1>1, <1>3, <1>5, UpdateFacts
  <2>3. CASE j # e
    BY <1>1, <1>4, <2>1, <2>2, <2>3, HandleOthers
  <2>4. CASE j = e /\ row'[e] = row[e]
    <3>1. Exists(e) => e \in harmed' \/ row[e] = new
      BY <2>2, <2>4
    <3> QED BY <1>1, <1>3, <1>4, <2>1, <2>2, <2>4, <3>1
            DEF HandlerOnly, Facts, Stored, Prepared, Undisturbed, HasRun, Spent, Used,
                Handles, Exists
  <2>5. CASE j = e /\ Exists(e) /\ row'[e] = new
    <3>1. row'[e].status = "prepared" /\ row'[e].files /\ row'[e].path = row[e].path
      BY <1>3, <2>5
    <3> QED BY <1>1, <1>4, <2>1, <2>2, <2>5, <3>1
            DEF HandlerOnly, Facts, Stored, Prepared, Undisturbed, HasRun, Spent, Used,
                Handles, Exists
  <2> QED BY <2>2, <2>3, <2>4, <2>5
<1>6. CASE Fault({}) /\ Goes("failed") /\ UNCHANGED row
  <2>1. job'.pc = "failed" /\ job'.exp = job.exp /\ job'.path = job.path /\ harmed' = harmed
        /\ UNCHANGED row
    BY <1>1, <1>6, GoesFacts DEF Fault
  <2>2. CASE j # e
    BY <1>1, <1>4, <2>1, <2>2, HandleOthers
  <2>3. CASE j = e
    BY <1>1, <1>4, <2>1, <2>3
       DEF HandlerOnly, Facts, Stored, Prepared, Undisturbed, HasRun, Spent, Used,
           Handles, Exists
  <2> QED BY <2>2, <2>3
<1> QED BY <1>5, <1>6 DEF RecordFiles

LEMMA RecordPathStep ==
    ASSUME IInv, NEW e \in Exps, RecordPath
    PROVE  Facts(e)'
<1> DEFINE j == job.exp
           new == [row[j] EXCEPT !.path = "prefix"]
<1>1. job.pc = "path" /\ job \in Job /\ j \in Exps /\ Facts(e) /\ TypeOK
  BY InHand DEF RecordPath, IInv
<1>2. row[j] \in Row
  BY <1>1, Types
<1>3. new \in Row /\ new.status = row[j].status /\ new.files = row[j].files /\ new.path = "prefix"
  BY <1>2 DEF Row, Paths
<1>4. HandlerOnly /\ UNCHANGED uploaded
  BY DEF RecordPath, storage
<1>5. job'.pc = "status" /\ job'.exp = job.exp /\ job'.path = job.path
  BY <1>1, GoesFacts DEF RecordPath
<1>6. Update(j, new)
  BY DEF RecordPath
<1> HIDE DEF new
<1>7. /\ \A f \in Exps \ {j} : row'[f] = row[f]
      /\ row'[j] = row[j] \/ (Exists(j) /\ row'[j] = new)
      /\ j \notin harmed' /\ Exists(j) => row'[j] = new
      /\ harmed \subseteq harmed'
  BY <1>1, <1>3, <1>6, UpdateFacts
<1>8. CASE j # e
  BY <1>1, <1>4, <1>5, <1>7, <1>8, HandleOthers
<1>9. CASE j = e
  <2>1. /\ row'[e].status = row[e].status /\ row'[e].files = row[e].files
        /\ row'[e].path \in {row[e].path, "prefix"}
        /\ e \notin harmed' /\ Exists(e) => row'[e].path = "prefix"
    BY <1>3, <1>7, <1>9
  <2>2. Stored(e)'
    BY <1>1, <1>4, <1>5, <1>9, <2>1 DEF HandlerOnly, Facts, Stored, Handles, Exists
  <2>3. e \notin harmed' => Prepared(e)'
    BY <1>1, <1>4, <1>5, <1>7, <1>9, <2>1 DEF HandlerOnly, Facts, Stored, Prepared, Handles, Exists
  <2>4. Undisturbed(e)' => Undisturbed(e) /\ ~HasRun(e) /\ starter[e].pc = "idle" /\ runs[e] <= 1
    BY <1>1, <1>4, <1>7, <1>9 DEF HandlerOnly, Facts, Undisturbed, Spent, Used
  <2>5. UNCHANGED <<drop, stopper, starter, runs>>
    BY <1>4 DEF HandlerOnly
  <2> QED BY <1>1, <2>1, <2>2, <2>3, <2>4, <2>5 DEF Facts, HasRun
<1> QED BY <1>8, <1>9

LEMMA RecordStatusStep ==
    ASSUME IInv, NEW e \in Exps, RecordStatus
    PROVE  Facts(e)'
<1> DEFINE j == job.exp
<1>1. job.pc = "status" /\ job \in Job /\ j \in Exps /\ Facts(e) /\ TypeOK
  BY InHand DEF RecordStatus, IInv
<1>2. /\ \A f \in Exps \ {j} : row'[f] = row[f]
      /\ row'[j].files = row[j].files /\ row'[j].path = row[j].path
      /\ (row[j].status = "none") <=> (row'[j].status = "none")
      /\ row'[j].status \in {row[j].status, "prepared"}
      /\ harmed \subseteq harmed'
  BY <1>1, StatusFacts DEF RecordStatus, Status
<1>3. job'.pc = "idle" /\ job'.exp = None /\ e # None
  BY PreparationAssumption DEF RecordStatus, Done, NoJob
<1>4. HandlerOnly /\ UNCHANGED uploaded
  BY DEF RecordStatus, storage
<1>5. CASE j # e
  BY <1>1, <1>2, <1>3, <1>4, <1>5, HandleOthers
<1>6. CASE j = e
  BY <1>1, <1>2, <1>3, <1>4, <1>6
     DEF HandlerOnly, Facts, Stored, Prepared, Undisturbed, HasRun, Spent, Used,
         Handles, Exists
<1> QED BY <1>5, <1>6

LEMMA RecordFailureStep ==
    ASSUME IInv, NEW e \in Exps, RecordFailure
    PROVE  Facts(e)'
<1> DEFINE j == job.exp
<1>1. job.pc \in {"failed", "raised"} /\ job \in Job /\ j \in Exps /\ Facts(e) /\ TypeOK
  BY InHand DEF RecordFailure, IInv
<1>2. /\ \A f \in Exps \ {j} : row'[f] = row[f]
      /\ row'[j].files = row[j].files /\ row'[j].path = row[j].path
      /\ (row[j].status = "none") <=> (row'[j].status = "none")
      /\ row'[j].status \in {row[j].status, "preparation_failed"}
      /\ j \notin harmed' /\ Exists(j) => row'[j].status = "preparation_failed"
      /\ harmed \subseteq harmed'
  BY <1>1, StatusFacts DEF RecordFailure, Status
<1>3. /\ e # None
      /\ \/ job'.pc = "raised" /\ job'.exp = job.exp /\ job'.path = job.path
         \/ job'.pc = "idle" /\ job'.exp = None
  BY <1>1, GoesFacts, PreparationAssumption DEF RecordFailure, Done, NoJob
<1>4. HandlerOnly /\ UNCHANGED uploaded
  BY DEF RecordFailure, storage
<1>5. CASE j # e
  BY <1>1, <1>2, <1>3, <1>4, <1>5, HandleOthers
<1>6. CASE j = e
  BY <1>1, <1>2, <1>3, <1>4, <1>6
     DEF HandlerOnly, Facts, Stored, Prepared, Undisturbed, HasRun, Spent, Used,
         Handles, Exists
<1> QED BY <1>5, <1>6

LEMMA ConsumerEndsStep ==
    ASSUME IInv, NEW e \in Exps, ConsumerEnds
    PROVE  Facts(e)'
BY Frame DEF ConsumerEnds, Fault, storage, IInv

\* A crash harms what was in flight.
LEMMA RestartStep ==
    ASSUME IInv, NEW e \in Exps, Restart
    PROVE  Facts(e)'
<1>1. Facts(e) /\ TypeOK /\ e # None
  BY PreparationAssumption DEF IInv
<1>2. /\ UNCHANGED <<row, uploaded, runs, crossed>>
      /\ harmed \subseteq harmed' /\ InFlight \subseteq harmed'
      /\ job'.pc = "idle" /\ job'.exp = None
      /\ creator'[e] = IF creator[e] = "new" THEN "new" ELSE "done"
      /\ starter'[e].pc = "idle" /\ stopper'[<<"drop", e>>] = "idle"
  BY DEF Restart, Fault, storage, Done, NoJob, Resting, Callers
<1>3. drop'.pc = "idle" /\ drop'.seen = drop.seen
  BY <1>1 DEF Restart, TypeOK, Drop
<1>4. e \notin harmed' => /\ creator[e] \in {"new", "done"} /\ job.exp # e
                         /\ starter[e].pc = "idle" /\ drop.pc = "idle"
  BY <1>2 DEF InFlight
<1> QED BY <1>1, <1>2, <1>3, <1>4
        DEF Facts, Stored, Prepared, Undisturbed, HasRun, Spent, Used, Handles, Exists

----------------------------------------------------------------------------
(* Starts. *)

LEMMA StartStep ==
    ASSUME IInv, NEW e \in Exps, NEW f \in Exps, Start(f)
    PROVE  Facts(e)'
<1>1. Facts(e) /\ TypeOK
  BY DEF IInv
<1>2. UNCHANGED <<row, uploaded, creator, job, stopper, drop, runs, harmed>>
      /\ crossed \subseteq crossed'
  BY DEF Start, StartOnly, Request, storage
<1>3. CASE e # f
  <2>1. starter'[e] = starter[e]
    BY <1>1, <1>3 DEF Start, TypeOK
  <2> QED BY <1>1, <1>2, <2>1, Frame
<1>4. CASE e = f
  <2>1. starter[e].pc = "idle" /\ row[e].files /\ row[e].status \in {"prepared", "failed"}
        /\ starter'[e].pc # "idle" /\ (job.exp = e => e \in crossed')
    BY <1>1, <1>4 DEF Start, Startable, AtWork, TypeOK
  <2>2. runs[e] \in Nat
    BY <1>1, Types
  <2>3. Undisturbed(e)' => Undisturbed(e) /\ ~HasRun(e) /\ job.exp # e
    BY <1>1, <1>2, <2>1 DEF Undisturbed, Facts, Spent
  <2>4. ~HasRun(e) => runs[e] = 0
    BY <2>2 DEF HasRun
  <2> QED BY <1>1, <1>2, <2>1, <2>3, <2>4
          DEF Facts, Stored, Prepared, Undisturbed, HasRun, Spent, Used, Handles, Exists
<1> QED BY <1>3, <1>4

\* The steps that follow write a status and go on.
LEMMA LaunchStatus ==
    ASSUME IInv, NEW e \in Exps, NEW f \in Exps, NEW st \in {"initializing", "preparing", "failed"},
           UpdateStatus(f, st), starter[f].pc # "idle", NEW s \in Starter,
           starter' = [starter EXCEPT ![f] = s],
           StartOnly, UNCHANGED <<runs, crossed>>
    PROVE  Facts(e)'
<1>1. Facts(e) /\ TypeOK
  BY DEF IInv
<1>2. UNCHANGED <<uploaded, creator, job, stopper, drop, runs, crossed>>
  BY DEF StartOnly, storage
<1>3. /\ \A g \in Exps \ {f} : row'[g] = row[g]
      /\ row'[f].files = row[f].files /\ row'[f].path = row[f].path
      /\ (row[f].status = "none") <=> (row'[f].status = "none")
      /\ row'[f].status \in {row[f].status, st}
      /\ harmed \subseteq harmed'
  BY <1>1, StatusFacts DEF Status
<1>4. CASE e # f
  <2>1. starter'[e] = starter[e] /\ row'[e] = row[e]
    BY <1>1, <1>3, <1>4 DEF TypeOK
  <2> QED BY <1>1, <1>2, <1>3, <2>1, Frame
<1>5. CASE e = f
  <2>1. runs[e] \in Nat
    BY <1>1, Types
  <2>2. Undisturbed(e) => ~HasRun(e)
    BY <1>1, <1>5 DEF Facts, Spent
  <2> QED BY <1>1, <1>2, <1>3, <1>5, <2>2
          DEF Facts, Stored, Prepared, Undisturbed, HasRun, Spent, Used, Handles, Exists
<1> QED BY <1>4, <1>5

LEMMA StartInitializingStep ==
    ASSUME IInv, NEW e \in Exps, NEW f \in Exps, StartInitializing(f)
    PROVE  Facts(e)'
<1> DEFINE s == [starter[f] EXCEPT !.pc = "initializing"]
<1>1. starter[f] \in Starter /\ starter \in [Exps -> Starter]
  BY Types DEF IInv, TypeOK
<1>2. s \in Starter
  BY <1>1 DEF Starter
<1>3. starter' = [starter EXCEPT ![f] = s] /\ starter[f].pc # "idle"
      /\ UpdateStatus(f, "initializing") /\ StartOnly /\ UNCHANGED <<runs, crossed>>
  BY <1>1 DEF StartInitializing
<1> QED BY <1>2, <1>3, LaunchStatus

LEMMA InitializedStep ==
    ASSUME IInv, NEW e \in Exps, NEW f \in Exps, Initialized(f)
    PROVE  Facts(e)'
<1> DEFINE s == [starter[f] EXCEPT !.pc = "preparing"]
<1>1. starter[f] \in Starter /\ starter \in [Exps -> Starter]
  BY Types DEF IInv, TypeOK
<1>2. s \in Starter /\ Resting \in Starter
  BY <1>1 DEF Starter, Resting, Paths
<1>3. starter[f].pc # "idle" /\ StartOnly /\ UNCHANGED <<runs, crossed>>
  BY DEF Initialized
<1>4. CASE UpdateStatus(f, "preparing") /\ starter' = [starter EXCEPT ![f] = s]
  BY <1>2, <1>3, <1>4, LaunchStatus
<1>5. CASE UpdateStatus(f, "failed") /\ starter' = [starter EXCEPT ![f] = Resting]
  BY <1>2, <1>3, <1>5, LaunchStatus
<1> QED BY <1>1, <1>4, <1>5 DEF Initialized

\* The first run of an experiment that nothing disturbs, and its last.
LEMMA StartedStep ==
    ASSUME IInv, NEW e \in Exps, NEW f \in Exps, Started(f)
    PROVE  Facts(e)'
<1>1. Facts(e) /\ TypeOK
  BY DEF IInv
<1>2. UNCHANGED <<uploaded, creator, job, stopper, drop, crossed>>
      /\ starter[f].pc = "preparing" /\ starter' = [starter EXCEPT ![f] = Resting]
  BY DEF Started, StartOnly, storage
<1>3. starter'[f].pc = "idle" /\ runs[f] \in Nat
  BY <1>1, <1>2, Types DEF Resting, TypeOK
<1>4. CASE UpdateStatus(f, "failed") /\ UNCHANGED runs
  <2>1. Resting \in Starter
    BY DEF Starter, Resting, Paths
  <2>2. StartOnly /\ UNCHANGED crossed
    BY DEF Started
  <2> QED BY <1>2, <1>4, <2>1, <2>2, LaunchStatus
<1>5. CASE UpdateStatus(f, "running") /\ runs' = [runs EXCEPT ![f] = @ + 1]
  <2>1. /\ \A g \in Exps \ {f} : row'[g] = row[g]
        /\ row'[f].files = row[f].files /\ row'[f].path = row[f].path
        /\ (row[f].status = "none") <=> (row'[f].status = "none")
        /\ row'[f].status \in {row[f].status, "running"}
        /\ Exists(f) => f \in harmed' \/ row'[f].status = "running"
        /\ harmed \subseteq harmed'
    BY <1>1, <1>5, StatusFacts DEF Status
  <2>2. CASE e # f
    <3>1. starter'[e] = starter[e] /\ row'[e] = row[e] /\ runs'[e] = runs[e]
      BY <1>1, <1>2, <1>5, <2>1, <2>2 DEF TypeOK
    <3> QED BY <1>1, <1>2, <2>1, <3>1, Frame
  <2>3. CASE e = f
    <3>1. Undisturbed(e) => ~HasRun(e) /\ Used(e)
      BY <1>1, <1>2, <2>3 DEF Facts, Spent
    <3>2. runs'[e] = runs[e] + 1
      BY <1>1, <1>5, <2>3 DEF TypeOK
    <3>3. ~HasRun(e) => runs[e] = 0
      BY <1>3, <2>3 DEF HasRun
    <3>4. Undisturbed(e) => runs'[e] <= 1 /\ Used(e)
      BY <3>1, <3>2, <3>3
    <3>5. Stored(e)' /\ (e \notin harmed' => Prepared(e)')
      BY <1>1, <1>2, <1>3, <2>1, <2>3 DEF Facts, Stored, Prepared, Handles, Exists
    <3>6. Undisturbed(e)' => Undisturbed(e) /\ Spent(e)' /\ row'[e].status \in {"none", "running"}
      BY <1>1, <1>2, <1>3, <2>1, <2>3, <3>4 DEF Undisturbed, Spent, Used, Exists
    <3> QED BY <1>1, <1>2, <1>3, <2>3, <3>4, <3>5, <3>6 DEF Facts
  <2> QED BY <2>2, <2>3
<1>6. CASE /\ Fault({f}) /\ runs' = [runs EXCEPT ![f] = @ + 1]
           /\ row' = IF Exists(f) THEN [row EXCEPT ![f].status = "failed"] ELSE row
  <2>1. harmed' = harmed \cup {f}
    BY <1>6 DEF Fault
  <2>2. CASE e # f
    <3>1. starter'[e] = starter[e] /\ row'[e] = row[e] /\ runs'[e] = runs[e]
      BY <1>1, <1>2, <1>6, <2>2 DEF TypeOK
    <3> QED BY <1>1, <1>2, <2>1, <3>1, Frame
  <2>3. CASE e = f
    <3>1. row[e] \in Row /\ row \in [Exps -> Row]
      BY <1>1, Types DEF TypeOK
    <3>2. /\ row'[e].files = row[e].files /\ row'[e].path = row[e].path
          /\ (row[e].status = "none") <=> (row'[e].status = "none")
      BY <1>6, <2>3, <3>1 DEF Row, Exists
    <3> QED BY <1>1, <1>2, <1>3, <2>1, <2>3, <3>2 DEF Facts, Stored, Handles, Exists, Undisturbed
  <2> QED BY <2>2, <2>3
<1> QED BY <1>4, <1>5, <1>6 DEF Started

----------------------------------------------------------------------------
(* Stops. *)

LEMMA StopStep ==
    ASSUME IInv, NEW e \in Exps, NEW f \in Exps, Stop(f)
    PROVE  Facts(e)'
<1>1. Facts(e) /\ TypeOK /\ <<"drop", e>> # <<"user", f>> /\ <<"drop", e>> \in Callers \X Exps
  BY DEF IInv, Callers
<1>2. UNCHANGED <<row, uploaded, creator, starter, job, drop, runs, harmed, crossed>>
  BY DEF Stop, StopOnly, Request, storage
<1>3. stopper'[<<"drop", e>>] = stopper[<<"drop", e>>]
  BY <1>1 DEF Stop, StopsAt, TypeOK
<1> QED BY <1>1, <1>2, <1>3, Frame

LEMMA StopperFacts ==
    ASSUME TypeOK, NEW c \in Callers, NEW f \in Exps, NEW pc, StopsAt(c, f, pc), NEW e \in Exps
    PROVE  IF c = "drop" /\ f = e THEN stopper'[<<"drop", e>>] = pc
           ELSE stopper'[<<"drop", e>>] = stopper[<<"drop", e>>]
BY DEF StopsAt, TypeOK, Callers

LEMMA StopReadsStep ==
    ASSUME IInv, NEW e \in Exps, NEW f \in Exps, NEW c \in Callers, StopReads(c, f)
    PROVE  Facts(e)'
<1> DEFINE pc == IF ~Exists(f) THEN "idle"
                 ELSE IF row[f].status = "running" THEN "runner" ELSE "cancel"
<1>1. Facts(e) /\ TypeOK
  BY DEF IInv
<1>2. UNCHANGED <<row, uploaded, creator, starter, job, drop, runs, harmed, crossed>>
      /\ stopper[<<c, f>>] = "begin" /\ StopsAt(c, f, pc)
  BY DEF StopReads, StopOnly, bounds, storage
<1> HIDE DEF pc
<1>3. CASE ~(c = "drop" /\ f = e)
  BY <1>1, <1>2, <1>3, StopperFacts, Frame
<1>4. CASE c = "drop" /\ f = e
  <2>1. stopper'[<<"drop", e>>] = pc /\ (pc = "idle" => ~Exists(e))
    BY <1>1, <1>2, <1>4, StopperFacts DEF pc
  <2> QED BY <1>1, <1>2, <1>4, <2>1
          DEF Facts, Stored, Prepared, Undisturbed, HasRun, Spent, Used, Handles, Exists
<1> QED BY <1>3, <1>4

LEMMA StopRunnerStep ==
    ASSUME IInv, NEW e \in Exps, NEW f \in Exps, NEW c \in Callers, StopRunner(c, f)
    PROVE  Facts(e)'
<1>1. Facts(e) /\ TypeOK /\ runs[f] \in Nat /\ runs[e] \in Nat
  BY Types DEF IInv
<1>2. /\ UNCHANGED <<row, uploaded, creator, starter, job, drop, crossed>>
      /\ harmed \subseteq harmed' /\ stopper[<<c, f>>] = "runner"
      /\ \/ StopsAt(c, f, "cancel") /\ runs' = [runs EXCEPT ![f] = IF @ = 0 THEN 0 ELSE @ - 1]
         \/ StopsAt(c, f, "idle") /\ f \in harmed'
            /\ runs' \in {runs, [runs EXCEPT ![f] = IF @ = 0 THEN 0 ELSE @ - 1]}
  BY DEF StopRunner, StopOnly, bounds, storage, Fault
<1>3. CASE e # f
  <2>1. runs'[e] = runs[e] /\ stopper'[<<"drop", e>>] = stopper[<<"drop", e>>]
    BY <1>1, <1>2, <1>3, StopperFacts DEF TypeOK
  <2> QED BY <1>1, <1>2, <2>1, Frame
<1>4. CASE e = f /\ StopsAt(c, f, "idle") /\ f \in harmed'
  <2>1. stopper'[<<"drop", e>>] # "idle" => stopper[<<"drop", e>>] # "idle"
    BY <1>1, <1>4, StopperFacts
  <2> QED BY <1>1, <1>2, <1>4, <2>1 DEF Facts, Stored, Handles, Exists, Undisturbed
<1>5. CASE e = f /\ StopsAt(c, f, "cancel")
           /\ runs' = [runs EXCEPT ![f] = IF @ = 0 THEN 0 ELSE @ - 1]
  <2>1. runs'[e] = IF runs[e] = 0 THEN 0 ELSE runs[e] - 1
    BY <1>1, <1>5 DEF TypeOK
  <2>2. (runs[e] = 0 => runs'[e] = 0) /\ (runs[e] <= 1 => runs'[e] = 0) /\ ~(0 >= 1)
    BY <1>1, <2>1
  <2>3. stopper'[<<"drop", e>>] \in {"cancel", stopper[<<"drop", e>>]}
        /\ (stopper'[<<"drop", e>>] # "idle" <=> stopper[<<"drop", e>>] # "idle")
    BY <1>1, <1>2, <1>5, StopperFacts
  <2>4. Undisturbed(e)' => Undisturbed(e) /\ runs'[e] = 0 /\ (HasRun(e)' => HasRun(e))
    BY <1>1, <1>2, <2>2 DEF Undisturbed, Facts, HasRun
  <2>5. 0 <= 1
    OBVIOUS
  <2> QED BY <1>1, <1>2, <2>3, <2>4, <2>5
          DEF Facts, Stored, Prepared, Spent, Used, Handles, Exists
<1> QED BY <1>2, <1>3, <1>4, <1>5

LEMMA StopCancelsStep ==
    ASSUME IInv, NEW e \in Exps, NEW f \in Exps, NEW c \in Callers, StopCancels(c, f)
    PROVE  Facts(e)'
<1>1. Facts(e) /\ TypeOK
  BY DEF IInv
<1>2. UNCHANGED <<uploaded, creator, starter, job, drop, runs, crossed>>
      /\ StopsAt(c, f, "idle") /\ stopper[<<c, f>>] = "cancel"
  BY DEF StopCancels, StopOnly, storage
<1>3. /\ \A g \in Exps \ {f} : row'[g] = row[g]
      /\ row'[f].files = row[f].files /\ row'[f].path = row[f].path
      /\ (row[f].status = "none") <=> (row'[f].status = "none")
      /\ row'[f].status \in {row[f].status, "cancelled"}
      /\ harmed \subseteq harmed'
  BY <1>1, StatusFacts DEF StopCancels, Status
<1>4. CASE e # f
  <2>1. row'[e] = row[e] /\ stopper'[<<"drop", e>>] = stopper[<<"drop", e>>]
    BY <1>1, <1>2, <1>3, <1>4, StopperFacts
  <2> QED BY <1>1, <1>2, <1>3, <2>1, Frame
<1>5. CASE e = f
  <2>1. stopper'[<<"drop", e>>] \in {"idle", stopper[<<"drop", e>>]}
    BY <1>1, <1>2, <1>5, StopperFacts
  <2>2. Undisturbed(e)' => Undisturbed(e)
    BY <1>2, <1>3 DEF Undisturbed
  <2>3. Stored(e)' /\ (e \notin harmed' => Prepared(e)')
    BY <1>1, <1>2, <1>3, <1>5 DEF Facts, Stored, Prepared, Handles, Exists
  <2>4. HasRun(e)' => HasRun(e)
    BY <1>2, <1>3, <1>5 DEF HasRun
  <2>5. (Spent(e) => Spent(e)') /\ (Used(e) => Used(e)')
    BY <1>2, <1>3, <1>5 DEF Spent, Used, Exists
  <2> QED BY <1>1, <1>2, <2>1, <2>2, <2>3, <2>4, <2>5 DEF Facts
<1> QED BY <1>4, <1>5

----------------------------------------------------------------------------
(* drop_all_experiments. *)

LEMMA DropListsStep ==
    ASSUME IInv, NEW e \in Exps, DropLists
    PROVE  Facts(e)'
<1>1. Facts(e) /\ TypeOK /\ drop.pc = "idle"
  BY DEF IInv, DropLists
<1>2. UNCHANGED <<row, uploaded, creator, starter, job, stopper, runs, harmed, crossed>>
  BY DEF DropLists, DropOnly, Request
<1>3. drop'.pc = "stopping" /\ drop'.seen[e] = row[e].status /\ (e \in drop'.todo <=> Exists(e))
  BY DEF DropLists
<1> QED BY <1>1, <1>2, <1>3
        DEF Facts, Stored, Prepared, Undisturbed, HasRun, Spent, Used, Handles, Exists

LEMMA DropStopsStep ==
    ASSUME IInv, NEW e \in Exps, NEW f \in Exps, DropStops(f)
    PROVE  Facts(e)'
<1>1. Facts(e) /\ TypeOK /\ drop.pc = "stopping" /\ f \in drop.todo
  BY DEF IInv, DropStops
<1>2. UNCHANGED <<uploaded, creator, starter, job, runs, crossed>>
  BY DEF DropStops, DropOnly
<1>3. drop'.pc = "stopping" /\ drop'.seen = drop.seen /\ drop'.todo = drop.todo \ {f}
  BY <1>1 DEF DropStops, TypeOK, Drop
<1>4. CASE drop.seen[f] = "running" /\ StopsAt("drop", f, "begin") /\ UNCHANGED <<row, bounds>>
  <2>1. stopper'[<<"drop", e>>] = IF e = f THEN "begin" ELSE stopper[<<"drop", e>>]
    BY <1>1, <1>4, StopperFacts DEF Callers
  <2>2. UNCHANGED <<row, harmed>>
    BY <1>4 DEF bounds
  <2> QED BY <1>1, <1>2, <1>3, <1>4, <2>1, <2>2
          DEF Facts, Stored, Prepared, Undisturbed, HasRun, Spent, Used, Handles, Exists
<1>5. CASE drop.seen[f] # "running" /\ UpdateStatus(f, "cancelled") /\ UNCHANGED stopper
  <2>1. /\ \A g \in Exps \ {f} : row'[g] = row[g]
        /\ row'[f].files = row[f].files /\ row'[f].path = row[f].path
        /\ (row[f].status = "none") <=> (row'[f].status = "none")
        /\ row'[f].status \in {row[f].status, "cancelled"}
        /\ harmed \subseteq harmed'
    BY <1>1, <1>5, StatusFacts DEF Status
  <2>2. CASE e # f
    BY <1>1, <1>2, <1>3, <1>5, <2>1, <2>2
       DEF Facts, Stored, Prepared, Undisturbed, HasRun, Spent, Used, Handles, Exists
  <2>3. CASE e = f
    BY <1>1, <1>2, <1>3, <1>5, <2>1, <2>3
       DEF Facts, Stored, Prepared, Undisturbed, HasRun, Spent, Used, Handles, Exists
  <2> QED BY <2>2, <2>3
<1>6. CASE drop.seen[f] # "running" /\ UNCHANGED <<row, stopper, bounds>>
  <2>1. UNCHANGED <<row, stopper, harmed>>
    BY <1>6 DEF bounds
  <2> QED BY <1>1, <1>2, <1>3, <1>6, <2>1
          DEF Facts, Stored, Prepared, Undisturbed, HasRun, Spent, Used, Handles, Exists
<1> QED BY <1>4, <1>5, <1>6 DEF DropStops, Inflight

\* The rows go when nothing is left to stop.
LEMMA DropRowsStep ==
    ASSUME IInv, NEW e \in Exps, DropRows
    PROVE  Facts(e)'
<1>1. Facts(e) /\ TypeOK
  BY DEF IInv
<1>2. UNCHANGED <<uploaded, creator, starter, job, stopper, runs, crossed>>
      /\ drop.pc = "stopping" /\ drop.todo = {} /\ stopper[<<"drop", e>>] = "idle"
  BY DEF DropRows, DropOnly
<1>3. drop'.pc = "data" /\ drop'.seen = drop.seen
  BY <1>1 DEF DropRows, TypeOK, Drop
<1>4. CASE Fault(Exps) /\ UNCHANGED row
  <2>1. e \in harmed'
    BY <1>4 DEF Fault
  <2> QED BY <1>1, <1>2, <1>4, <2>1 DEF Facts, Stored, Handles, Exists, Undisturbed
<1>5. CASE row'[e].status = "none" /\ row'[e].files = FALSE /\ row'[e].path = "data"
           /\ harmed' = harmed
  BY <1>1, <1>2, <1>3, <1>5
     DEF Facts, Stored, Prepared, Undisturbed, HasRun, Spent, Used, Handles, Exists
<1>6. CASE row' = [g \in Exps |-> [status |-> "none", files |-> FALSE, path |-> "data"]]
           /\ UNCHANGED bounds
  <2>1. row'[e] = [status |-> "none", files |-> FALSE, path |-> "data"] /\ harmed' = harmed
    BY <1>6 DEF bounds
  <2> QED BY <2>1, <1>5
<1> QED BY <1>4, <1>6 DEF DropRows

LEMMA DropDataStep ==
    ASSUME IInv, NEW e \in Exps, DropData
    PROVE  Facts(e)'
<1>1. Facts(e) /\ TypeOK /\ drop.pc = "data"
  BY DEF IInv, DropData
<1>2. UNCHANGED <<row, uploaded, creator, starter, job, stopper, runs, harmed, crossed>>
  BY DEF DropData, DropOnly, bounds
<1>3. drop'.pc = "idle" /\ drop'.seen = drop.seen
  BY <1>1 DEF DropData, TypeOK, Drop
<1> QED BY <1>1, <1>2, <1>3
        DEF Facts, Stored, Prepared, Undisturbed, HasRun, Spent, Used, Handles, Exists

----------------------------------------------------------------------------
(* Together. *)

LEMMA FactsStep ==
    ASSUME IInv, NEW e \in Exps, [Next]_vars
    PROVE  Facts(e)'
<1>1. CASE UNCHANGED vars
  <2>1. Facts(e)
    BY DEF IInv
  <2> QED BY <1>1, <2>1, Frame DEF vars, storage, kafka, bounds
<1>2. CASE Take \/ Handle \/ ConsumerEnds \/ Restart
  BY <1>2, TakeStep, InitializeStep, BuildFilesStep, RecordFilesStep, RecordPathStep,
     RecordStatusStep, RecordFailureStep, ConsumerEndsStep, RestartStep DEF Handle
<1>3. CASE DropAll
  BY <1>3, DropListsStep, DropStopsStep, DropRowsStep, DropDataStep DEF DropAll
<1>4. ASSUME NEW f \in Exps, Create(f) \/ Proceed(f)
      PROVE  Facts(e)'
  <2>1. CASE Create(f)
    <3>1. PICK kind \in {"ml", "prompt", "chain"} : CreateRow(f, kind)
      BY <2>1 DEF Create, CreateMl, CreatePrompt, CreateChain
    <3> QED BY <3>1, CreateRowStep
  <2>2. CASE Proceed(f)
    BY <2>2, PublishStep, BuildDirectStep, RecordDirectStep DEF Proceed
  <2> QED BY <1>4, <2>1, <2>2
<1>5. ASSUME NEW f \in Exps, Launch(f)
      PROVE  Facts(e)'
  BY <1>5, StartStep, StartInitializingStep, InitializedStep, StartedStep DEF Launch
<1>6. ASSUME NEW f \in Exps, Stop(f) \/ \E c \in Callers : Halt(c, f)
      PROVE  Facts(e)'
  BY <1>6, StopStep, StopReadsStep, StopRunnerStep, StopCancelsStep DEF Halt
<1> QED BY <1>1, <1>2, <1>3, <1>4, <1>5, <1>6 DEF Next

\* Messages are published once their experiment's request is done, and stay as they are.
LEMMA MessagesStep ==
    ASSUME IInv, [Next]_vars
    PROVE  Messages'
<1>1. TypeOK /\ Messages
  BY DEF IInv
<1>2. ASSUME topic' = topic, \A e \in Exps : creator[e] = "done" => creator'[e] = "done",
             job' = job \/ job' = NoJob \/ (job'.pc # "idle" /\ job'.exp \in Exps)
      PROVE  Messages'
  <2>1. \A k \in 1..Len(topic) : topic[k] \in Exps
    BY <1>1 DEF TypeOK
  <2> QED BY <1>1, <1>2, <2>1, PreparationAssumption DEF Messages, NoJob
<1>3. CASE UNCHANGED vars
  BY <1>2, <1>3 DEF vars, kafka
<1>4. CASE Take
  <2>1. topic' = topic /\ creator' = creator /\ topic[next] \in Exps
    BY <1>1, <1>4 DEF Take, TypeOK
  <2>2. job' = NoJob \/ (job'.pc # "idle" /\ job'.exp \in Exps)
    BY <1>4, <2>1 DEF Take
  <2> QED BY <1>2, <2>1, <2>2
<1>5. CASE Handle
  <2>1. UNCHANGED <<topic, creator>> /\ job.pc # "idle"
    BY <1>5 DEF Handle, Initialize, BuildFiles, RecordFiles, RecordPath, RecordStatus, RecordFailure,
                HandlerOnly, kafka
  <2>2. job \in Job /\ job.exp \in Exps
    BY <2>1, InHand
  <2>3. job' = NoJob \/ \E pc \in {"build", "uploaded", "path", "status", "failed", "raised"} : Goes(pc)
    BY <1>5 DEF Handle, Initialize, BuildFiles, RecordFiles, RecordPath, RecordStatus, RecordFailure,
                Done
  <2>4. job' = NoJob \/ (job'.pc # "idle" /\ job'.exp \in Exps)
    BY <2>2, <2>3, GoesFacts
  <2> QED BY <1>2, <2>1, <2>4
<1>6. CASE ConsumerEnds \/ DropAll
  BY <1>2, <1>6 DEF ConsumerEnds, DropAll, DropLists, DropStops, DropRows, DropData, DropOnly, kafka
<1>7. CASE Restart
  <2>1. topic' = topic /\ job' = NoJob
        /\ creator' = [e \in Exps |-> IF creator[e] = "new" THEN "new" ELSE "done"]
    BY <1>7 DEF Restart, Done
  <2>2. \A e \in Exps : creator[e] = "done" => creator'[e] = "done"
    BY <2>1
  <2> QED BY <1>2, <2>1, <2>2
<1>8. ASSUME NEW e \in Exps, Create(e) \/ BuildPrompt(e) \/ BuildChain(e) \/ RecordDirect(e)
      PROVE  Messages'
  <2>1. topic' = topic /\ job' = job /\ creator[e] # "done"
        /\ \E c \in Creating : creator' = [creator EXCEPT ![e] = c]
    BY <1>8 DEF Create, CreateMl, CreatePrompt, CreateChain, CreateRow, BuildPrompt, BuildChain,
                BuildDirect, RecordDirect, kafka, Creating
  <2>2. \A f \in Exps : creator[f] = "done" => creator'[f] = "done"
    BY <1>1, <2>1 DEF TypeOK
  <2> QED BY <1>2, <2>1, <2>2
<1>9. ASSUME NEW e \in Exps, Publish(e)
      PROVE  Messages'
  <2>1. job' = job /\ creator' = [creator EXCEPT ![e] = "done"]
        /\ topic' \in {topic, Append(topic, e), topic \o <<e, e>>} /\ topic \in Seq(Exps)
    BY <1>1, <1>9 DEF Publish, TypeOK
  <2>2. \A f \in Exps : creator[f] = "done" => creator'[f] = "done"
    BY <1>1, <2>1 DEF TypeOK
  <2>3. creator'[e] = "done"
    BY <1>1, <2>1 DEF TypeOK
  <2>4. \A k \in 1..Len(topic) : topic[k] \in Exps /\ creator'[topic[k]] = "done"
    BY <1>1, <2>1, <2>2 DEF Messages
  <2>5. Len(<<e, e>>) = 2 /\ <<e, e>>[1] = e /\ <<e, e>>[2] = e /\ <<e, e>> \in Seq(Exps)
    OBVIOUS
  <2>6. CASE topic' = topic
    BY <1>1, <2>1, <2>4, <2>6 DEF Messages
  <2>7. CASE topic' = Append(topic, e)
    <3>1. \A k \in 1..Len(topic') : (k \in 1..Len(topic) /\ topic'[k] = topic[k]) \/ topic'[k] = e
      BY <2>1, <2>7
    <3> QED BY <1>1, <2>1, <2>3, <2>4, <3>1 DEF Messages
  <2>8. CASE topic' = topic \o <<e, e>>
    <3>1. \A k \in 1..Len(topic') : (k \in 1..Len(topic) /\ topic'[k] = topic[k]) \/ topic'[k] = e
      BY <2>1, <2>5, <2>8
    <3> QED BY <1>1, <2>1, <2>3, <2>4, <3>1 DEF Messages
  <2> QED BY <1>1, <2>1, <2>4, <2>6, <2>7, <2>8 DEF Messages
<1>10. ASSUME NEW e \in Exps, Launch(e) \/ Stop(e) \/ \E c \in Callers : Halt(c, e)
       PROVE  Messages'
  BY <1>2, <1>10 DEF Launch, Start, StartInitializing, Initialized, Started, StartOnly, Stop, Halt,
                     StopReads, StopRunner, StopCancels, StopOnly, kafka
<1> QED BY <1>3, <1>4, <1>5, <1>6, <1>7, <1>8, <1>9, <1>10 DEF Next, Proceed

----------------------------------------------------------------------------
(* Type correctness. *)

\* What a step that touches the rows and the counters keeps of them.
RowsOK == /\ row \in [Exps -> Row] /\ harmed \subseteq Exps
          /\ requests \in 0..MaxRequests /\ faults \in 0..MaxFaults

LEMMA RowsSame ==
    ASSUME TypeOK, UNCHANGED row, UNCHANGED bounds \/ Request \/ \E hit \in SUBSET Exps : Fault(hit)
    PROVE  RowsOK'
BY PreparationAssumption DEF TypeOK, RowsOK, bounds, Request, Fault

LEMMA RowsUpdated ==
    ASSUME TypeOK, NEW e \in Exps, NEW new \in Row, Update(e, new)
    PROVE  RowsOK'
BY UpdateFacts DEF RowsOK

LEMMA RowsStatus ==
    ASSUME TypeOK, NEW e \in Exps, NEW st \in Status \ {"none"}, UpdateStatus(e, st)
    PROVE  RowsOK'
BY StatusFacts DEF RowsOK

LEMMA HandleTypes ==
    ASSUME IInv, Handle
    PROVE  TypeOK'
<1> DEFINE j == job.exp
<1>1. TypeOK /\ job.pc # "idle"
  BY DEF IInv, Handle, Initialize, BuildFiles, RecordFiles, RecordPath, RecordStatus, RecordFailure
<1>2. job \in Job /\ j \in Exps /\ row[j] \in Row
  BY <1>1, InHand, Types
<1>3. RowsOK'
  <2>1. CASE BuildFiles
    BY <1>1, <2>1, RowsSame DEF BuildFiles
  <2>2. CASE Initialize \/ RecordStatus \/ RecordFailure
    BY <1>1, <1>2, <2>2, RowsStatus DEF Initialize, RecordStatus, RecordFailure, Status
  <2>3. CASE RecordFiles
    <3>1. [row[j] EXCEPT !.status = "prepared", !.files = TRUE] \in Row
      BY <1>2 DEF Row, Status
    <3> QED BY <1>1, <1>2, <2>3, <3>1, RowsSame, RowsUpdated DEF RecordFiles
  <2>4. CASE RecordPath
    <3>1. [row[j] EXCEPT !.path = "prefix"] \in Row
      BY <1>2 DEF Row, Paths
    <3> QED BY <1>1, <1>2, <2>4, <3>1, RowsUpdated DEF RecordPath
  <2> QED BY <2>1, <2>2, <2>3, <2>4 DEF Handle
<1>4. HandlerOnly /\ UNCHANGED data /\ uploaded' \in {uploaded, uploaded \cup {j}}
  BY DEF Handle, Initialize, BuildFiles, RecordFiles, RecordPath, RecordStatus, RecordFailure,
         storage, Upload
<1>5. job' = NoJob \/ \E pc \in {"build", "uploaded", "path", "status", "failed", "raised"} : Goes(pc)
  BY DEF Handle, Initialize, BuildFiles, RecordFiles, RecordPath, RecordStatus, RecordFailure, Done
<1>6. job' \in Job
  BY <1>2, <1>5 DEF Goes, NoJob, Job, Paths
<1>7. overwritten' \in {overwritten, overwritten \cup {j}} /\ overtaken' = overtaken
  BY DEF Handle, Initialize, BuildFiles, RecordFiles, RecordPath, RecordStatus, RecordFailure,
         Overwrites, elusive
<1> QED BY <1>1, <1>2, <1>3, <1>4, <1>6, <1>7 DEF TypeOK, RowsOK, HandlerOnly, kafka

LEMMA CreateTypes ==
    ASSUME IInv, NEW e \in Exps, Create(e) \/ Proceed(e)
    PROVE  TypeOK'
<1>1. TypeOK /\ row[e] \in Row /\ row \in [Exps -> Row]
  BY Types DEF IInv, TypeOK
<1>2. CASE Create(e)
  <2>1. PICK kind \in {"ml", "prompt", "chain"} : CreateRow(e, kind)
    BY <1>2 DEF Create, CreateMl, CreatePrompt, CreateChain
  <2>2. row' \in [Exps -> Row]
    BY <1>1, <2>1 DEF CreateRow, Row, Status
  <2>3. creator' \in [Exps -> Creating]
    BY <1>1, <2>1 DEF CreateRow, TypeOK, Creating
  <2> QED BY <1>1, <2>1, <2>2, <2>3 DEF CreateRow, TypeOK, storage, kafka, bounds, elusive
<1>3. CASE Publish(e)
  <2>1. creator' \in [Exps -> Creating]
    BY <1>1, <1>3 DEF Publish, TypeOK, Creating
  <2>2. RowsOK'
    BY <1>1, <1>3, RowsSame DEF Publish
  <2>3. topic \in Seq(Exps) /\ <<e, e>> \in Seq(Exps) /\ Len(<<e, e>>) = 2
    BY <1>1 DEF TypeOK
  <2>4. topic' \in Seq(Exps) /\ Len(topic) \in Nat /\ Len(topic') \in Nat /\ Len(topic') >= Len(topic)
    <3>1. CASE topic' = topic
      BY <2>3, <3>1
    <3>2. CASE topic' = Append(topic, e)
      BY <2>3, <3>2
    <3>3. CASE topic' = topic \o <<e, e>>
      <4>1. Len(topic') = Len(topic) + Len(<<e, e>>) /\ topic' \in Seq(Exps)
        BY <2>3, <3>3
      <4> QED BY <2>3, <4>1
    <3> QED BY <1>3, <3>1, <3>2, <3>3 DEF Publish
  <2>5. next' \in 1..Len(topic') + 1 /\ committed' \in 1..next'
    BY <1>1, <1>3, <2>4 DEF Publish, TypeOK
  <2> QED BY <1>1, <1>3, <2>1, <2>2, <2>4, <2>5 DEF Publish, TypeOK, RowsOK, storage, elusive
<1>4. CASE BuildPrompt(e) \/ BuildChain(e)
  <2>1. creator' \in [Exps -> Creating] /\ uploaded' \subseteq Exps
    BY <1>1, <1>4 DEF BuildPrompt, BuildChain, BuildDirect, Upload, TypeOK, Creating
  <2> QED BY <1>1, <1>4, <2>1
          DEF BuildPrompt, BuildChain, BuildDirect, TypeOK, kafka, bounds, elusive
<1>5. CASE RecordDirect(e)
  <2>1. [status |-> "prepared", files |-> TRUE, path |-> "prefix"] \in Row
    BY DEF Row, Status, Paths
  <2>2. RowsOK'
    <3>1. CASE Update(e, [status |-> "prepared", files |-> TRUE, path |-> "prefix"])
      BY <1>1, <2>1, <3>1, RowsUpdated
    <3>2. CASE creator[e] \in {"preparation_failed", "failed"} /\ UpdateStatus(e, creator[e])
      BY <1>1, <3>2, RowsStatus DEF Status
    <3> QED BY <1>5, <3>1, <3>2 DEF RecordDirect
  <2>3. creator' \in [Exps -> Creating]
    BY <1>1, <1>5 DEF RecordDirect, TypeOK, Creating
  <2> QED BY <1>1, <1>5, <2>2, <2>3 DEF RecordDirect, TypeOK, RowsOK, storage, kafka, elusive
<1> QED BY <1>2, <1>3, <1>4, <1>5 DEF Proceed

LEMMA LaunchTypes ==
    ASSUME IInv, NEW e \in Exps, Launch(e)
    PROVE  TypeOK'
<1>1. TypeOK /\ row[e] \in Row /\ starter[e] \in Starter /\ starter \in [Exps -> Starter]
      /\ runs \in [Exps -> Nat] /\ row \in [Exps -> Row]
  BY Types DEF IInv, TypeOK
<1>2. Resting \in Starter
  BY DEF Resting, Starter, Paths
<1>3. RowsOK'
  <2>1. CASE Start(e)
    BY <1>1, <2>1, RowsSame DEF Start
  <2>2. CASE StartInitializing(e)
    BY <1>1, <2>2, RowsStatus DEF StartInitializing, Status
  <2>3. CASE Initialized(e)
    BY <1>1, <2>3, RowsStatus DEF Initialized, Status
  <2>4. CASE Started(e)
    <3>1. CASE UpdateStatus(e, "running") \/ UpdateStatus(e, "failed")
      BY <1>1, <3>1, RowsStatus DEF Status
    <3>2. CASE Fault({e}) /\ row' = IF Exists(e) THEN [row EXCEPT ![e].status = "failed"] ELSE row
      <4>1. row' \in [Exps -> Row]
        BY <1>1, <3>2 DEF Row, Status
      <4> QED BY <1>1, <3>2, <4>1, PreparationAssumption DEF TypeOK, RowsOK, Fault
    <3> QED BY <2>4, <3>1, <3>2 DEF Started
  <2> QED BY <2>1, <2>2, <2>3, <2>4, <1>1 DEF Launch
<1>4. starter' \in [Exps -> Starter]
  <2>1. /\ [pc |-> "allocated", path |-> row[e].path] \in Starter
        /\ \A pc \in {"initializing", "preparing"} : [starter[e] EXCEPT !.pc = pc] \in Starter
    BY <1>1 DEF Starter, Row
  <2>2. \E s \in Starter : starter' = [starter EXCEPT ![e] = s]
    <3>1. CASE Start(e)
      BY <2>1, <3>1 DEF Start
    <3>2. CASE StartInitializing(e)
      <4>1. starter' = [starter EXCEPT ![e] = [starter[e] EXCEPT !.pc = "initializing"]]
        BY <1>1, <3>2 DEF StartInitializing
      <4> QED BY <2>1, <4>1
    <3>3. CASE Initialized(e)
      <4>1. \/ starter' = [starter EXCEPT ![e] = [starter[e] EXCEPT !.pc = "preparing"]]
            \/ starter' = [starter EXCEPT ![e] = Resting]
        BY <1>1, <3>3 DEF Initialized
      <4> QED BY <1>2, <2>1, <4>1
    <3>4. CASE Started(e)
      BY <1>2, <3>4 DEF Started
    <3> QED BY <3>1, <3>2, <3>3, <3>4 DEF Launch
  <2> QED BY <1>1, <2>2
<1>5. runs' \in [Exps -> Nat] /\ crossed' \subseteq Exps /\ UNCHANGED overwritten /\ overtaken' \subseteq Exps
  <2>1. /\ runs' \in {runs, [runs EXCEPT ![e] = @ + 1]} /\ crossed' \in {crossed, crossed \cup {e}}
        /\ UNCHANGED overwritten /\ overtaken' \in {overtaken, overtaken \cup {e}}
    BY DEF Launch, Start, StartInitializing, Initialized, Started, elusive
  <2> QED BY <1>1, <2>1 DEF TypeOK
<1>6. StartOnly
  BY DEF Launch, Start, StartInitializing, Initialized, Started
<1> QED BY <1>1, <1>3, <1>4, <1>5, <1>6 DEF TypeOK, RowsOK, StartOnly, storage, kafka

LEMMA StopTypes ==
    ASSUME IInv, NEW e \in Exps, Stop(e) \/ \E c \in Callers : Halt(c, e)
    PROVE  TypeOK'
<1>1. TypeOK /\ stopper \in [Callers \X Exps -> Stopping] /\ runs \in [Exps -> Nat]
  BY DEF IInv, TypeOK
<1>2. RowsOK'
  <2>1. CASE Stop(e)
    BY <1>1, <2>1, RowsSame DEF Stop
  <2>2. ASSUME NEW c \in Callers, Halt(c, e)
        PROVE  RowsOK'
    <3>1. CASE StopReads(c, e)
      BY <1>1, <3>1, RowsSame DEF StopReads
    <3>2. CASE StopRunner(c, e)
      BY <1>1, <3>2, RowsSame DEF StopRunner
    <3>3. CASE StopCancels(c, e)
      BY <1>1, <3>3, RowsStatus DEF StopCancels, Status
    <3> QED BY <2>2, <3>1, <3>2, <3>3 DEF Halt
  <2> QED BY <2>1, <2>2
<1>3. /\ StopOnly
      /\ \E c \in Callers, pc \in Stopping : StopsAt(c, e, pc)
      /\ runs' \in {runs, [runs EXCEPT ![e] = IF @ = 0 THEN 0 ELSE @ - 1]}
      /\ UNCHANGED <<crossed, overtaken>> /\ overwritten' \in {overwritten, overwritten \cup {e}}
  BY DEF Stop, Halt, StopReads, StopRunner, StopCancels, Overwrites, elusive, Callers, Stopping
<1>4. stopper' \in [Callers \X Exps -> Stopping]
  BY <1>1, <1>3 DEF StopsAt
<1>5. runs' \in [Exps -> Nat]
  BY <1>1, <1>3
<1> QED BY <1>1, <1>2, <1>3, <1>4, <1>5 DEF TypeOK, RowsOK, StopOnly, storage, kafka

LEMMA DropTypes ==
    ASSUME IInv, DropAll
    PROVE  TypeOK'
<1>1. TypeOK /\ row \in [Exps -> Row] /\ drop \in Drop /\ stopper \in [Callers \X Exps -> Stopping]
  BY DEF IInv, TypeOK
<1>2. CASE DropLists
  <2>1. RowsOK'
    BY <1>1, <1>2, RowsSame DEF DropLists
  <2>2. drop' \in Drop
    BY <1>1, <1>2 DEF DropLists, Drop, Row
  <2>3. overtaken' \subseteq Exps
    BY <1>1, <1>2 DEF DropLists, TypeOK
  <2> QED BY <1>1, <1>2, <2>1, <2>2, <2>3 DEF DropLists, DropOnly, TypeOK, RowsOK, kafka
<1>3. ASSUME NEW e \in Exps, DropStops(e)
      PROVE  TypeOK'
  <2>1. RowsOK'
    BY <1>1, <1>3, RowsSame, RowsStatus DEF DropStops, Status
  <2>2. drop' \in Drop
    BY <1>1, <1>3 DEF DropStops, Drop
  <2>3. stopper' \in [Callers \X Exps -> Stopping]
    BY <1>1, <1>3 DEF DropStops, StopsAt, Callers, Stopping
  <2> QED BY <1>1, <1>3, <2>1, <2>2, <2>3 DEF DropStops, DropOnly, TypeOK, RowsOK, kafka
<1>4. CASE DropRows
  <2>1. RowsOK'
    <3>1. CASE Fault(Exps) /\ UNCHANGED row
      BY <1>1, <3>1, RowsSame
    <3>2. CASE row' = [e \in Exps |-> [status |-> "none", files |-> FALSE, path |-> "data"]]
               /\ UNCHANGED bounds
      <4>1. row' \in [Exps -> Row]
        BY <3>2 DEF Row, Status, Paths
      <4> QED BY <1>1, <3>2, <4>1 DEF TypeOK, RowsOK, bounds
    <3> QED BY <1>4, <3>1, <3>2 DEF DropRows
  <2>2. drop' \in Drop
    BY <1>1, <1>4 DEF DropRows, Drop
  <2> QED BY <1>1, <1>4, <2>1, <2>2 DEF DropRows, DropOnly, TypeOK, RowsOK, kafka
<1>5. CASE DropData
  <2>1. drop' \in Drop
    BY <1>1, <1>5 DEF DropData, Drop
  <2> QED BY <1>1, <1>5, <2>1 DEF DropData, DropOnly, TypeOK, kafka, bounds
<1> QED BY <1>2, <1>3, <1>4, <1>5 DEF DropAll

\* The positions a restart passes over are those of messages.
LEMMA Between ==
    ASSUME NEW a \in Nat, NEW b \in Nat, NEW n \in Nat, a >= 1, b >= 1, b <= n + 1
    PROVE  \A k \in a..b - 1 : k \in 1..n
OBVIOUS

LEMMA TypeStep ==
    ASSUME IInv, [Next]_vars
    PROVE  TypeOK'
<1>1. TypeOK
  BY DEF IInv
<1>2. CASE UNCHANGED vars
  BY <1>1, <1>2 DEF TypeOK, vars, storage, kafka, bounds, elusive
<1>3. CASE Take
  <2>1. next \in 1..Len(topic) /\ topic \in Seq(Exps) /\ Len(topic) \in Nat /\ committed \in 1..next
    BY <1>1, <1>3 DEF Take, TypeOK
  <2>2. topic[next] \in Exps
    BY <2>1
  <2>3. row[topic[next]] \in Row
    BY <1>1, <2>2 DEF TypeOK
  <2>4. job' \in Job
    BY <1>3, <2>2, <2>3 DEF Take, NoJob, Job, Row, Paths
  <2>5. next' \in 1..Len(topic) + 1 /\ committed \in 1..next'
    BY <1>3, <2>1 DEF Take
  <2> QED BY <1>1, <1>3, <2>4, <2>5 DEF Take, TypeOK, storage, bounds, elusive
<1>4. CASE ConsumerEnds
  <2>1. RowsOK'
    BY <1>1, <1>4, RowsSame DEF ConsumerEnds
  <2> QED BY <1>1, <1>4, <2>1 DEF ConsumerEnds, TypeOK, RowsOK, storage, elusive
<1>5. CASE Restart
  <2>1. topic \in Seq(Exps) /\ Len(topic) \in Nat /\ next \in 1..Len(topic) + 1 /\ committed \in 1..next
    BY <1>1 DEF TypeOK
  <2>2. next' \in 1..Len(topic) + 1 /\ committed' \in 1..next'
    BY <1>5, <2>1 DEF Restart
  <2>3. InFlight \subseteq Exps /\ Skipped(next') \subseteq Exps
    <3>1. next \in Nat /\ next >= 1 /\ next' \in Nat /\ next' >= 1 /\ next' <= Len(topic) + 1
      BY <2>1, <2>2
    <3>2. \A k \in next..next' - 1 : k \in 1..Len(topic)
      BY <2>1, <3>1, Between
    <3>3. \A k \in next..next' - 1 : topic[k] \in Exps
      BY <2>1, <3>2
    <3> QED BY <3>3 DEF InFlight, Skipped
  <2>4. RowsOK'
    BY <1>1, <1>5, <2>3, RowsSame DEF Restart
  <2>5. job' \in Job /\ starter' \in [Exps -> Starter] /\ stopper' \in [Callers \X Exps -> Stopping]
    BY <1>5 DEF Restart, Done, NoJob, Job, Paths, Resting, Starter, Stopping
  <2>6. drop' \in Drop
    BY <1>1, <1>5 DEF Restart, TypeOK, Drop
  <2>7. creator' \in [Exps -> Creating]
    BY <1>5 DEF Restart, Creating
  <2> QED BY <1>1, <1>5, <2>2, <2>4, <2>5, <2>6, <2>7 DEF Restart, TypeOK, RowsOK, storage, elusive
<1> QED BY <1>2, <1>3, <1>4, <1>5, HandleTypes, CreateTypes, LaunchTypes, StopTypes, DropTypes DEF Next

----------------------------------------------------------------------------
(* The theorems. *)

\* The inductive invariant holds from the start and through every step.
THEOREM Invariance == Spec => []IInv
<1>1. Init => IInv
  <2> SUFFICES ASSUME Init PROVE IInv
    OBVIOUS
  <2>1. TypeOK
    BY PreparationAssumption
       DEF Init, TypeOK, Row, Status, Paths, Creating, Job, NoJob, Starter, Resting, Stopping, Drop
  <2>2. Messages
    BY DEF Init, Messages, NoJob
  <2>3. ASSUME NEW e \in Exps
        PROVE  Facts(e)
    <3>1. /\ row[e].status = "none" /\ ~row[e].files /\ row[e].path = "data" /\ creator[e] = "new"
          /\ job.exp # e /\ starter[e].pc = "idle" /\ runs[e] = 0 /\ drop.seen[e] = "none"
          /\ stopper[<<"drop", e>>] = "idle"
      BY PreparationAssumption DEF Init, NoJob, Resting, Callers
    <3>2. ~(0 >= 1) /\ 0 <= 1
      OBVIOUS
    <3> QED BY <3>1, <3>2 DEF Facts, Stored, Prepared, HasRun, Handles, Exists
  <2> QED BY <2>1, <2>2, <2>3 DEF IInv
<1>2. IInv /\ [Next]_vars => IInv'
  BY FactsStep, MessagesStep, TypeStep DEF IInv
<1> QED BY <1>1, <1>2, PTL DEF Spec

\* Type correctness.
THEOREM TypeCorrect == Spec => []TypeOK
<1>1. IInv => TypeOK
  BY DEF IInv
<1> QED BY <1>1, Invariance, PTL

\* What says that it is prepared has its files, and a runner is given the prepared ones.
THEOREM PreparedIsReady == Spec => []Ready
<1>1. IInv => Ready
  BY DEF IInv, Facts, Stored, Prepared, Ready, Handles
<1> QED BY <1>1, Invariance, PTL

\* A message delivered again does not make a second run possible.
THEOREM RunsOnce == Spec => []OneRun
<1>1. IInv => OneRun
  <2> SUFFICES ASSUME IInv, NEW e \in Exps, runs[e] > 1 PROVE e \in harmed \cup crossed
    BY DEF OneRun
  <2>1. runs[e] \in Nat
    BY Types DEF IInv
  <2>2. ~(runs[e] <= 1)
    BY <2>1
  <2> QED BY <2>2 DEF IInv, Facts, Undisturbed
<1> QED BY <1>1, Invariance, PTL

----------------------------------------------------------------------------
(* What runs is stopped before its row is dropped. *)

\* An experiment that no fault hit, whose RUNNING nothing has overwritten and no start of which
\* was under way during a drop.
Calm(e) == e \notin harmed \cup overwritten \cup overtaken

\* Its row says that it runs for as long as it does, so a drop lists it as running and leaves
\* the row where it is until its stop has had the runner's answer.
Followed(e) ==
    Calm(e) =>
        /\ runs[e] \in {0, 1}
        /\ runs[e] # 0 => row[e].status = "running" /\ creator[e] = "done"
        /\ starter[e].pc # "idle" => runs[e] = 0 /\ Exists(e) /\ drop.pc # "stopping"
        /\ drop.pc = "stopping" /\ runs[e] # 0 =>
              /\ drop.seen[e] = "running"
              /\ e \in drop.todo \/ stopper[<<"drop", e>>] \in {"begin", "runner"}

AllFollowed == \A e \in Exps : Followed(e)

\* The histories only grow.
Grows == harmed \subseteq harmed' /\ overwritten \subseteq overwritten' /\ overtaken \subseteq overtaken'

LEMMA CalmBefore ==
    ASSUME Grows, NEW e, Calm(e)'
    PROVE  Calm(e)
BY DEF Grows, Calm

LEMMA BoundsGrow ==
    ASSUME UNCHANGED bounds \/ Request \/ (\E hit : Fault(hit)) \/ (\E f, new : Update(f, new))
    PROVE  harmed \subseteq harmed'
BY DEF bounds, Request, Fault, Update

LEMMA HistoriesGrow ==
    ASSUME [Next]_vars
    PROVE  Grows
<1>1. CASE UNCHANGED vars
  BY <1>1 DEF vars, bounds, elusive, Grows
<1>2. CASE Take \/ ConsumerEnds \/ Restart
  BY <1>2, BoundsGrow DEF Take, ConsumerEnds, Restart, elusive, Grows
<1>3. CASE Handle
  <2>1. overwritten \subseteq overwritten' /\ overtaken' = overtaken
    BY <1>3 DEF Handle, Initialize, BuildFiles, RecordFiles, RecordPath, RecordStatus, RecordFailure,
                Overwrites, elusive
  <2>2. harmed \subseteq harmed'
    BY <1>3, BoundsGrow DEF Handle, Initialize, BuildFiles, RecordFiles, RecordPath, RecordStatus,
                            RecordFailure, UpdateStatus
  <2> QED BY <2>1, <2>2 DEF Grows
<1>4. CASE DropAll
  BY <1>4, BoundsGrow DEF DropAll, DropLists, DropStops, DropRows, DropData, DropOnly, UpdateStatus, Grows
<1>5. ASSUME NEW f \in Exps, Create(f) \/ Proceed(f)
      PROVE  Grows
  BY <1>5, BoundsGrow DEF Create, CreateMl, CreatePrompt, CreateChain, CreateRow, Proceed, Publish,
                          BuildPrompt, BuildChain, BuildDirect, RecordDirect, UpdateStatus, elusive, Grows
<1>6. ASSUME NEW f \in Exps, Launch(f)
      PROVE  Grows
  BY <1>6, BoundsGrow DEF Launch, Start, StartInitializing, Initialized, Started, UpdateStatus, elusive,
                          Grows
<1>7. ASSUME NEW f \in Exps, Stop(f) \/ \E c \in Callers : Halt(c, f)
      PROVE  Grows
  BY <1>7, BoundsGrow DEF Stop, Halt, StopReads, StopRunner, StopCancels, UpdateStatus, Overwrites,
                          elusive, Grows
<1> QED BY <1>1, <1>2, <1>3, <1>4, <1>5, <1>6, <1>7 DEF Next

\* A step that leaves the row, the runners, the start and the drop of e alone.
LEMMA FollowedFrame ==
    ASSUME NEW e \in Exps, Followed(e), Grows, row'[e].status = row[e].status,
           creator[e] = "done" => creator'[e] = "done", starter'[e] = starter[e],
           runs'[e] = runs[e], drop' = drop, stopper'[<<"drop", e>>] = stopper[<<"drop", e>>]
    PROVE  Followed(e)'
<1>1. Calm(e)' => Calm(e)
  BY CalmBefore
<1> QED BY <1>1 DEF Followed, Exists

\* One after which no runner executes e.
LEMMA FollowedAtRest ==
    ASSUME NEW e \in Exps, Calm(e)' => /\ runs'[e] = 0
                                       /\ starter'[e].pc # "idle" => Exists(e)' /\ drop'.pc # "stopping"
    PROVE  Followed(e)'
BY DEF Followed

\* One that writes a status while no runner executes e.
LEMMA FollowedWrite ==
    ASSUME TypeOK, NEW e \in Exps, Followed(e), Grows, NEW st \in Status \ {"none"}, UpdateStatus(e, st),
           Calm(e)' => runs[e] = 0, runs' = runs, drop'.pc = drop.pc,
           starter'[e].pc = "idle" \/ starter[e].pc # "idle"
    PROVE  Followed(e)'
<1>1. Calm(e)' => Calm(e)
  BY CalmBefore
<1>2. Exists(e) => Exists(e)'
  BY StatusFacts DEF Exists
<1> QED BY <1>1, <1>2, FollowedAtRest DEF Followed

LEMMA CreateFollowed ==
    ASSUME IInv, NEW e \in Exps, Followed(e), NEW f \in Exps, Create(f) \/ Proceed(f), Grows
    PROVE  Followed(e)'
<1>1. TypeOK /\ Facts(e)
  BY DEF IInv
<1>2. UNCHANGED <<runs, drop, stopper, starter>>
  BY DEF Create, CreateMl, CreatePrompt, CreateChain, CreateRow, Proceed, Publish, BuildPrompt,
         BuildChain, BuildDirect, RecordDirect
<1>3. creator[f] # "done" /\ (f # e => creator'[e] = creator[e])
  BY <1>1 DEF Create, CreateMl, CreatePrompt, CreateChain, CreateRow, Proceed, Publish, BuildPrompt,
              BuildChain, BuildDirect, RecordDirect, TypeOK
<1>4. CASE f # e
  <2>1. row'[e] = row[e]
    <3>1. CASE Create(f)
      BY <1>1, <1>4, <3>1 DEF Create, CreateMl, CreatePrompt, CreateChain, CreateRow, TypeOK
    <3>2. CASE Publish(f) \/ BuildPrompt(f) \/ BuildChain(f)
      BY <3>2 DEF Publish, BuildPrompt, BuildChain, BuildDirect
    <3>3. CASE RecordDirect(f)
      BY <1>1, <1>4, <3>3 DEF RecordDirect, UpdateStatus, Update, TypeOK
    <3> QED BY <3>1, <3>2, <3>3 DEF Proceed
  <2> QED BY <1>2, <1>3, <1>4, <2>1, FollowedFrame
<1>5. CASE f = e
  <2>1. starter[e].pc = "idle"
    BY <1>1, <1>3, <1>5 DEF Facts, Stored
  <2>2. Calm(e)' => runs[e] = 0
    BY <1>3, <1>5, CalmBefore DEF Followed
  <2> QED BY <1>2, <2>1, <2>2, FollowedAtRest
<1> QED BY <1>4, <1>5

\* A handler that writes over RUNNING is remembered.
LEMMA HandleFollowed ==
    ASSUME IInv, NEW e \in Exps, Followed(e), Handle, Grows
    PROVE  Followed(e)'
<1> DEFINE j == job.exp
<1>1. TypeOK /\ job.pc # "idle"
  BY DEF IInv, Handle, Initialize, BuildFiles, RecordFiles, RecordPath, RecordStatus, RecordFailure
<1>2. j \in Exps /\ row[j] \in Row
  BY <1>1, InHand, Types
<1>3. UNCHANGED <<runs, drop, stopper, starter, creator>>
  BY DEF Handle, Initialize, BuildFiles, RecordFiles, RecordPath, RecordStatus, RecordFailure, HandlerOnly
<1>4. CASE row'[e].status = row[e].status
  BY <1>3, <1>4, FollowedFrame
<1>5. ASSUME Overwrites(e)
      PROVE  Calm(e)' => runs[e] = 0
  <2>1. runs[e] \in Nat
    BY <1>1, Types
  <2>2. runs[e] # 0 => runs[e] > 0
    BY <2>1
  <2> QED BY <1>5, <2>2, CalmBefore DEF Overwrites, Calm, Followed
<1>6. ASSUME NEW st \in Status \ {"none"}, UpdateStatus(j, st), Overwrites(j)
      PROVE  Followed(e)'
  <2>1. CASE j # e
    BY <1>1, <1>2, <1>4, <1>6, <2>1, StatusFacts
  <2>2. CASE j = e
    BY <1>1, <1>3, <1>5, <1>6, <2>2, FollowedWrite
  <2> QED BY <2>1, <2>2
<1>7. CASE BuildFiles
  BY <1>4, <1>7 DEF BuildFiles
<1>8. CASE Initialize \/ RecordStatus \/ RecordFailure
  BY <1>6, <1>8 DEF Initialize, RecordStatus, RecordFailure, Status
<1>9. CASE RecordFiles
  <2> DEFINE new == [row[j] EXCEPT !.status = "prepared", !.files = TRUE]
  <2>1. new \in Row /\ new.status = "prepared"
    BY <1>2 DEF Row, Status
  <2>2. \/ Update(j, new) /\ Overwrites(j)
        \/ UNCHANGED row
    BY <1>9 DEF RecordFiles
  <2> HIDE DEF new
  <2>3. row'[e] = row[e] \/ (j = e /\ Overwrites(e) /\ Exists(e) /\ row'[e] = new)
    BY <1>1, <1>2, <2>1, <2>2, UpdateFacts
  <2>4. CASE j = e /\ Overwrites(e) /\ Exists(e) /\ row'[e] = new
    <3>1. Calm(e)' => runs[e] = 0 /\ Calm(e)
      BY <1>5, <2>4, CalmBefore
    <3>2. Exists(e)'
      BY <2>1, <2>4 DEF Exists
    <3> QED BY <1>3, <3>1, <3>2, FollowedAtRest DEF Followed
  <2> QED BY <1>4, <2>3, <2>4
<1>10. CASE RecordPath
  <2> DEFINE new == [row[j] EXCEPT !.path = "prefix"]
  <2>1. new \in Row /\ new.status = row[j].status
    BY <1>2 DEF Row, Paths
  <2>2. Update(j, new)
    BY <1>10 DEF RecordPath
  <2> HIDE DEF new
  <2> QED BY <1>1, <1>2, <1>4, <2>1, <2>2, UpdateFacts
<1> QED BY <1>7, <1>8, <1>9, <1>10 DEF Handle

\* Take leaves the experiments alone, and a restart harms those it catches.
LEMMA ConsumerFollowed ==
    ASSUME IInv, NEW e \in Exps, Followed(e), Take \/ ConsumerEnds \/ Restart, Grows
    PROVE  Followed(e)'
<1>1. CASE Take \/ ConsumerEnds
  BY <1>1, FollowedFrame DEF Take, ConsumerEnds
<1>2. CASE Restart
  <2>1. /\ UNCHANGED <<row, runs>> /\ InFlight \subseteq harmed'
        /\ creator[e] = "done" => creator'[e] = "done"
        /\ starter'[e].pc = "idle" /\ drop'.pc = "idle"
    BY <1>2 DEF Restart, Fault, Resting, IInv, TypeOK, Drop
  <2> QED BY <2>1, CalmBefore DEF Followed
<1> QED BY <1>1, <1>2

\* An experiment that runs cannot be started.
LEMMA LaunchFollowed ==
    ASSUME IInv, NEW e \in Exps, Followed(e), NEW f \in Exps, Launch(f), Grows
    PROVE  Followed(e)'
<1>1. TypeOK /\ Facts(e) /\ runs[f] \in Nat
  BY Types DEF IInv
<1>2. UNCHANGED <<creator, drop, stopper>>
  BY DEF Launch, Start, StartInitializing, Initialized, Started, StartOnly
<1>3. CASE f # e
  <2>1. starter'[e] = starter[e] /\ runs'[e] = runs[e]
    BY <1>1, <1>3 DEF Launch, Start, StartInitializing, Initialized, Started, TypeOK
  <2>2. row'[e] = row[e]
    BY <1>1, <1>3 DEF Launch, Start, StartInitializing, Initialized, Started, UpdateStatus, Update, TypeOK
  <2> QED BY <1>2, <2>1, <2>2, FollowedFrame
<1>4. CASE f = e /\ Start(e)
  <2>1. /\ row[e].files /\ row[e].status \in {"prepared", "failed"} /\ UNCHANGED <<row, runs>>
        /\ drop.pc = "stopping" => e \in overtaken'
    BY <1>4 DEF Start, Startable
  <2>2. Exists(e)' /\ (Calm(e)' => runs'[e] = 0)
    BY <2>1, CalmBefore DEF Exists, Followed
  <2>3. Calm(e)' => drop'.pc # "stopping"
    BY <1>2, <2>1 DEF Calm
  <2> QED BY <2>2, <2>3, FollowedAtRest
<1>5. CASE f = e /\ starter[e].pc # "idle" /\ UNCHANGED runs
           /\ \E st \in Status \ {"none"} : UpdateStatus(e, st)
  <2>1. Calm(e)' => runs[e] = 0
    BY <1>5, CalmBefore DEF Followed
  <2> QED BY <1>1, <1>2, <1>5, <2>1, FollowedWrite
<1>6. CASE f = e /\ (StartInitializing(e) \/ Initialized(e))
  BY <1>5, <1>6 DEF StartInitializing, Initialized, Status
<1>7. CASE f = e /\ Started(e)
  <2>1. starter[e].pc = "preparing" /\ starter'[e].pc = "idle"
    BY <1>1, <1>7 DEF Started, Resting, TypeOK
  <2>2. CASE UpdateStatus(e, "failed") /\ UNCHANGED runs
    BY <1>5, <1>7, <2>1, <2>2 DEF Status
  <2>3. CASE UpdateStatus(e, "running") /\ runs' = [runs EXCEPT ![e] = @ + 1]
    <3>1. Calm(e)' => Calm(e) /\ runs[e] = 0 /\ Exists(e) /\ drop.pc # "stopping" /\ e \notin harmed'
      BY <2>1, CalmBefore DEF Followed, Calm
    <3>2. Exists(e) /\ e \notin harmed' => row'[e].status = "running"
      BY <1>1, <2>3, StatusFacts DEF Status
    <3>3. creator[e] = "done"
      BY <1>1, <2>1 DEF Facts, Stored
    <3>4. runs[e] = 0 => runs'[e] = 1
      BY <1>1, <1>7, <2>3 DEF TypeOK
    <3> QED BY <1>2, <2>1, <3>1, <3>2, <3>3, <3>4 DEF Followed
  <2>4. CASE Fault({e})
    BY <2>4 DEF Fault, Followed, Calm
  <2> QED BY <1>7, <2>2, <2>3, <2>4 DEF Started
<1> QED BY <1>3, <1>4, <1>6, <1>7 DEF Launch

\* A drop that finds RUNNING goes to the runner, and cancels once that has answered.
LEMMA HaltFollowed ==
    ASSUME IInv, NEW e \in Exps, Followed(e), NEW c \in Callers, NEW f \in Exps, Halt(c, f), Grows
    PROVE  Followed(e)'
<1>1. TypeOK /\ Facts(e) /\ runs[e] \in Nat
  BY Types DEF IInv
<1>2. UNCHANGED <<creator, starter, drop>>
  BY DEF Halt, StopReads, StopRunner, StopCancels, StopOnly
<1>3. CASE f # e
  <2>1. stopper'[<<"drop", e>>] = stopper[<<"drop", e>>]
    BY <1>1, <1>3, StopperFacts DEF Halt, StopReads, StopRunner, StopCancels
  <2>2. runs'[e] = runs[e]
    BY <1>1, <1>3 DEF Halt, StopReads, StopRunner, StopCancels, TypeOK
  <2>3. row'[e] = row[e]
    BY <1>1, <1>3 DEF Halt, StopReads, StopRunner, StopCancels, UpdateStatus, Update, TypeOK
  <2> QED BY <1>2, <2>1, <2>2, <2>3, FollowedFrame
<1>4. CASE f = e /\ StopReads(c, e)
  <2>1. UNCHANGED <<row, runs>> /\ stopper[<<c, e>>] = "begin"
    BY <1>4 DEF StopReads
  <2>2. CASE c = "user"
    <3>1. stopper'[<<"drop", e>>] = stopper[<<"drop", e>>]
      BY <1>1, <1>4, <2>2, StopperFacts DEF StopReads
    <3> QED BY <1>2, <2>1, <3>1, FollowedFrame
  <2>3. CASE c = "drop"
    <3>1. row[e].status = "running" => stopper'[<<"drop", e>>] = "runner"
      BY <1>1, <1>4, <2>3, StopperFacts DEF StopReads, Exists
    <3> QED BY <1>2, <2>1, <3>1, CalmBefore DEF Followed, Exists
  <2> QED BY <2>2, <2>3 DEF Callers
<1>5. CASE f = e /\ StopRunner(c, e)
  <2>1. UNCHANGED row
        /\ (e \in harmed' \/ runs' = [runs EXCEPT ![e] = IF @ = 0 THEN 0 ELSE @ - 1])
    BY <1>5 DEF StopRunner, Fault
  <2>2. Calm(e)' => Calm(e) /\ runs'[e] = 0
    BY <1>1, <2>1, CalmBefore DEF Followed, Calm, TypeOK
  <2> QED BY <1>2, <2>1, <2>2, FollowedAtRest DEF Followed, Exists
<1>6. CASE f = e /\ StopCancels(c, e)
  <2>1. runs' = runs /\ UpdateStatus(e, "cancelled") /\ stopper[<<c, e>>] = "cancel"
    BY <1>6 DEF StopCancels
  <2>2. runs[e] # 0 => runs[e] > 0
    BY <1>1
  <2>3. Calm(e)' => runs[e] = 0
    <3>1. CASE c = "user"
      BY <1>6, <2>2, <3>1, CalmBefore DEF StopCancels, Overwrites, Calm, Followed
    <3>2. CASE c = "drop"
      BY <1>1, <2>1, <3>2, CalmBefore DEF Facts, Followed
    <3> QED BY <3>1, <3>2 DEF Callers
  <2> QED BY <1>1, <1>2, <2>1, <2>3, FollowedWrite DEF Status
<1> QED BY <1>3, <1>4, <1>5, <1>6 DEF Halt

LEMMA DropFollowed ==
    ASSUME IInv, NEW e \in Exps, Followed(e), DropAll, Grows
    PROVE  Followed(e)'
<1>1. TypeOK /\ Facts(e) /\ (Calm(e)' => Calm(e))
  BY CalmBefore DEF IInv
<1>2. UNCHANGED <<creator, starter, runs>>
  BY DEF DropAll, DropLists, DropStops, DropRows, DropData, DropOnly
<1>3. CASE DropLists
  <2>1. /\ UNCHANGED row /\ drop'.seen[e] = row[e].status /\ (Exists(e) => e \in drop'.todo)
        /\ starter[e].pc # "idle" => e \in overtaken'
    BY <1>3 DEF DropLists
  <2>2. Calm(e)' => starter'[e].pc = "idle"
    BY <1>2, <2>1 DEF Calm
  <2> QED BY <1>1, <1>2, <2>1, <2>2 DEF Followed, Exists
<1>4. ASSUME NEW f \in Exps, DropStops(f)
      PROVE  Followed(e)'
  <2>1. drop.pc = "stopping" /\ drop'.pc = "stopping" /\ drop'.seen = drop.seen
        /\ drop'.todo = drop.todo \ {f}
    BY <1>1, <1>4 DEF DropStops, TypeOK, Drop
  <2>2. Calm(e)' => starter'[e].pc = "idle"
    BY <1>1, <1>2, <2>1 DEF Followed
  <2>3. CASE drop.seen[f] = "running" /\ StopsAt("drop", f, "begin") /\ UNCHANGED row
    <3>1. stopper'[<<"drop", e>>] = IF f = e THEN "begin" ELSE stopper[<<"drop", e>>]
      BY <1>1, <2>3, StopperFacts DEF Callers
    <3> QED BY <1>1, <1>2, <2>1, <2>2, <2>3, <3>1 DEF Followed
  <2>4. CASE drop.seen[f] # "running" /\ UNCHANGED stopper
             /\ (UpdateStatus(f, "cancelled") \/ UNCHANGED row)
    <3>1. CASE f # e
      <4>1. row'[e] = row[e]
        BY <1>1, <2>4, <3>1, StatusFacts DEF Status
      <4> QED BY <1>1, <1>2, <2>1, <2>2, <2>4, <3>1, <4>1 DEF Followed
    <3>2. CASE f = e
      BY <1>1, <1>2, <2>1, <2>2, <2>4, <3>2, FollowedAtRest DEF Followed
    <3> QED BY <3>1, <3>2
  <2> QED BY <1>4, <2>3, <2>4 DEF DropStops, Inflight
<1>5. CASE DropRows
  <2>1. drop.pc = "stopping" /\ drop.todo = {} /\ stopper[<<"drop", e>>] = "idle"
    BY <1>5 DEF DropRows
  <2>2. Calm(e) => runs[e] = 0 /\ starter[e].pc = "idle"
    BY <2>1 DEF Followed
  <2> QED BY <1>1, <1>2, <2>2, FollowedAtRest
<1>6. CASE DropData
  <2>1. UNCHANGED row /\ drop'.pc = "idle"
    BY <1>1, <1>6 DEF DropData, TypeOK, Drop
  <2> QED BY <1>1, <1>2, <2>1 DEF Followed, Exists
<1> QED BY <1>3, <1>4, <1>5, <1>6 DEF DropAll

\* No runner executes an experiment whose row drop_all_experiments has deleted, unless a fault hit
\* it, its RUNNING was overwritten while it ran, or a start of it overlapped the drop.
THEOREM NothingDroppedRuns == Spec => []DroppedStopped
<1>1. Init => AllFollowed
  <2> SUFFICES ASSUME Init, NEW e \in Exps PROVE Followed(e)
    BY DEF AllFollowed
  <2>1. runs[e] = 0 /\ starter[e].pc = "idle"
    BY DEF Init, Resting
  <2> QED BY <2>1 DEF Followed
<1>2. IInv /\ AllFollowed /\ [Next]_vars => AllFollowed'
  <2> SUFFICES ASSUME IInv, [Next]_vars, NEW e \in Exps, Followed(e) PROVE Followed(e)'
    BY DEF AllFollowed
  <2>1. Grows
    BY HistoriesGrow
  <2>2. CASE UNCHANGED vars
    BY <2>1, <2>2, FollowedFrame DEF vars
  <2>3. CASE Take \/ ConsumerEnds \/ Restart
    BY <2>1, <2>3, ConsumerFollowed
  <2>4. ASSUME NEW f \in Exps, Stop(f)
        PROVE  Followed(e)'
    <3>1. TypeOK /\ <<"drop", e>> # <<"user", f>> /\ <<"drop", e>> \in Callers \X Exps
      BY DEF IInv, Callers
    <3>2. stopper'[<<"drop", e>>] = stopper[<<"drop", e>>]
      BY <2>4, <3>1 DEF Stop, StopsAt, TypeOK
    <3> QED BY <2>1, <2>4, <3>2, FollowedFrame DEF Stop, StopOnly
  <2> QED BY <2>1, <2>2, <2>3, <2>4, CreateFollowed, HandleFollowed, LaunchFollowed, HaltFollowed,
             DropFollowed DEF Next
<1>3. IInv /\ AllFollowed => DroppedStopped
  <2> SUFFICES ASSUME IInv, NEW e \in Exps, Followed(e), ~Exists(e), runs[e] > 0
               PROVE  e \in harmed \cup overwritten \cup overtaken
    BY DEF AllFollowed, DroppedStopped, Dropped
  <2>1. runs[e] # 0
    OBVIOUS
  <2> QED BY <2>1 DEF Followed, Calm, Exists
<1> QED BY <1>1, <1>2, <1>3, Invariance, PTL DEF Spec

----------------------------------------------------------------------------
(* The safety half of Settles: nothing that waits is forgotten, and each turn of the consumer *)
(* brings it closer to its end.                                                               *)

\* Who will take an experiment out of "pending": its request, the consumer, the handler.
Awaits(e) ==
    \/ creator[e] = "ml"
    \/ creator[e] = "done" /\ \E k \in next..Len(topic) : topic[k] = e
    \/ Handles(e, {"taken"})

Awaited(e) ==
    /\ creator[e] \in {"new", "ml", "done"}
    /\ row[e].status = "pending" /\ e \notin harmed => Awaits(e)

NoneForgotten == \A e \in Exps \ Direct : Awaited(e)

\* A step that does not make an experiment pending.
KeepsPending(e) ==
    /\ harmed \subseteq harmed'
    /\ row'[e].status = "pending" => row[e].status = "pending"

LEMMA UpdateKeeps ==
    ASSUME TypeOK, NEW e \in Exps, NEW f \in Exps, NEW new \in Row, Update(f, new),
           new.status # "pending" \/ new.status = row[f].status
    PROVE  KeepsPending(e)
<1>1. row'[e] = row[e] \/ (e = f /\ row'[e] = new)
  BY UpdateFacts
<1> QED BY <1>1, UpdateFacts DEF KeepsPending

LEMMA StatusKeeps ==
    ASSUME TypeOK, NEW e \in Exps, NEW f \in Exps, NEW st \in Status \ {"none", "pending"},
           UpdateStatus(f, st)
    PROVE  KeepsPending(e)
<1>1. row'[e] = row[e] \/ (e = f /\ row'[e].status \in {row[e].status, st})
  BY StatusFacts
<1> QED BY <1>1, StatusFacts DEF KeepsPending

LEMMA FaultKeeps ==
    ASSUME NEW e \in Exps, NEW hit, Fault(hit), UNCHANGED row
    PROVE  KeepsPending(e)
BY DEF Fault, KeepsPending

\* An experiment whose request, message and handler a step leaves alone.
LEMMA AwaitedFrame ==
    ASSUME NEW e \in Exps, Awaited(e), KeepsPending(e), creator'[e] = creator[e],
           UNCHANGED <<topic, next>>, job' = job \/ ~Handles(e, {"taken"})
    PROVE  Awaited(e)'
BY DEF Awaited, Awaits, KeepsPending, Handles

LEMMA CreateAwaited ==
    ASSUME IInv, NEW e \in Exps \ Direct, Awaited(e), NEW f \in Exps, Create(f) \/ Proceed(f)
    PROVE  Awaited(e)'
<1>1. TypeOK
  BY DEF IInv
<1>2. CASE \E kind \in {"ml", "prompt", "chain"} : CreateRow(f, kind)
  <2>1. PICK kind \in {"ml", "prompt", "chain"} : CreateRow(f, kind)
    BY <1>2
  <2>2. UNCHANGED <<topic, next, job, harmed>>
    BY <2>1 DEF CreateRow, kafka, bounds
  <2>3. CASE e # f
    <3>1. row'[e] = row[e] /\ creator'[e] = creator[e]
      BY <1>1, <2>1, <2>3 DEF CreateRow, TypeOK
    <3> QED BY <2>2, <3>1, AwaitedFrame DEF KeepsPending
  <2>4. CASE e = f
    <3>1. creator'[e] = "ml"
      BY <1>1, <1>2, <2>4 DEF Create, Proceed, CreateMl, CreatePrompt, CreateChain, CreateRow, TypeOK,
                              Publish, BuildPrompt, BuildChain, RecordDirect
    <3> QED BY <3>1 DEF Awaited, Awaits
  <2> QED BY <2>3, <2>4
<1>3. CASE Publish(f)
  <2>1. UNCHANGED <<row, next, job>> /\ harmed \subseteq harmed' /\ creator' = [creator EXCEPT ![f] = "done"]
        /\ creator[f] = "ml" /\ topic \in Seq(Exps) /\ next \in 1..Len(topic) + 1
    BY <1>1, <1>3 DEF Publish, bounds, Fault, TypeOK
  <2>2. \/ topic' = Append(topic, f)
        \/ topic' = topic \o <<f, f>>
        \/ topic' = topic /\ f \in harmed'
    BY <1>3 DEF Publish, Fault
  <2>3. Len(<<f, f>>) = 2 /\ <<f, f>>[1] = f /\ <<f, f>> \in Seq(Exps)
    OBVIOUS
  <2>4. /\ \A k \in next..Len(topic) : k \in next..Len(topic') /\ topic'[k] = topic[k]
        /\ f \in harmed' \/ (Len(topic) + 1 \in next..Len(topic') /\ topic'[Len(topic) + 1] = f)
    <3>1. CASE topic' = Append(topic, f)
      BY <2>1, <3>1
    <3>2. CASE topic' = topic \o <<f, f>>
      BY <2>1, <2>3, <3>2
    <3>3. CASE topic' = topic /\ f \in harmed'
      BY <2>1, <3>3
    <3> QED BY <2>2, <3>1, <3>2, <3>3
  <2>5. CASE e # f
    <3>1. creator'[e] = creator[e]
      BY <1>1, <2>1, <2>5 DEF TypeOK
    <3> QED BY <2>1, <2>4, <3>1 DEF Awaited, Awaits, Handles
  <2>6. CASE e = f
    <3>1. creator'[e] = "done"
      BY <1>1, <2>1, <2>6 DEF TypeOK
    <3> QED BY <2>1, <2>4, <2>6, <3>1 DEF Awaited, Awaits
  <2> QED BY <2>5, <2>6
<1>4. CASE BuildPrompt(f) \/ BuildChain(f)
  <2>1. UNCHANGED <<row, topic, next, job, harmed>> /\ creator[f] \in {"prompt", "chain"}
        /\ \E c \in Creating : creator' = [creator EXCEPT ![f] = c]
    BY <1>4 DEF BuildPrompt, BuildChain, BuildDirect, kafka, bounds, Creating
  <2>2. creator'[e] = creator[e]
    BY <1>1, <2>1 DEF Awaited, TypeOK
  <2> QED BY <2>1, <2>2, AwaitedFrame DEF KeepsPending
<1>5. CASE RecordDirect(f)
  <2>1. UNCHANGED <<topic, next, job>> /\ creator[f] \in {"uploaded", "preparation_failed", "failed"}
        /\ creator' = [creator EXCEPT ![f] = "done"]
    BY <1>5 DEF RecordDirect, kafka
  <2>2. creator'[e] = creator[e]
    BY <1>1, <2>1 DEF Awaited, TypeOK
  <2>3. [status |-> "prepared", files |-> TRUE, path |-> "prefix"] \in Row
    BY DEF Row, Status, Paths
  <2>4. KeepsPending(e)
    BY <1>1, <1>5, <2>3, UpdateKeeps, StatusKeeps DEF RecordDirect, Status
  <2> QED BY <2>1, <2>2, <2>4, AwaitedFrame
<1> QED BY <1>2, <1>3, <1>4, <1>5 DEF Create, Proceed, CreateMl, CreatePrompt, CreateChain

LEMMA ConsumerAwaited ==
    ASSUME IInv, NEW e \in Exps \ Direct, Awaited(e), Take \/ Handle \/ ConsumerEnds \/ Restart
    PROVE  Awaited(e)'
<1>1. TypeOK
  BY DEF IInv
<1>2. CASE Take
  <2>1. UNCHANGED <<row, creator, topic, harmed>> /\ next' = next + 1 /\ job.pc = "idle"
    BY <1>2 DEF Take, bounds
  <2>2. next \in 1..Len(topic) /\ topic \in Seq(Exps) /\ Len(topic) \in Nat
    BY <1>1, <1>2 DEF Take, TypeOK
  <2>3. ~Handles(e, {"taken"})
    BY <2>1 DEF Handles
  <2>4. topic[next] = e /\ Exists(e) => Handles(e, {"taken"})'
    BY <1>2 DEF Take, Handles
  <2>5. \A k \in next..Len(topic) : k = next \/ k \in next + 1..Len(topic)
    BY <2>2
  <2> QED BY <2>1, <2>3, <2>4, <2>5 DEF Awaited, Awaits, Exists
<1>3. CASE Initialize
  <2>1. job.exp \in Exps /\ job.pc = "taken"
    BY <1>3, InHand DEF Initialize
  <2>2. UNCHANGED <<creator, topic, next>>
    BY <1>3 DEF Initialize, HandlerOnly, kafka
  <2>3. KeepsPending(e)
    BY <1>1, <1>3, <2>1, StatusKeeps DEF Initialize, Status
  <2>4. CASE job.exp # e
    BY <2>2, <2>3, <2>4, AwaitedFrame DEF Handles
  <2>5. CASE job.exp = e
    <3>1. (row[e].status = "none") <=> (row'[e].status = "none")
      BY <1>1, <1>3, <2>1, <2>5, StatusFacts DEF Initialize, Status
    <3>2. e \notin harmed' /\ Exists(e) => row'[e].status = "initializing"
      BY <1>1, <1>3, <2>1, <2>5, StatusFacts DEF Initialize, Status
    <3> QED BY <2>2, <3>1, <3>2 DEF Awaited, Exists
  <2> QED BY <2>4, <2>5
<1>4. CASE BuildFiles \/ RecordFiles \/ RecordPath \/ RecordStatus \/ RecordFailure
  <2>1. job.pc \notin {"idle", "taken"} /\ UNCHANGED <<creator, topic, next>>
    BY <1>4 DEF BuildFiles, RecordFiles, RecordPath, RecordStatus, RecordFailure, HandlerOnly, kafka
  <2>2. job.exp \in Exps
    BY <2>1, InHand
  <2>3. row[job.exp] \in Row
    BY <1>1, <2>2 DEF TypeOK
  <2>4. KeepsPending(e)
    <3>1. CASE BuildFiles
      BY <3>1 DEF BuildFiles, bounds, KeepsPending
    <3>2. CASE RecordFiles
      <4> DEFINE new == [row[job.exp] EXCEPT !.status = "prepared", !.files = TRUE]
      <4>1. new \in Row /\ new.status = "prepared"
        BY <2>3 DEF Row, Status
      <4>2. Update(job.exp, new) \/ (Fault({}) /\ UNCHANGED row)
        BY <3>2 DEF RecordFiles
      <4> HIDE DEF new
      <4> QED BY <1>1, <2>2, <4>1, <4>2, UpdateKeeps, FaultKeeps
    <3>3. CASE RecordPath
      <4> DEFINE new == [row[job.exp] EXCEPT !.path = "prefix"]
      <4>1. new \in Row /\ new.status = row[job.exp].status
        BY <2>3 DEF Row, Paths
      <4>2. Update(job.exp, new)
        BY <3>3 DEF RecordPath
      <4> HIDE DEF new
      <4> QED BY <1>1, <2>2, <4>1, <4>2, UpdateKeeps
    <3>4. CASE RecordStatus \/ RecordFailure
      BY <1>1, <2>2, <3>4, StatusKeeps DEF RecordStatus, RecordFailure, Status
    <3> QED BY <1>4, <3>1, <3>2, <3>3, <3>4
  <2> QED BY <2>1, <2>4, AwaitedFrame DEF Handles
<1>5. CASE ConsumerEnds
  <2>1. UNCHANGED <<row, creator, topic, next, job>> /\ harmed \subseteq harmed'
    BY <1>5 DEF ConsumerEnds, Fault
  <2> QED BY <2>1, AwaitedFrame DEF KeepsPending
<1>6. CASE Restart
  <2>1. /\ UNCHANGED <<row, topic>> /\ harmed' = harmed \cup InFlight \cup Skipped(next')
        /\ creator'[e] = IF creator[e] = "new" THEN "new" ELSE "done"
        /\ topic \in Seq(Exps) /\ next \in 1..Len(topic) + 1 /\ next' \in 1..Len(topic) + 1
    BY <1>1, <1>6 DEF Restart, Fault, TypeOK
  <2>2. SUFFICES ASSUME row[e].status = "pending", e \notin harmed'
                 PROVE  Awaits(e)'
    BY <2>1 DEF Awaited
  <2>3. creator[e] \in {"new", "done"} /\ job.exp # e /\ e \notin Skipped(next')
    BY <2>1, <2>2 DEF InFlight
  <2>4. creator[e] = "done" /\ \E k \in next..Len(topic) : topic[k] = e
    BY <2>1, <2>2, <2>3 DEF Awaited, Awaits, Handles
  <2>5. PICK k \in next..Len(topic) : topic[k] = e
    BY <2>4
  <2>6. k \in next'..Len(topic)
    BY <2>1, <2>3, <2>5 DEF Skipped
  <2> QED BY <2>1, <2>4, <2>5, <2>6 DEF Awaits
<1> QED BY <1>2, <1>3, <1>4, <1>5, <1>6 DEF Handle

LEMMA UsersAwaited ==
    ASSUME IInv, NEW e \in Exps \ Direct, Awaited(e),
           \/ DropAll
           \/ \E f \in Exps : Launch(f) \/ Stop(f) \/ \E c \in Callers : Halt(c, f)
    PROVE  Awaited(e)'
<1>1. TypeOK
  BY DEF IInv
<1>2. UNCHANGED <<creator, topic, next, job>>
  BY DEF DropAll, DropLists, DropStops, DropRows, DropData, DropOnly, Launch, Start, StartInitializing,
         Initialized, Started, StartOnly, Stop, Halt, StopReads, StopRunner, StopCancels, StopOnly, kafka
<1>3. ASSUME UNCHANGED row, UNCHANGED bounds \/ Request \/ \E hit \in SUBSET Exps : Fault(hit)
      PROVE  KeepsPending(e)
  BY <1>3 DEF KeepsPending, bounds, Request, Fault
<1>4. ASSUME DropAll
      PROVE  KeepsPending(e)
  <2>1. CASE DropLists \/ DropData
    BY <1>3, <2>1 DEF DropLists, DropData
  <2>2. ASSUME NEW f \in Exps, DropStops(f)
        PROVE  KeepsPending(e)
    BY <1>1, <1>3, <2>2, StatusKeeps DEF DropStops, Status
  <2>3. CASE DropRows
    <3>1. CASE row' = [f \in Exps |-> [status |-> "none", files |-> FALSE, path |-> "data"]]
               /\ UNCHANGED bounds
      BY <3>1 DEF KeepsPending, bounds
    <3> QED BY <1>3, <2>3, <3>1 DEF DropRows
  <2> QED BY <1>4, <2>1, <2>2, <2>3 DEF DropAll
<1>5. ASSUME NEW f \in Exps, Launch(f)
      PROVE  KeepsPending(e)
  <2>1. CASE Start(f)
    BY <1>3, <2>1 DEF Start
  <2>2. CASE StartInitializing(f) \/ Initialized(f)
    BY <1>1, <2>2, StatusKeeps DEF StartInitializing, Initialized, Status
  <2>3. CASE Started(f)
    <3>1. CASE /\ Fault({f})
               /\ row' = IF Exists(f) THEN [row EXCEPT ![f].status = "failed"] ELSE row
      <4>1. row'[e] = row[e] \/ row'[e].status = "failed"
        BY <1>1, <3>1 DEF TypeOK, Row
      <4> QED BY <3>1, <4>1 DEF KeepsPending, Fault
    <3> QED BY <1>1, <2>3, <3>1, StatusKeeps DEF Started, Status
  <2> QED BY <1>5, <2>1, <2>2, <2>3 DEF Launch
<1>6. ASSUME NEW f \in Exps, Stop(f) \/ \E c \in Callers : Halt(c, f)
      PROVE  KeepsPending(e)
  <2>1. CASE Stop(f)
    BY <1>3, <2>1 DEF Stop
  <2>2. ASSUME NEW c \in Callers, StopReads(c, f) \/ StopRunner(c, f)
        PROVE  KeepsPending(e)
    BY <1>3, <2>2 DEF StopReads, StopRunner
  <2>3. ASSUME NEW c \in Callers, StopCancels(c, f)
        PROVE  KeepsPending(e)
    BY <1>1, <2>3, StatusKeeps DEF StopCancels, Status
  <2> QED BY <1>6, <2>1, <2>2, <2>3 DEF Halt
<1> QED BY <1>2, <1>4, <1>5, <1>6, AwaitedFrame

\* As long as no fault hits it, an experiment that POST /ml left pending has a message ahead of
\* the consumer, or in the hands of the handler.
THEOREM NothingForgotten == Spec => []NoneForgotten
<1>1. Init => NoneForgotten
  <2> SUFFICES ASSUME Init, NEW e \in Exps \ Direct PROVE Awaited(e)
    BY DEF NoneForgotten
  <2>1. creator[e] = "new" /\ row[e].status = "none"
    BY DEF Init
  <2> QED BY <2>1 DEF Awaited
<1>2. IInv /\ NoneForgotten /\ [Next]_vars => NoneForgotten'
  <2> SUFFICES ASSUME IInv, [Next]_vars, NEW e \in Exps \ Direct, Awaited(e)
               PROVE  Awaited(e)'
    BY DEF NoneForgotten
  <2>1. CASE UNCHANGED vars
    BY <2>1 DEF vars, kafka, bounds, Awaited, Awaits, Handles
  <2>2. CASE Take \/ Handle \/ ConsumerEnds \/ Restart
    BY <2>2, ConsumerAwaited
  <2>3. ASSUME NEW f \in Exps, Create(f) \/ Proceed(f)
        PROVE  Awaited(e)'
    BY <2>3, CreateAwaited
  <2>4. CASE \/ DropAll
             \/ \E f \in Exps : Launch(f) \/ Stop(f) \/ \E c \in Callers : Halt(c, f)
    BY <2>4, UsersAwaited
  <2> QED BY <2>1, <2>2, <2>3, <2>4 DEF Next
<1> QED BY <1>1, <1>2, Invariance, PTL DEF Spec

\* How many steps of the consumer a message is from the end of its handler, at most.
Left == [idle |-> 0, status |-> 1, raised |-> 1, path |-> 2, failed |-> 2, uploaded |-> 3,
         build |-> 4, taken |-> 5]
Distance(k) == 6 * (k + 1 - next) + Left[job.pc]

\* Every step of the consumer and its handler brings the message in hand and those ahead closer to
\* their end, faults or not; only a restart of the process sets them back or drops them.
MessagesAdvance ==
    [][~Restart =>
          \A k \in 1..Len(topic) : k >= next - 1 =>
              /\ topic'[k] = topic[k]
              /\ Distance(k) \in Nat
              /\ IF Take \/ Handle THEN Distance(k)' < Distance(k) ELSE Distance(k)' = Distance(k)]_vars

LEMMA HandleCloser ==
    ASSUME IInv, Handle
    PROVE  Left[job'.pc] < Left[job.pc]
<1>1. job.pc # "idle"
  BY DEF Handle, Initialize, BuildFiles, RecordFiles, RecordPath, RecordStatus, RecordFailure
<1>2. job \in Job
  BY <1>1, InHand
<1>3. \/ job.pc = "taken" /\ Goes("build")
      \/ job.pc = "build" /\ (Goes("uploaded") \/ Goes("failed") \/ Goes("raised"))
      \/ job.pc = "uploaded" /\ (Goes("path") \/ Goes("failed"))
      \/ job.pc = "path" /\ Goes("status")
      \/ job.pc = "failed" /\ Goes("raised")
      \/ job.pc \in {"status", "raised"} /\ Done
  BY DEF Handle, Initialize, BuildFiles, RecordFiles, RecordPath, RecordStatus, RecordFailure
<1>4. \/ job.pc = "taken" /\ job'.pc = "build"
      \/ job.pc = "build" /\ job'.pc \in {"uploaded", "failed", "raised"}
      \/ job.pc = "uploaded" /\ job'.pc \in {"path", "failed"}
      \/ job.pc = "path" /\ job'.pc = "status"
      \/ job.pc = "failed" /\ job'.pc = "raised"
      \/ job.pc \in {"status", "raised"} /\ job'.pc = "idle"
  BY <1>2, <1>3, GoesFacts DEF Done, NoJob
<1> QED BY <1>4 DEF Left

\* The consumer takes the messages in their order and every handler ends.
THEOREM ConsumerAdvances == Spec => MessagesAdvance
<1>1. ASSUME IInv, [Next]_vars, ~Restart, NEW k \in 1..Len(topic), k >= next - 1
      PROVE  /\ topic'[k] = topic[k]
             /\ Distance(k) \in Nat
             /\ IF Take \/ Handle THEN Distance(k)' < Distance(k) ELSE Distance(k)' = Distance(k)
  <2>1. /\ topic \in Seq(Exps) /\ next \in 1..Len(topic) + 1 /\ Len(topic) \in Nat
        /\ job.pc \in {"idle", "taken", "build", "uploaded", "path", "status", "failed", "raised"}
    BY <1>1 DEF IInv, TypeOK, Job
  <2>2. Left[job.pc] \in 0..5
    BY <2>1 DEF Left
  <2>3. k \in Nat /\ next \in Nat
    BY <2>1
  <2>4. Distance(k) \in Nat
    BY <1>1, <2>1, <2>2, <2>3 DEF Distance
  <2>5. CASE Take
    <3>1. topic' = topic /\ next' = next + 1 /\ job.pc = "idle" /\ job'.pc \in {"idle", "taken"}
      BY <2>5 DEF Take, NoJob
    <3>2. Left[job'.pc] \in 0..5 /\ Left[job.pc] = 0
      BY <3>1 DEF Left
    <3>3. 6 * (k + 1 - next') + Left[job'.pc] < 6 * (k + 1 - next) + Left[job.pc]
      BY <2>3, <3>1, <3>2
    <3> QED BY <2>4, <2>5, <3>1, <3>3 DEF Distance
  <2>6. CASE Handle
    <3>1. UNCHANGED <<topic, next>>
      BY <2>6 DEF Handle, Initialize, BuildFiles, RecordFiles, RecordPath, RecordStatus, RecordFailure,
                  HandlerOnly, kafka
    <3>2. Left[job'.pc] < Left[job.pc]
      BY <1>1, <2>6, HandleCloser
    <3>3. Left[job'.pc] \in Int
      <4>1. TypeOK'
        BY <1>1, TypeStep
      <4> QED BY <4>1 DEF TypeOK, Job, Left
    <3>4. 6 * (k + 1 - next') + Left[job'.pc] < 6 * (k + 1 - next) + Left[job.pc]
      BY <2>2, <2>3, <3>1, <3>2, <3>3
    <3> QED BY <2>4, <2>6, <3>1, <3>4 DEF Distance
  <2>7. CASE ~(Take \/ Handle)
    <3>1. UNCHANGED <<next, job>>
      BY <1>1, <2>7 DEF Next, vars, kafka, ConsumerEnds, DropAll, DropLists, DropStops, DropRows, DropData,
         DropOnly, Create, CreateMl, CreatePrompt, CreateChain, CreateRow, Proceed, Publish, BuildPrompt,
         BuildChain, BuildDirect, RecordDirect, Launch, Start, StartInitializing, Initialized, Started,
         StartOnly, Stop, Halt, StopReads, StopRunner, StopCancels, StopOnly
    <3>2. topic' = topic \/ \E f \in Exps : topic' = Append(topic, f) \/ topic' = topic \o <<f, f>>
      BY <1>1, <2>7 DEF Next, vars, kafka, ConsumerEnds, DropAll, DropLists, DropStops, DropRows, DropData,
         DropOnly, Create, CreateMl, CreatePrompt, CreateChain, CreateRow, Proceed, Publish, BuildPrompt,
         BuildChain, BuildDirect, RecordDirect, Launch, Start, StartInitializing, Initialized, Started,
         StartOnly, Stop, Halt, StopReads, StopRunner, StopCancels, StopOnly
    <3>3. topic'[k] = topic[k]
      <4>1. ASSUME NEW f \in Exps, topic' = topic \o <<f, f>>
            PROVE  topic'[k] = topic[k]
        <5>1. <<f, f>> \in Seq(Exps)
          OBVIOUS
        <5> QED BY <2>1, <4>1, <5>1
      <4>2. ASSUME NEW f \in Exps, topic' = Append(topic, f)
            PROVE  topic'[k] = topic[k]
        BY <2>1, <4>2
      <4> QED BY <3>2, <4>1, <4>2
    <3> QED BY <2>4, <2>7, <3>1, <3>3 DEF Distance
  <2> QED BY <2>5, <2>6, <2>7
<1>2. IInv /\ [Next]_vars =>
        [~Restart =>
            \A k \in 1..Len(topic) : k >= next - 1 =>
                /\ topic'[k] = topic[k]
                /\ Distance(k) \in Nat
                /\ IF Take \/ Handle THEN Distance(k)' < Distance(k)
                   ELSE Distance(k)' = Distance(k)]_vars
  BY <1>1
<1> QED BY <1>2, Invariance, PTL DEF Spec, MessagesAdvance

=============================================================================
