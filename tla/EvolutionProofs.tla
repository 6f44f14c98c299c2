---------------------------- MODULE EvolutionProofs ----------------------------
(***************************************************************************)
(* The safety properties of Evolution, for any number of individuals,      *)
(* chains, concurrent requests and streams, any queue size, any values of  *)
(* the evaluations and any number of faults.                               *)
(***************************************************************************)
EXTENDS Evolution, EventBusProofs

Writers == Individuals \cup {Other}

----------------------------------------------------------------------------
(* The inductive invariant. *)

\* What a request carries: it names an individual that is stored and, for an accept, a chain;
\* an accept began before another individual was accepted; the version it found or wrote is
\* there, and one it is about to write over does not repeat its individual.
CallOK(c) ==
    /\ call[c].pc # "idle" =>
          /\ call[c].ind \in Individuals /\ individual[call[c].ind].stored
          /\ call[c].seen.status # None
          /\ call[c].seen.status = "accepted" => record.accepted # None
    /\ call[c].pc \notin {"idle", "saving"} =>
          /\ call[c].chain \in Chains
          /\ call[c].seen.status = "accepted" => call[c].seen.accepted = None
    /\ call[c].pc \in {"versions", "put"} => call[c].etag <= Len(versions[call[c].chain])
    /\ call[c].pc = "put" /\ call[c].etag = Len(versions[call[c].chain]) =>
          versions[call[c].chain][call[c].etag] # call[c].ind
    /\ call[c].pc = "promoted" =>
          /\ call[c].version \in 1..Len(versions[call[c].chain])
          /\ versions[call[c].chain][call[c].version] = call[c].ind

\* An accepted record names its individual, a flagged individual is stored, and no chain is
\* without a version.
RecordOK ==
    /\ record.status = "accepted" => record.accepted # None
    /\ \A i \in Individuals : individual[i].accepted => individual[i].stored
    /\ \A k \in Chains : Len(versions[k]) >= 1

\* The best individual has been stored with a score.
BestOK ==
    ~raced /\ record.accepted = None /\ record.best # None =>
        individual[record.best].stored /\ individual[record.best].score # None

\* Every client that has missed nothing will know the record.
Informed ==
    \A s \in Streams : Follows(s) =>
        /\ Knows(s, "status", record.status)
        /\ Knows(s, "accepted", record.accepted)
        /\ record.accepted = None => Knows(s, "best", record.best)

Core ==
    /\ EvolutionTypeOK
    /\ \A c \in Calls : CallOK(c)
    /\ RecordOK /\ AcceptanceRecorded /\ PromotedOnce
    /\ BestOK /\ BestIsBest

IInv == Core /\ BusInv /\ Informed

----------------------------------------------------------------------------
(* Facts the steps share. *)

LEMMA Values ==
    /\ Statuses = EvolutionStatus /\ Named = Individuals \cup {None}
    /\ None \notin Individuals /\ None \notin Chains /\ None \notin Nat /\ None \notin EvolutionStatus
    /\ Other \notin Individuals
    /\ \A x \in Evaluations : x[1] \in Nat /\ x[2] \in Nat \cup {None}
BY EvolutionAssumption, BusAssumption

LEMMA SaysType ==
    ASSUME NEW st \in EvolutionStatus \cup {None}, NEW b \in Individuals \cup {None},
           NEW a \in Individuals \cup {None}
    PROVE  /\ Says(st, b, a) \in View
           /\ Says(st, b, a)["status"] = st /\ Says(st, b, a)["best"] = b
           /\ Says(st, b, a)["accepted"] = a
BY Values DEF Says, View

LEMMA IdleType == Idle \in Call /\ NewRecord \in Record
BY Values DEF Idle, Call, Waits, NewRecord, Record

\* The fields of the record and of a request.
LEMMA RecordType ==
    ASSUME EvolutionTypeOK
    PROVE  /\ record.status \in EvolutionStatus \cup {None} /\ record.generation \in Nat
           /\ record.best \in Individuals \cup {None} /\ record.accepted \in Individuals \cup {None}
           /\ record.chain \in Chains \cup {None} /\ record.version \in Nat
BY DEF EvolutionTypeOK, Record

LEMMA CallType ==
    ASSUME EvolutionTypeOK, NEW c \in Calls
    PROVE  /\ call[c] \in Call /\ call[c].pc \in Waits /\ call[c].seen \in Record
           /\ call[c].ind \in Individuals \cup {None} /\ call[c].chain \in Chains \cup {None}
           /\ call[c].etag \in Nat /\ call[c].version \in Nat
           /\ call[c].seen.status \in EvolutionStatus \cup {None}
           /\ call[c].seen.generation \in Nat
           /\ call[c].seen.best \in Individuals \cup {None}
           /\ call[c].seen.accepted \in Individuals \cup {None}
BY DEF EvolutionTypeOK, Call, Record

LEMMA IndividualType ==
    ASSUME EvolutionTypeOK, NEW i \in Individuals
    PROVE  /\ individual[i] \in Individual /\ individual[i].stored \in BOOLEAN
           /\ individual[i].accepted \in BOOLEAN /\ individual[i].generation \in Nat
           /\ individual[i].score \in Nat \cup {None}
BY DEF EvolutionTypeOK, Individual

\* A new version leaves the older ones as they are.
LEMMA NewVersionFacts ==
    ASSUME EvolutionTypeOK, NEW k \in Chains, NEW w \in Writers, NewVersion(k, w)
    PROVE  /\ versions' \in [Chains -> Seq(Writers)]
           /\ Len(versions'[k]) = Len(versions[k]) + 1
           /\ versions'[k][Len(versions[k]) + 1] = w
           /\ \A j \in Chains \ {k} : versions'[j] = versions[j]
           /\ \A n \in 1..Len(versions[k]) : versions'[k][n] = versions[k][n]
<1>1. versions \in [Chains -> Seq(Writers)]
  BY DEF EvolutionTypeOK, Writers
<1>2. /\ Append(versions[k], w) \in Seq(Writers)
      /\ Len(Append(versions[k], w)) = Len(versions[k]) + 1
      /\ Append(versions[k], w)[Len(versions[k]) + 1] = w
      /\ \A n \in 1..Len(versions[k]) : Append(versions[k], w)[n] = versions[k][n]
  BY <1>1
<1>3. versions' = [versions EXCEPT ![k] = Append(@, w)]
  BY DEF NewVersion
<1> QED BY <1>1, <1>2, <1>3

\* The versions have only grown.
Grown ==
    \A k \in Chains : /\ Len(versions[k]) <= Len(versions'[k])
                      /\ \A n \in 1..Len(versions[k]) : versions'[k][n] = versions[k][n]

LEMMA VersionsGrow ==
    ASSUME EvolutionTypeOK,
           \/ versions' = versions
           \/ \E k \in Chains, w \in Writers : NewVersion(k, w)
    PROVE  Grown /\ versions' \in [Chains -> Seq(Writers)]
<1>1. versions \in [Chains -> Seq(Writers)]
  BY DEF EvolutionTypeOK, Writers
<1>2. CASE versions' = versions
  BY <1>1, <1>2 DEF Grown
<1>3. ASSUME NEW k \in Chains, NEW w \in Writers, NewVersion(k, w)
      PROVE  Grown /\ versions' \in [Chains -> Seq(Writers)]
  <2>1. /\ versions' \in [Chains -> Seq(Writers)]
        /\ Len(versions'[k]) = Len(versions[k]) + 1 /\ Len(versions[k]) \in Nat
        /\ \A j \in Chains \ {k} : versions'[j] = versions[j]
        /\ \A n \in 1..Len(versions[k]) : versions'[k][n] = versions[k][n]
    BY <1>1, <1>3, NewVersionFacts
  <2>2. ASSUME NEW j \in Chains
        PROVE  /\ Len(versions[j]) <= Len(versions'[j])
               /\ \A n \in 1..Len(versions[j]) : versions'[j][n] = versions[j][n]
    <3>1. Len(versions[j]) \in Nat
      BY <1>1
    <3>2. CASE j = k
      BY <2>1, <3>2
    <3>3. CASE j # k
      BY <2>1, <3>1, <3>3
    <3> QED BY <3>2, <3>3
  <2> QED BY <2>1, <2>2 DEF Grown
<1> QED BY <1>2, <1>3

\* What a request carries stays right while it does not move, the individuals stay stored,
\* the record stays accepted and the versions only grow.
LEMMA CallKept ==
    ASSUME EvolutionTypeOK, RecordOK, NEW c \in Calls, CallOK(c), call'[c] = call[c], Grown,
           \A i \in Individuals : individual[i].stored => individual'[i].stored,
           record.accepted # None => record'.accepted # None
    PROVE  CallOK(c)'
<1>1. /\ call[c].chain \in Chains \cup {None} /\ call[c].etag \in Nat /\ call[c].version \in Nat
  BY CallType
<1>2. CASE call[c].chain \in Chains
  <2>1. /\ Len(versions[call[c].chain]) \in Nat
        /\ Len(versions[call[c].chain]) >= 1
        /\ Len(versions[call[c].chain]) <= Len(versions'[call[c].chain])
        /\ \A n \in 1..Len(versions[call[c].chain]) :
              versions'[call[c].chain][n] = versions[call[c].chain][n]
    BY <1>2 DEF Grown, EvolutionTypeOK, RecordOK
  <2> QED BY <1>1, <2>1 DEF CallOK
<1>3. CASE call[c].chain \notin Chains
  <2>1. call[c].pc \in {"idle", "saving"}
    BY <1>3 DEF CallOK
  <2> QED BY <2>1 DEF CallOK
<1> QED BY <1>2, <1>3

\* What holds of the record goes on holding while it, the individuals and the recordings under
\* way stay as they are.
LEMMA RecordKept ==
    ASSUME Core, UNCHANGED <<record, individual, raced>>, Grown, versions' \in [Chains -> Seq(Writers)],
           \A c \in Calls : call[c].pc = "saving" => call'[c] = call[c]
    PROVE  RecordOK' /\ AcceptanceRecorded' /\ BestOK' /\ BestIsBest'
<1>1. EvolutionTypeOK /\ RecordOK /\ AcceptanceRecorded /\ BestOK /\ BestIsBest
  BY DEF Core
<1>2. \A k \in Chains : Len(versions[k]) \in Nat /\ Len(versions'[k]) \in Nat
  BY <1>1 DEF EvolutionTypeOK
<1>3. RecordOK'
  BY <1>1, <1>2 DEF RecordOK, Grown
<1>4. AcceptanceRecorded'
  BY <1>1, <1>2 DEF AcceptanceRecorded, Grown
<1>5. \A i \in Individuals : Settled(i)' => Settled(i)
  BY DEF Settled
<1>6. BestOK' /\ BestIsBest'
  BY <1>1, <1>5 DEF BestOK, BestIsBest
<1> QED BY <1>3, <1>4, <1>6

\* A step that is not a request's, with the versions as they are.
LEMMA NoRequestMoves ==
    ASSUME Core, UNCHANGED <<evolution, call, raced>>, bounds' = bounds \/ Request
    PROVE  Core'
<1>1. Grown /\ versions' \in [Chains -> Seq(Writers)]
  BY VersionsGrow DEF Core, evolution
<1>2. EvolutionTypeOK'
  BY EvolutionAssumption DEF Core, EvolutionTypeOK, evolution, bounds, Request
<1>3. \A c \in Calls : CallOK(c)'
  BY <1>1, CallKept DEF Core, evolution
<1>4. PromotedOnce'
  BY DEF Core, evolution, PromotedOnce
<1> QED BY <1>1, <1>2, <1>3, <1>4, RecordKept DEF Core, evolution

\* create_evolution and the controls write a status that accepts nothing.
LEMMA StatusStep ==
    ASSUME Core, NEW to \in {"queued", "cancelled", "paused", "running"},
           record' = [record EXCEPT !.status = to], UNCHANGED <<individual, versions, call, raced>>,
           Request
    PROVE  Core'
<1>1. EvolutionTypeOK /\ record \in Record /\ to \in EvolutionStatus
  BY DEF Core, EvolutionTypeOK, EvolutionStatus
<1>2. /\ record' \in Record /\ record'.status = to /\ record'.accepted = record.accepted
      /\ record'.best = record.best /\ record'.chain = record.chain
      /\ record'.version = record.version
  BY <1>1 DEF Record
<1>3. EvolutionTypeOK'
  BY <1>1, <1>2, EvolutionAssumption DEF EvolutionTypeOK, Request
<1>4. \A c \in Calls : CallOK(c)'
  BY <1>1, <1>2, CallKept, VersionsGrow DEF Core
<1>5. RecordOK' /\ AcceptanceRecorded' /\ PromotedOnce'
  BY <1>2 DEF Core, RecordOK, AcceptanceRecorded, PromotedOnce
<1>6. BestOK' /\ BestIsBest'
  BY <1>2 DEF Core, BestOK, BestIsBest, Settled
<1> QED BY <1>3, <1>4, <1>5, <1>6 DEF Core

----------------------------------------------------------------------------
(* record_individual. *)

LEMMA RecordBeginStep ==
    ASSUME Core, NEW c \in Calls, NEW i \in Individuals, NEW x \in Evaluations, RecordBegin(c, i, x)
    PROVE  Core'
<1> DEFINE new == [stored |-> TRUE, generation |-> x[1], score |-> x[2], accepted |-> FALSE]
           mine == [Idle EXCEPT !.pc = "saving", !.seen = record, !.ind = i]
<1>1. /\ EvolutionTypeOK /\ Request /\ record.status # None /\ call[c].pc = "idle"
      /\ ~individual[i].stored
      /\ individual' = [individual EXCEPT ![i] = new] /\ call' = [call EXCEPT ![c] = mine]
      /\ UNCHANGED <<record, versions, raced>>
  BY DEF Core, RecordBegin, Exists
<1>2. new \in Individual /\ mine \in Call
  BY <1>1, Values, IdleType, RecordType DEF Individual, EvolutionTypeOK, Call, Waits, Idle
<1>3. /\ individual' \in [Individuals -> Individual] /\ call' \in [Calls -> Call]
      /\ individual'[i].stored /\ ~individual'[i].accepted
      /\ \A j \in Individuals \ {i} : individual'[j] = individual[j]
      /\ call'[c].pc = "saving" /\ call'[c].seen = record /\ call'[c].ind = i
      /\ \A d \in Calls \ {c} : call'[d] = call[d]
  BY <1>1, <1>2 DEF EvolutionTypeOK, Idle
<1>4. EvolutionTypeOK'
  BY <1>1, <1>3, EvolutionAssumption DEF EvolutionTypeOK, Request
<1>5. \A d \in Calls : CallOK(d)'
  <2>1. CallOK(c)'
    BY <1>1, <1>3 DEF CallOK, Core, RecordOK
  <2>2. Grown
    BY <1>1, VersionsGrow
  <2>3. \A j \in Individuals : individual[j].stored => individual'[j].stored
    BY <1>3
  <2>4. ASSUME NEW d \in Calls \ {c} PROVE CallOK(d)'
    BY <1>1, <1>3, <2>2, <2>3, CallKept DEF Core
  <2> QED BY <2>1, <2>4
<1>6. RecordOK' /\ AcceptanceRecorded' /\ PromotedOnce'
  BY <1>1, <1>3, RecordType DEF Core, RecordOK, AcceptanceRecorded, PromotedOnce
<1>7. BestOK' /\ BestIsBest'
  <2>1. \A j \in Individuals : Settled(j)' => j # i /\ Settled(j)
    <3> SUFFICES ASSUME NEW j \in Individuals, Settled(j)' PROVE j # i /\ Settled(j)
      OBVIOUS
    <3>1. j # i
      BY <1>3 DEF Settled
    <3>2. \A d \in Calls : ~(call[d].pc = "saving" /\ call[d].ind = j)
      BY <1>1, <1>3 DEF Settled
    <3> QED BY <1>3, <3>1, <3>2 DEF Settled
  <2>2. ~raced /\ record.accepted = None /\ record.best # None => record.best \in Individuals \ {i}
    BY <1>1, RecordType DEF Core, BestOK
  <2> QED BY <1>1, <1>3, <2>1, <2>2 DEF Core, BestOK, BestIsBest
<1> QED BY <1>4, <1>5, <1>6, <1>7 DEF Core

LEMMA RecordFinishStep ==
    ASSUME Core, NEW c \in Calls, RecordFinish(c)
    PROVE  Core'
<1> DEFINE seen == call[c].seen
           i == call[c].ind
           better == Improves(i, seen.best)
           later == individual[i].generation > seen.generation
<1>1. /\ EvolutionTypeOK /\ CallOK(c) /\ call[c].pc = "saving" /\ call' = [call EXCEPT ![c] = Idle]
      /\ raced' = (raced \/ seen.best # record.best)
      /\ IF better \/ later
         THEN record' = Updated(seen.status,
                                IF later THEN individual[i].generation ELSE record.generation,
                                IF better THEN i ELSE record.best)
         ELSE record' = record
      /\ UNCHANGED <<individual, versions, requests, faults>>
  BY DEF Core, RecordFinish, Persist, bounds
<1>2. /\ i \in Individuals /\ individual[i].stored /\ seen.status \in EvolutionStatus
      /\ seen.status = "accepted" => record.accepted # None
  BY <1>1, CallType DEF CallOK
<1>3. /\ record' \in Record /\ record'.accepted = record.accepted /\ record'.chain = record.chain
      /\ record'.version = record.version /\ record'.status \in {record.status, seen.status}
      /\ record'.best = IF better THEN i ELSE record.best
  BY <1>1, <1>2, RecordType, IndividualType DEF EvolutionTypeOK, Record, Updated
<1>4. /\ call' \in [Calls -> Call] /\ call'[c].pc = "idle"
      /\ \A d \in Calls \ {c} : call'[d] = call[d]
  BY <1>1, IdleType DEF EvolutionTypeOK, Idle
<1>5. raced' \in BOOLEAN
  BY <1>1 DEF EvolutionTypeOK
<1>6. EvolutionTypeOK'
  BY <1>1, <1>3, <1>4, <1>5 DEF EvolutionTypeOK
<1>7. \A d \in Calls : CallOK(d)'
  <2>1. CallOK(c)'
    BY <1>4 DEF CallOK
  <2>2. ASSUME NEW d \in Calls \ {c} PROVE CallOK(d)'
    BY <1>1, <1>3, <1>4, CallKept, VersionsGrow DEF Core
  <2> QED BY <2>1, <2>2
<1>8. RecordOK' /\ AcceptanceRecorded' /\ PromotedOnce'
  BY <1>1, <1>2, <1>3 DEF Core, RecordOK, AcceptanceRecorded, PromotedOnce
<1>9. BestOK' /\ BestIsBest'
  <2> SUFFICES ASSUME ~raced', record'.accepted = None PROVE BestOK' /\ BestIsBest'
    BY DEF BestOK, BestIsBest
  <2>1. /\ ~raced /\ record.accepted = None /\ seen.best = record.best
        /\ record.best \in Individuals \cup {None}
    BY <1>1, <1>3, RecordType
  <2>2. record.best # None =>
           individual[record.best].stored /\ individual[record.best].score # None
    BY <2>1 DEF Core, BestOK
  <2>3. /\ better <=> /\ individual[i].score # None
                      /\ record.best = None \/ Wins(individual[i].score, individual[record.best].score)
    BY <1>2, <2>1, <2>2, Values DEF Improves, ScoreOf
  <2>4. \A j \in Individuals : individual[j].score \in Nat \cup {None}
    BY <1>1, IndividualType
  <2>5. \A j \in Individuals : Settled(j)' => j = i \/ Settled(j)
    BY <1>1, <1>4 DEF Settled
  <2>6. BestOK'
    BY <1>1, <1>2, <1>3, <2>2, <2>3, Values DEF BestOK
  <2>7. ASSUME NEW j \in Individuals, Settled(j), individual[j].score # None
        PROVE  /\ record.best # None
               /\ IF HigherIsBetter THEN individual[record.best].score >= individual[j].score
                                    ELSE individual[record.best].score <= individual[j].score
    BY <2>1, <2>7 DEF Core, BestIsBest
  <2>8. ASSUME NEW j \in Individuals, j = i \/ Settled(j), individual[j].score # None
        PROVE  /\ record'.best # None
               /\ IF HigherIsBetter THEN individual[record'.best].score >= individual[j].score
                                    ELSE individual[record'.best].score <= individual[j].score
    <3>1. CASE better
      <4>1. record'.best = i /\ i # None /\ individual[i].score \in Nat
        BY <1>2, <1>3, <2>3, <2>4, <3>1, Values
      <4>2. CASE j = i
        BY <4>1, <4>2
      <4>3. CASE Settled(j)
        <5>1. /\ record.best # None /\ Wins(individual[i].score, individual[record.best].score)
              /\ individual[record.best].score \in Nat /\ individual[j].score \in Nat
          BY <2>1, <2>2, <2>3, <2>4, <2>7, <2>8, <3>1, <4>3
        <5> QED BY <2>7, <2>8, <4>1, <4>3, <5>1 DEF Wins
      <4> QED BY <2>8, <4>2, <4>3
    <3>2. CASE ~better
      <4>1. record'.best = record.best
        BY <1>3, <3>2
      <4>2. CASE j = i
        <5>1. /\ record.best # None /\ ~Wins(individual[i].score, individual[record.best].score)
              /\ individual[record.best].score \in Nat /\ individual[i].score \in Nat
          BY <1>2, <2>1, <2>2, <2>3, <2>4, <2>8, <3>2, <4>2
        <5> QED BY <4>1, <4>2, <5>1 DEF Wins
      <4>3. CASE Settled(j)
        BY <2>7, <2>8, <4>1, <4>3
      <4> QED BY <2>8, <4>2, <4>3
    <3> QED BY <3>1, <3>2
  <2>9. BestIsBest'
    BY <1>1, <2>5, <2>8 DEF BestIsBest
  <2> QED BY <2>6, <2>9
<1> QED BY <1>6, <1>7, <1>8, <1>9 DEF Core

LEMMA RecordFailsStep ==
    ASSUME Core, NEW c \in Calls, RecordFails(c)
    PROVE  Core'
<1>1. /\ EvolutionTypeOK /\ Fault /\ call' = [call EXCEPT ![c] = Idle] /\ raced' = TRUE
      /\ UNCHANGED <<record, individual, versions>>
  BY DEF Core, RecordFails, evolution
<1>2. /\ call' \in [Calls -> Call] /\ call'[c].pc = "idle"
      /\ \A d \in Calls \ {c} : call'[d] = call[d]
  BY <1>1, IdleType DEF EvolutionTypeOK, Idle
<1>3. EvolutionTypeOK'
  BY <1>1, <1>2, EvolutionAssumption DEF EvolutionTypeOK, Fault
<1>4. \A d \in Calls : CallOK(d)'
  <2>1. CallOK(c)'
    BY <1>2 DEF CallOK
  <2>2. ASSUME NEW d \in Calls \ {c} PROVE CallOK(d)'
    BY <1>1, <1>2, CallKept, VersionsGrow DEF Core
  <2> QED BY <2>1, <2>2
<1>5. RecordOK' /\ AcceptanceRecorded' /\ PromotedOnce' /\ BestOK' /\ BestIsBest'
  BY <1>1 DEF Core, RecordOK, AcceptanceRecorded, PromotedOnce, BestOK, BestIsBest
<1> QED BY <1>3, <1>4, <1>5 DEF Core

----------------------------------------------------------------------------
(* accept_individual. *)

\* A request for an acceptance moves, and writes a version at most.
LEMMA AcceptMoves ==
    ASSUME Core, NEW c \in Calls, NEW new \in Call, call[c].pc # "saving",
           call' = [call EXCEPT ![c] = new], CallOK(c)',
           UNCHANGED <<record, individual, raced>>, Grown, versions' \in [Chains -> Seq(Writers)],
           PromotedOnce', bounds' = bounds \/ Request \/ Fault
    PROVE  Core'
<1>1. EvolutionTypeOK
  BY DEF Core
<1>2. call' \in [Calls -> Call] /\ \A d \in Calls \ {c} : call'[d] = call[d]
  BY <1>1 DEF EvolutionTypeOK
<1>3. EvolutionTypeOK'
  BY <1>1, <1>2, EvolutionAssumption DEF EvolutionTypeOK, bounds, Request, Fault, Writers
<1>4. \A d \in Calls : CallOK(d)'
  <2>1. ASSUME NEW d \in Calls \ {c} PROVE CallOK(d)'
    BY <1>1, <1>2, CallKept DEF Core
  <2> QED BY <2>1
<1>5. RecordOK' /\ AcceptanceRecorded' /\ BestOK' /\ BestIsBest'
  BY <1>2, RecordKept
<1> QED BY <1>3, <1>4, <1>5 DEF Core

\* The same when it writes none.
LEMMA AcceptReads ==
    ASSUME Core, NEW c \in Calls, NEW new \in Call, call[c].pc # "saving",
           call' = [call EXCEPT ![c] = new], CallOK(c)',
           UNCHANGED <<evolution, raced>>, bounds' = bounds \/ Request \/ Fault
    PROVE  Core'
<1>1. Grown /\ versions' \in [Chains -> Seq(Writers)]
  BY VersionsGrow DEF Core, evolution
<1>2. PromotedOnce'
  BY DEF Core, evolution, PromotedOnce
<1> QED BY <1>1, <1>2, AcceptMoves DEF evolution

LEMMA IdleOK ==
    ASSUME EvolutionTypeOK, NEW c \in Calls, call' = [call EXCEPT ![c] = Idle]
    PROVE  CallOK(c)'
<1>1. call'[c].pc = "idle"
  BY DEF EvolutionTypeOK, Idle
<1> QED BY <1>1 DEF CallOK

LEMMA AcceptBeginStep ==
    ASSUME Core, NEW c \in Calls, NEW i \in Individuals, NEW t \in Chains \cup {None},
           AcceptBegin(c, i, t)
    PROVE  Core'
<1> DEFINE k == IF t = None THEN DefaultChain ELSE t
           new == [Idle EXCEPT !.pc = "latest", !.seen = record, !.ind = i, !.chain = k]
<1>1. /\ EvolutionTypeOK /\ Request /\ record.status # None /\ call[c].pc = "idle"
      /\ record.status # "accepted" \/ record.accepted = None
      /\ individual[i].stored /\ call' = [call EXCEPT ![c] = new]
      /\ UNCHANGED <<evolution, raced>>
  BY DEF Core, AcceptBegin, Exists
<1>2. new \in Call /\ k \in Chains
  BY <1>1, Values, IdleType, EvolutionAssumption DEF EvolutionTypeOK, Call, Waits, Idle
<1>3. /\ call'[c].pc = "latest" /\ call'[c].seen = record /\ call'[c].ind = i
      /\ call'[c].chain = k
  BY <1>1 DEF EvolutionTypeOK, Idle
<1>4. CallOK(c)'
  BY <1>1, <1>2, <1>3 DEF CallOK, evolution, Core, RecordOK
<1> QED BY <1>1, <1>2, <1>4, AcceptReads

LEMMA GetLatestStep ==
    ASSUME Core, NEW c \in Calls, GetLatest(c)
    PROVE  Core'
<1> DEFINE n == Len(versions[call[c].chain])
           new == [call[c] EXCEPT !.pc = "versions", !.etag = n]
<1>1. /\ EvolutionTypeOK /\ CallOK(c) /\ call[c].pc = "latest"
      /\ call' = [call EXCEPT ![c] = new] /\ UNCHANGED <<evolution, raced, bounds>>
  BY DEF Core, GetLatest, Latest
<1>2. call[c] \in Call /\ n \in Nat
  BY <1>1, CallType DEF CallOK, EvolutionTypeOK
<1>3. new \in Call
  BY <1>2 DEF Call, Waits
<1>4. /\ call'[c].pc = "versions" /\ call'[c].seen = call[c].seen /\ call'[c].ind = call[c].ind
      /\ call'[c].chain = call[c].chain /\ call'[c].etag = n
  BY <1>1, <1>2 DEF EvolutionTypeOK, Call
<1>5. CallOK(c)'
  BY <1>1, <1>2, <1>4 DEF CallOK, evolution
<1> QED BY <1>1, <1>3, <1>5, AcceptReads

LEMMA GetVersionsStep ==
    ASSUME Core, NEW c \in Calls, GetVersions(c)
    PROVE  Core'
<1> DEFINE k == call[c].chain
           n == Len(versions[k])
<1>1. /\ EvolutionTypeOK /\ CallOK(c) /\ RecordOK /\ call[c].pc \in {"versions", "recheck"}
      /\ UNCHANGED <<evolution, raced, bounds>>
  BY DEF Core, GetVersions
<1>2. /\ call[c] \in Call /\ k \in Chains /\ n \in Nat /\ n >= 1
      /\ call[c].ind \in Individuals
  BY <1>1, CallType DEF CallOK, EvolutionTypeOK, RecordOK
<1>3. CASE /\ versions[k][n] = call[c].ind
           /\ call' = [call EXCEPT ![c] = [call[c] EXCEPT !.pc = "promoted", !.version = n]]
  <2>1. [call[c] EXCEPT !.pc = "promoted", !.version = n] \in Call
    BY <1>2 DEF Call, Waits
  <2>2. /\ call'[c].pc = "promoted" /\ call'[c].seen = call[c].seen /\ call'[c].ind = call[c].ind
        /\ call'[c].chain = k /\ call'[c].version = n
    BY <1>1, <1>2, <1>3 DEF EvolutionTypeOK, Call
  <2>3. CallOK(c)'
    BY <1>1, <1>2, <1>3, <2>2 DEF CallOK, evolution
  <2> QED BY <1>1, <1>3, <2>1, <2>3, AcceptReads
<1>4. CASE /\ versions[k][n] # call[c].ind /\ call[c].pc = "versions"
           /\ call' = [call EXCEPT ![c] = [call[c] EXCEPT !.pc = "put"]]
  <2>1. [call[c] EXCEPT !.pc = "put"] \in Call
    BY <1>2 DEF Call, Waits
  <2>2. /\ call'[c].pc = "put" /\ call'[c].seen = call[c].seen /\ call'[c].ind = call[c].ind
        /\ call'[c].chain = k /\ call'[c].etag = call[c].etag
    BY <1>1, <1>2, <1>4 DEF EvolutionTypeOK, Call
  <2>3. CallOK(c)'
    BY <1>1, <1>2, <1>4, <2>2 DEF CallOK, evolution
  <2> QED BY <1>1, <1>4, <2>1, <2>3, AcceptReads
<1>5. CASE call' = [call EXCEPT ![c] = Idle]
  BY <1>1, <1>5, IdleOK, IdleType, AcceptReads
<1>6. \/ /\ versions[k][n] = call[c].ind
         /\ call' = [call EXCEPT ![c] = [call[c] EXCEPT !.pc = "promoted", !.version = n]]
      \/ /\ versions[k][n] # call[c].ind /\ call[c].pc = "versions"
         /\ call' = [call EXCEPT ![c] = [call[c] EXCEPT !.pc = "put"]]
      \/ call' = [call EXCEPT ![c] = Idle]
  BY DEF GetVersions, AcceptedLast, Latest
<1> QED BY <1>3, <1>4, <1>5, <1>6

\* A version written over one that is not the same individual's repeats none.
LEMMA PutOnce ==
    ASSUME Core, NEW k \in Chains, NEW w \in Writers, NewVersion(k, w),
           w \in Individuals => versions[k][Len(versions[k])] # w
    PROVE  PromotedOnce'
<1>1. /\ Len(versions'[k]) = Len(versions[k]) + 1 /\ versions'[k][Len(versions[k]) + 1] = w
      /\ \A j \in Chains \ {k} : versions'[j] = versions[j]
      /\ \A n \in 1..Len(versions[k]) : versions'[k][n] = versions[k][n]
  BY NewVersionFacts DEF Core
<1>2. Len(versions[k]) \in Nat /\ Len(versions[k]) >= 1
  BY DEF Core, EvolutionTypeOK, RecordOK
<1>3. PromotedOnce
  BY DEF Core
<1>4. ASSUME NEW j \in Chains, NEW n \in 2..Len(versions'[j]), versions'[j][n] \in Individuals
      PROVE  versions'[j][n - 1] # versions'[j][n]
  <2>1. CASE j # k
    BY <1>1, <1>3, <1>4, <2>1 DEF PromotedOnce
  <2>2. CASE j = k /\ n = Len(versions[k]) + 1
    <3>1. n - 1 = Len(versions[k]) /\ Len(versions[k]) \in 1..Len(versions[k])
      BY <1>2, <2>2
    <3> QED BY <1>1, <1>4, <2>2, <3>1
  <2>3. CASE j = k /\ n \in 2..Len(versions[k])
    <3>1. n \in 1..Len(versions[k]) /\ n - 1 \in 1..Len(versions[k])
      BY <1>2, <2>3
    <3> QED BY <1>1, <1>3, <1>4, <2>3, <3>1 DEF PromotedOnce
  <2> QED BY <1>1, <1>2, <2>1, <2>2, <2>3
<1> QED BY <1>4 DEF PromotedOnce

LEMMA PutStep ==
    ASSUME Core, NEW c \in Calls, Put(c)
    PROVE  Core'
<1> DEFINE k == call[c].chain
           n == Len(versions[k])
           written == [call[c] EXCEPT !.pc = "promoted", !.version = call[c].etag + 1]
           refused == [call[c] EXCEPT !.pc = "recheck"]
<1>1. /\ EvolutionTypeOK /\ CallOK(c) /\ call[c].pc = "put"
      /\ IF call[c].etag = n
         THEN NewVersion(k, call[c].ind) /\ call' = [call EXCEPT ![c] = written]
         ELSE call' = [call EXCEPT ![c] = refused] /\ UNCHANGED versions
      /\ UNCHANGED <<record, individual, bounds, raced>>
  BY DEF Core, Put, Latest
<1>2. /\ call[c] \in Call /\ k \in Chains /\ n \in Nat /\ call[c].ind \in Individuals
      /\ call[c].ind \in Writers /\ call[c].etag \in Nat
  BY <1>1, CallType DEF CallOK, EvolutionTypeOK, Writers
<1>3. CASE call[c].etag = n
  <2>1. /\ NewVersion(k, call[c].ind) /\ call' = [call EXCEPT ![c] = written]
    BY <1>1, <1>3
  <2>2. Len(versions'[k]) = n + 1 /\ versions'[k][n + 1] = call[c].ind
    BY <1>1, <1>2, <2>1, NewVersionFacts
  <2>3. Grown /\ versions' \in [Chains -> Seq(Writers)]
    BY <1>1, <1>2, <2>1, VersionsGrow
  <2>4. written \in Call
    <3>1. call[c].etag + 1 \in Nat
      BY <1>2
    <3> QED BY <1>2, <3>1 DEF Call, Waits
  <2>5. /\ call'[c].pc = "promoted" /\ call'[c].seen = call[c].seen /\ call'[c].ind = call[c].ind
        /\ call'[c].chain = k /\ call'[c].version = n + 1
    BY <1>1, <1>2, <1>3, <2>1 DEF EvolutionTypeOK, Call
  <2>6. CallOK(c)'
    BY <1>1, <1>2, <2>2, <2>5 DEF CallOK
  <2>7. PromotedOnce'
    BY <1>1, <1>2, <1>3, <2>1, PutOnce DEF CallOK
  <2> QED BY <1>1, <2>1, <2>3, <2>4, <2>6, <2>7, AcceptMoves
<1>4. CASE call[c].etag # n
  <2>1. call' = [call EXCEPT ![c] = refused] /\ UNCHANGED <<evolution, bounds, raced>>
    BY <1>1, <1>4 DEF evolution
  <2>2. refused \in Call
    BY <1>2 DEF Call, Waits
  <2>3. /\ call'[c].pc = "recheck" /\ call'[c].seen = call[c].seen /\ call'[c].ind = call[c].ind
        /\ call'[c].chain = k
    BY <1>1, <1>2, <2>1 DEF EvolutionTypeOK, Call
  <2>4. CallOK(c)'
    BY <1>1, <1>2, <2>1, <2>3 DEF CallOK, evolution
  <2> QED BY <1>1, <2>1, <2>2, <2>4, AcceptReads
<1> QED BY <1>3, <1>4

LEMMA PromoteFailsStep ==
    ASSUME Core, NEW c \in Calls, PromoteFails(c)
    PROVE  Core'
<1> DEFINE k == call[c].chain
<1>1. /\ EvolutionTypeOK /\ CallOK(c) /\ Fault
      /\ call[c].pc \in {"latest", "versions", "put", "recheck"}
      /\ call' = [call EXCEPT ![c] = Idle]
      /\ \/ UNCHANGED versions
         \/ /\ call[c].pc = "put" /\ call[c].etag = Len(versions[k])
            /\ NewVersion(k, call[c].ind)
      /\ UNCHANGED <<record, individual, raced>>
  BY DEF Core, PromoteFails, Latest
<1>2. CallOK(c)' /\ Idle \in Call
  BY <1>1, IdleOK, IdleType
<1>3. CASE UNCHANGED versions
  BY <1>1, <1>2, <1>3, AcceptReads DEF evolution
<1>4. CASE call[c].pc = "put" /\ call[c].etag = Len(versions[k]) /\ NewVersion(k, call[c].ind)
  <2>1. k \in Chains /\ call[c].ind \in Writers
    BY <1>1, <1>4 DEF CallOK, Writers
  <2>2. Grown /\ versions' \in [Chains -> Seq(Writers)]
    BY <1>1, <1>4, <2>1, VersionsGrow
  <2>3. PromotedOnce'
    BY <1>1, <1>4, <2>1, PutOnce DEF CallOK
  <2> QED BY <1>1, <1>2, <2>2, <2>3, AcceptMoves
<1> QED BY <1>1, <1>3, <1>4

\* The flag of an individual that is stored.
LEMMA FlaggedFacts ==
    ASSUME EvolutionTypeOK, NEW i \in Individuals
    PROVE  /\ Flagged(i) \in [Individuals -> Individual] /\ Flagged(i)[i].accepted
           /\ \A j \in Individuals :
                 /\ Flagged(i)[j].stored = individual[j].stored
                 /\ Flagged(i)[j].score = individual[j].score
                 /\ Flagged(i)[j].accepted => j = i \/ individual[j].accepted
                 /\ individual[j].accepted => Flagged(i)[j].accepted
BY DEF EvolutionTypeOK, Individual, Flagged

LEMMA AcceptFinishStep ==
    ASSUME Core, NEW c \in Calls, AcceptFinish(c)
    PROVE  Core'
<1> DEFINE i == call[c].ind
<1>1. /\ EvolutionTypeOK /\ CallOK(c) /\ call[c].pc = "promoted"
      /\ call' = [call EXCEPT ![c] = Idle] /\ individual' = Flagged(i)
      /\ record' = [record EXCEPT !.status = "accepted", !.accepted = i, !.best = i,
                                  !.chain = call[c].chain, !.version = call[c].version]
      /\ UNCHANGED <<versions, bounds, raced>>
  BY DEF Core, AcceptFinish, Persist
<1>2. /\ i \in Individuals /\ i # None /\ individual[i].stored /\ call[c].chain \in Chains
      /\ call[c].version \in 1..Len(versions[call[c].chain]) /\ call[c].version \in Nat
      /\ versions[call[c].chain][call[c].version] = i
  BY <1>1, CallType, Values DEF CallOK
<1>3. /\ record' \in Record /\ record'.status = "accepted" /\ record'.accepted = i
      /\ record'.chain = call[c].chain /\ record'.version = call[c].version
  BY <1>1, <1>2 DEF EvolutionTypeOK, Record, EvolutionStatus
<1>4. /\ call' \in [Calls -> Call] /\ \A d \in Calls \ {c} : call'[d] = call[d]
  BY <1>1, IdleType DEF EvolutionTypeOK
<1>5. EvolutionTypeOK'
  BY <1>1, <1>2, <1>3, <1>4, FlaggedFacts DEF EvolutionTypeOK, bounds
<1>6. \A d \in Calls : CallOK(d)'
  <2>1. CallOK(c)'
    BY <1>1, IdleOK
  <2>2. Grown
    BY <1>1, VersionsGrow
  <2>3. \A j \in Individuals : individual[j].stored => individual'[j].stored
    BY <1>1, <1>2, FlaggedFacts
  <2>4. ASSUME NEW d \in Calls \ {c} PROVE CallOK(d)'
    BY <1>1, <1>2, <1>3, <1>4, <2>2, <2>3, CallKept DEF Core
  <2> QED BY <2>1, <2>4
<1>7. RecordOK' /\ AcceptanceRecorded' /\ PromotedOnce'
  BY <1>1, <1>2, <1>3, FlaggedFacts DEF Core, RecordOK, AcceptanceRecorded, PromotedOnce
<1>8. BestOK' /\ BestIsBest'
  BY <1>2, <1>3 DEF BestOK, BestIsBest
<1> QED BY <1>5, <1>6, <1>7, <1>8 DEF Core

LEMMA AcceptFailsStep ==
    ASSUME Core, NEW c \in Calls, AcceptFails(c)
    PROVE  Core'
<1>1. /\ EvolutionTypeOK /\ CallOK(c) /\ Fault /\ call[c].pc = "promoted"
      /\ call' = [call EXCEPT ![c] = Idle]
      /\ individual' = individual \/ individual' = Flagged(call[c].ind)
      /\ UNCHANGED <<record, versions, raced>>
  BY DEF Core, AcceptFails
<1>2. call[c].ind \in Individuals /\ individual[call[c].ind].stored
  BY <1>1 DEF CallOK
<1>3. /\ individual' \in [Individuals -> Individual]
      /\ \A j \in Individuals :
            /\ individual'[j].stored = individual[j].stored
            /\ individual'[j].score = individual[j].score
            /\ individual'[j].accepted => individual'[j].stored
            /\ individual[j].accepted => individual'[j].accepted
  BY <1>1, <1>2, FlaggedFacts DEF EvolutionTypeOK, Core, RecordOK
<1>4. /\ call' \in [Calls -> Call] /\ \A d \in Calls \ {c} : call'[d] = call[d]
      /\ call'[c].pc = "idle"
  BY <1>1, IdleType DEF EvolutionTypeOK, Idle
<1>5. EvolutionTypeOK'
  BY <1>1, <1>3, <1>4, EvolutionAssumption DEF EvolutionTypeOK, Fault
<1>6. \A d \in Calls : CallOK(d)'
  <2>1. CallOK(c)'
    BY <1>1, IdleOK
  <2>2. Grown
    BY <1>1, VersionsGrow
  <2>3. ASSUME NEW d \in Calls \ {c} PROVE CallOK(d)'
    BY <1>1, <1>3, <1>4, <2>2, CallKept DEF Core
  <2> QED BY <2>1, <2>3
<1>7. RecordOK' /\ AcceptanceRecorded' /\ PromotedOnce'
  BY <1>1, <1>3, RecordType DEF Core, RecordOK, AcceptanceRecorded, PromotedOnce
<1>8. BestOK' /\ BestIsBest'
  <2>1. \A j \in Individuals : Settled(j)' => Settled(j)
    BY <1>1, <1>3, <1>4 DEF Settled
  <2> QED BY <1>1, <1>3, <2>1, RecordType DEF Core, BestOK, BestIsBest
<1> QED BY <1>5, <1>6, <1>7, <1>8 DEF Core

LEMMA OtherVersionStep ==
    ASSUME Core, NEW k \in Chains, OtherVersion(k)
    PROVE  Core'
<1>1. /\ EvolutionTypeOK /\ Request /\ NewVersion(k, Other) /\ Other \in Writers
      /\ UNCHANGED <<record, individual, call, raced>>
  BY DEF Core, OtherVersion, Writers
<1>2. Grown /\ versions' \in [Chains -> Seq(Writers)]
  BY <1>1, VersionsGrow
<1>3. EvolutionTypeOK'
  BY <1>1, <1>2, EvolutionAssumption DEF EvolutionTypeOK, Request, Writers
<1>4. \A d \in Calls : CallOK(d)'
  BY <1>1, <1>2, CallKept DEF Core
<1>5. PromotedOnce'
  BY <1>1, PutOnce, Values
<1> QED BY <1>1, <1>2, <1>3, <1>4, <1>5, RecordKept DEF Core

----------------------------------------------------------------------------
(* The record, the individuals, Memory and the requests. *)

LEMMA CoreInit == Init => Core
<1> SUFFICES ASSUME Init PROVE Core
  OBVIOUS
<1>1. /\ \A k \in Chains : versions[k] = <<Other>>
      /\ versions \in [Chains -> Seq(Individuals \cup {Other})]
      /\ Len(<<Other>>) = 1
  BY DEF Init
<1>2. /\ record = NewRecord /\ record \in Record
      /\ call \in [Calls -> Call] /\ \A c \in Calls : call[c] = Idle
  BY IdleType DEF Init
<1>3. /\ individual \in [Individuals -> Individual]
      /\ \A i \in Individuals : ~individual[i].stored /\ ~individual[i].accepted
  BY DEF Init, Individual
<1>4. EvolutionTypeOK
  <2>1. requests = 0 /\ faults = 0 /\ raced = FALSE
    BY DEF Init
  <2>2. 0 \in 0..MaxRequests /\ 0 \in 0..MaxFaults
    BY EvolutionAssumption
  <2> QED BY <1>1, <1>2, <1>3, <2>1, <2>2 DEF EvolutionTypeOK
<1>5. \A c \in Calls : CallOK(c)
  BY <1>2 DEF CallOK, Idle
<1>6. RecordOK
  <2>1. record.status = None /\ None # "accepted"
    BY <1>2, Values DEF NewRecord, EvolutionStatus
  <2>2. \A k \in Chains : Len(versions[k]) = 1
    BY <1>1
  <2> QED BY <1>3, <2>1, <2>2 DEF RecordOK
<1>7. AcceptanceRecorded /\ BestOK /\ BestIsBest
  BY <1>2, <1>3 DEF NewRecord, AcceptanceRecorded, BestOK, BestIsBest, Settled
<1>8. PromotedOnce
  BY <1>1 DEF PromotedOnce
<1> QED BY <1>4, <1>5, <1>6, <1>7, <1>8 DEF Core

LEMMA CoreStep == Core /\ [Next]_vars => Core'
<1> SUFFICES ASSUME Core, [Next]_vars PROVE Core'
  OBVIOUS
<1>1. CASE Create
  BY <1>1, StatusStep DEF Create, Persist
<1>2. CASE Cancel \/ Pause \/ Resume
  BY <1>2, StatusStep DEF Cancel, Pause, Resume, Control, Persist
<1>3. ASSUME NEW c \in Calls, RecordCall(c) PROVE Core'
  BY <1>3, RecordBeginStep, RecordFinishStep, RecordFailsStep DEF RecordCall
<1>4. ASSUME NEW c \in Calls, AcceptCall(c) PROVE Core'
  BY <1>4, AcceptBeginStep, GetLatestStep, GetVersionsStep, PutStep, PromoteFailsStep,
     AcceptFinishStep, AcceptFailsStep DEF AcceptCall
<1>5. ASSUME NEW i \in Individuals, NEW t \in Chains \cup {None}, AcceptAgain(i, t) PROVE Core'
  BY <1>5, NoRequestMoves DEF AcceptAgain
<1>6. ASSUME NEW k \in Chains, OtherVersion(k) PROVE Core'
  BY <1>6, OtherVersionStep
<1>7. ASSUME NEW s \in Streams, Watch(s) \/ StreamMoves(s) PROVE Core'
  BY <1>7, NoRequestMoves DEF Watch, StreamMoves
<1>8. CASE UNCHANGED vars
  BY <1>8, NoRequestMoves DEF vars, evolution, bounds
<1> QED BY <1>1, <1>2, <1>3, <1>4, <1>5, <1>6, <1>7, <1>8 DEF Next

----------------------------------------------------------------------------
(* The bus. *)

\* What a step publishes, if anything, is what it changes in the record.
Announces(p) ==
    /\ p["status"] # None => record'.status = p["status"]
    /\ p["status"] = None => record'.status = record.status
    /\ p["accepted"] # None => record'.accepted = p["accepted"]
    /\ p["accepted"] = None => record'.accepted = record.accepted
    /\ record'.accepted = None =>
          /\ record.accepted = None
          /\ p["best"] # None => record'.best = p["best"]
          /\ p["best"] = None => record'.best = record.best

LEMMA PublishInforms ==
    ASSUME BusInv, Informed, NEW p \in View, Publish(p), Announces(p)
    PROVE  BusInv' /\ Informed'
<1>1. BusInv'
  BY PublishInv
<1>2. ASSUME NEW s \in Streams, Follows(s)'
      PROVE  /\ Known(queue'[s], stream'[s].hand, stream'[s].view, "status", record'.status)
             /\ Known(queue'[s], stream'[s].hand, stream'[s].view, "accepted", record'.accepted)
             /\ record'.accepted = None =>
                   Known(queue'[s], stream'[s].hand, stream'[s].view, "best", record'.best)
  <2>1. Known(queue'[s], stream'[s].hand, stream'[s].view, "status", record'.status)
    BY <1>2, PublishKnows DEF Informed, Announces, Fields
  <2>2. Known(queue'[s], stream'[s].hand, stream'[s].view, "accepted", record'.accepted)
    BY <1>2, PublishKnows DEF Informed, Announces, Fields
  <2>3. ASSUME record'.accepted = None
        PROVE  Known(queue'[s], stream'[s].hand, stream'[s].view, "best", record'.best)
    BY <1>2, <2>3, PublishKnows DEF Informed, Announces, Fields
  <2> QED BY <2>1, <2>2, <2>3
<1> QED BY <1>1, <1>2 DEF Informed, Knows

LEMMA PublishBothInforms ==
    ASSUME BusInv, Informed, NEW p1 \in View, NEW p2 \in View, PublishBoth(p1, p2),
           Announces(p1), p2["status"] = None, p2["accepted"] = None,
           p1["best"] # None, p2["best"] = p1["best"]
    PROVE  BusInv' /\ Informed'
<1>1. BusInv'
  BY PublishBothInv
<1>2. ASSUME NEW s \in Streams, Follows(s)'
      PROVE  /\ Known(queue'[s], stream'[s].hand, stream'[s].view, "status", record'.status)
             /\ Known(queue'[s], stream'[s].hand, stream'[s].view, "accepted", record'.accepted)
             /\ record'.accepted = None =>
                   Known(queue'[s], stream'[s].hand, stream'[s].view, "best", record'.best)
  <2>1. Known(queue'[s], stream'[s].hand, stream'[s].view, "status", record'.status)
    BY <1>2, PublishBothKnows DEF Informed, Announces, Fields
  <2>2. Known(queue'[s], stream'[s].hand, stream'[s].view, "accepted", record'.accepted)
    BY <1>2, PublishBothKnows DEF Informed, Announces, Fields
  <2>3. ASSUME record'.accepted = None
        PROVE  Known(queue'[s], stream'[s].hand, stream'[s].view, "best", record'.best)
    BY <1>2, <2>3, PublishBothKnows DEF Informed, Announces, Fields
  <2> QED BY <2>1, <2>2, <2>3
<1> QED BY <1>1, <1>2 DEF Informed, Knows

\* Where nothing is published, what the clients need to know of the record does not change.
LEMMA SilentStep ==
    ASSUME BusInv, Informed, UNCHANGED <<bus, record>>
    PROVE  BusInv' /\ Informed'
BY DEF bus, BusInv, BusTypeOK, TornDown, Informed, Follows, Knows

LEMMA RecordInforms ==
    ASSUME IInv, NEW c \in Calls, RecordCall(c)
    PROVE  BusInv' /\ Informed'
<1>1. EvolutionTypeOK /\ CallOK(c) /\ BusInv /\ Informed
  BY DEF IInv, Core
<1>2. ASSUME NEW i \in Individuals, NEW x \in Evaluations, RecordBegin(c, i, x)
      PROVE  BusInv' /\ Informed'
  <2>1. /\ Nothing \in View /\ Nothing["status"] = None /\ Nothing["best"] = None
        /\ Nothing["accepted"] = None
    BY Values DEF Nothing, Says, View
  <2>2. Publish(Nothing) /\ record' = record
    BY <1>2 DEF RecordBegin
  <2> QED BY <1>1, <2>1, <2>2, PublishInforms DEF Announces
<1>3. CASE RecordFinish(c)
  <2> DEFINE seen == call[c].seen
             i == call[c].ind
             better == Improves(i, seen.best)
             later == individual[i].generation > seen.generation
  <2>1. /\ i \in Individuals /\ i # None /\ seen.status \in EvolutionStatus
        /\ seen.status \in EvolutionStatus \cup {None} /\ seen.status # None
    BY <1>1, <1>3, CallType, Values DEF RecordFinish, CallOK
  <2>2. CASE better
    <3>1. /\ PublishBoth(Says(seen.status, i, None), Says(None, i, None))
          /\ record' = Updated(seen.status,
                               IF later THEN individual[i].generation ELSE record.generation, i)
      BY <1>3, <2>2 DEF RecordFinish, Persist
    <3>2. /\ record'.status = seen.status /\ record'.best = i /\ record'.accepted = record.accepted
      BY <1>1, <3>1 DEF EvolutionTypeOK, Record, Updated
    <3> DEFINE p1 == Says(seen.status, i, None)
               p2 == Says(None, i, None)
    <3>3. /\ p1 \in View /\ p1["status"] = seen.status /\ p1["best"] = i /\ p1["accepted"] = None
          /\ p2 \in View /\ p2["status"] = None /\ p2["best"] = i /\ p2["accepted"] = None
      BY <2>1, Values DEF Says, View
    <3> HIDE DEF p1, p2
    <3>4. Announces(p1)
      BY <2>1, <3>2, <3>3 DEF Announces
    <3>5. PublishBoth(p1, p2)
      BY <3>1 DEF p1, p2
    <3> QED BY <1>1, <2>1, <3>3, <3>4, <3>5, PublishBothInforms
  <2>3. CASE ~better /\ later
    <3>1. /\ Publish(Says(seen.status, None, None))
          /\ record' = Updated(seen.status, individual[i].generation, record.best)
      BY <1>3, <2>3 DEF RecordFinish, Persist
    <3>2. /\ record'.status = seen.status /\ record'.best = record.best
          /\ record'.accepted = record.accepted
      BY <1>1, <3>1 DEF EvolutionTypeOK, Record, Updated
    <3> DEFINE p == Says(seen.status, None, None)
    <3>3. p \in View /\ p["status"] = seen.status /\ p["best"] = None /\ p["accepted"] = None
      BY <2>1, Values DEF Says, View
    <3> HIDE DEF p
    <3>4. Announces(p)
      BY <2>1, <3>2, <3>3 DEF Announces
    <3>5. Publish(p)
      BY <3>1 DEF p
    <3> QED BY <1>1, <3>3, <3>4, <3>5, PublishInforms
  <2>4. CASE ~better /\ ~later
    <3>1. UNCHANGED <<bus, record>>
      BY <1>3, <2>4 DEF RecordFinish
    <3> QED BY <1>1, <3>1, SilentStep
  <2> QED BY <2>2, <2>3, <2>4
<1>4. CASE RecordFails(c)
  BY <1>1, <1>4, SilentStep DEF RecordFails, evolution
<1> QED BY <1>2, <1>3, <1>4 DEF RecordCall

LEMMA AcceptInforms ==
    ASSUME IInv, NEW c \in Calls, AcceptCall(c)
    PROVE  BusInv' /\ Informed'
<1>1. EvolutionTypeOK /\ CallOK(c) /\ BusInv /\ Informed
  BY DEF IInv, Core
<1>2. CASE AcceptFinish(c)
  <2>1. call[c].ind \in Individuals /\ call[c].ind # None /\ "accepted" \in EvolutionStatus
        /\ "accepted" # None
    BY <1>1, <1>2, Values DEF AcceptFinish, CallOK, EvolutionStatus
  <2>2. Publish(Says("accepted", None, call[c].ind))
    BY <1>2 DEF AcceptFinish
  <2>3. record'.status = "accepted" /\ record'.accepted = call[c].ind
    BY <1>1, <1>2 DEF AcceptFinish, Persist, EvolutionTypeOK, Record
  <2> QED BY <1>1, <2>1, <2>2, <2>3, SaysType, PublishInforms DEF Announces
<1>3. ASSUME \/ \E i \in Individuals, t \in Chains \cup {None} : AcceptBegin(c, i, t)
             \/ GetLatest(c) \/ GetVersions(c) \/ Put(c) \/ PromoteFails(c) \/ AcceptFails(c)
      PROVE  UNCHANGED <<bus, record>>
  BY <1>3 DEF AcceptBegin, GetLatest, GetVersions, Put, PromoteFails, AcceptFails, evolution
<1> QED BY <1>1, <1>2, <1>3, SilentStep DEF AcceptCall

\* create_evolution, the controls and a repeated accept say what the record then is.
LEMMA StatusInforms ==
    ASSUME IInv, NEW to \in EvolutionStatus, NEW a \in Individuals \cup {None},
           Publish(Says(to, None, a)), record' = [record EXCEPT !.status = to],
           a # None => record.accepted = a
    PROVE  BusInv' /\ Informed'
<1>1. EvolutionTypeOK /\ BusInv /\ Informed
  BY DEF IInv, Core
<1>2. /\ record'.status = to /\ record'.best = record.best /\ record'.accepted = record.accepted
  BY <1>1 DEF EvolutionTypeOK, Record
<1>3. to # None
  BY Values
<1> QED BY <1>1, <1>2, <1>3, SaysType, PublishInforms DEF Announces

LEMMA StreamInforms ==
    ASSUME IInv, NEW s \in Streams, Watch(s) \/ StreamMoves(s)
    PROVE  BusInv' /\ Informed'
<1>1. EvolutionTypeOK /\ BusInv /\ Informed /\ record' = record
  BY DEF IInv, Core, Watch, StreamMoves, evolution
<1>2. CASE StreamMoves(s)
  <2>1. StreamStep(s)
    BY <1>2 DEF StreamMoves
  <2>2. ASSUME NEW t \in Streams, Follows(t)'
        PROVE  /\ Known(queue'[t], stream'[t].hand, stream'[t].view, "status", record.status)
               /\ Known(queue'[t], stream'[t].hand, stream'[t].view, "accepted", record.accepted)
               /\ record.accepted = None =>
                     Known(queue'[t], stream'[t].hand, stream'[t].view, "best", record.best)
    BY <1>1, <2>1, <2>2, StreamStepKnows DEF Informed, Fields
  <2> QED BY <1>1, <2>1, <2>2, StreamStepInv DEF Informed, Knows
<1>3. CASE Watch(s)
  <2>1. /\ Connect(s, Snapshot) /\ Snapshot \in View
        /\ Snapshot["status"] = record.status /\ Snapshot["best"] = record.best
        /\ Snapshot["accepted"] = record.accepted
    BY <1>1, <1>3, SaysType, RecordType DEF Watch, Snapshot
  <2>2. ASSUME NEW t \in Streams, Follows(t)'
        PROVE  /\ Known(queue'[t], stream'[t].hand, stream'[t].view, "status", record.status)
               /\ Known(queue'[t], stream'[t].hand, stream'[t].view, "accepted", record.accepted)
               /\ record.accepted = None =>
                     Known(queue'[t], stream'[t].hand, stream'[t].view, "best", record.best)
    BY <1>1, <2>1, <2>2, ConnectKnows DEF Informed, Fields
  <2> QED BY <1>1, <2>1, <2>2, ConnectInv DEF Informed, Knows
<1> QED BY <1>2, <1>3

LEMMA InformedInit == Init => BusInv /\ Informed
<1> SUFFICES ASSUME Init PROVE BusInv /\ Informed
  OBVIOUS
<1>1. BusInv
  BY BusInvInit DEF Init
<1>2. \A s \in Streams : ~Follows(s)
  BY DEF Init, BusInit, Fresh, Follows, Reading
<1> QED BY <1>1, <1>2 DEF Informed

LEMMA InformedStep == IInv /\ [Next]_vars => BusInv' /\ Informed'
<1> SUFFICES ASSUME IInv, [Next]_vars PROVE BusInv' /\ Informed'
  OBVIOUS
<1>1. CASE Create
  BY <1>1, StatusInforms, Values DEF Create, Persist, EvolutionStatus
<1>2. CASE Cancel \/ Pause \/ Resume
  BY <1>2, StatusInforms, Values DEF Cancel, Pause, Resume, Control, Persist, EvolutionStatus
<1>3. ASSUME NEW c \in Calls, RecordCall(c) PROVE BusInv' /\ Informed'
  BY <1>3, RecordInforms
<1>4. ASSUME NEW c \in Calls, AcceptCall(c) PROVE BusInv' /\ Informed'
  BY <1>4, AcceptInforms
<1>5. ASSUME NEW i \in Individuals, NEW t \in Chains \cup {None}, AcceptAgain(i, t)
      PROVE  BusInv' /\ Informed'
  <2>1. /\ Publish(Says("accepted", None, i)) /\ record' = record
        /\ record.status = "accepted" /\ record.accepted = i
    BY <1>5 DEF AcceptAgain, evolution
  <2>2. record' = [record EXCEPT !.status = "accepted"]
    BY <2>1 DEF IInv, Core, EvolutionTypeOK, Record
  <2> QED BY <2>1, <2>2, StatusInforms DEF EvolutionStatus
<1>6. ASSUME NEW k \in Chains, OtherVersion(k) PROVE BusInv' /\ Informed'
  BY <1>6, SilentStep DEF OtherVersion, IInv
<1>7. ASSUME NEW s \in Streams, Watch(s) \/ StreamMoves(s) PROVE BusInv' /\ Informed'
  BY <1>7, StreamInforms
<1>8. CASE UNCHANGED vars
  BY <1>8, SilentStep DEF vars, evolution, IInv
<1> QED BY <1>1, <1>2, <1>3, <1>4, <1>5, <1>6, <1>7, <1>8 DEF Next

----------------------------------------------------------------------------
(* The theorems. *)

\* The inductive invariant: what requests carry, the record, the bus and what clients know.
THEOREM Invariance == Spec => []IInv
<1>1. Init => IInv
  BY CoreInit, InformedInit DEF IInv
<1>2. IInv /\ [Next]_vars => IInv'
  BY CoreStep, InformedStep DEF IInv
<1> QED BY <1>1, <1>2, PTL DEF Spec

\* Types of the record, the individuals, Memory, the requests and the bus.
THEOREM TypeCorrect == Spec => []TypeOK
<1>1. IInv => TypeOK
  BY DEF IInv, Core, BusInv, TypeOK
<1> QED BY <1>1, Invariance, PTL

\* Every subscriber reads the newest events in the order they were published.
THEOREM EventsInOrder == Spec => []InOrder
<1>1. IInv => InOrder
  BY BusInvInOrder DEF IInv
<1> QED BY <1>1, Invariance, PTL

\* Queues belong to open connections, those abandoned during the snapshot apart.
THEOREM QueuesTornDown == Spec => []TornDown
<1>1. IInv => TornDown
  BY DEF IInv, BusInv
<1> QED BY <1>1, Invariance, PTL

\* The record, the individual and the chain in Memory agree on the acceptance.
THEOREM AcceptanceAgreed == Spec => []AcceptanceRecorded
<1>1. IInv => AcceptanceRecorded
  BY DEF IInv, Core
<1> QED BY <1>1, Invariance, PTL

\* Repeated and concurrent accepts of one individual write it once.
THEOREM PromotedAtMostOnce == Spec => []PromotedOnce
<1>1. IInv => PromotedOnce
  BY DEF IInv, Core
<1> QED BY <1>1, Invariance, PTL

\* The record's best individual beats every other that was recorded, unless a race lost one.
THEOREM BestKept == Spec => []BestIsBest
<1>1. IInv => BestIsBest
  BY DEF IInv, Core
<1> QED BY <1>1, Invariance, PTL

\* A client that lost no event and has been sent all of them knows the record.
THEOREM ClientsCaughtUp == Spec => []CaughtUp
<1>1. IInv => CaughtUp
  <2> SUFFICES ASSUME IInv, NEW s \in Streams, stream[s].pc \in {"first"} \cup Reading,
                      ~stream[s].lost, Pending(s) = <<>>
               PROVE  Current(stream[s].view)
    BY DEF CaughtUp
  <2>1. /\ BusInv /\ Knows(s, "status", record.status) /\ Knows(s, "accepted", record.accepted)
        /\ record.accepted = None => Knows(s, "best", record.best)
    BY DEF IInv, Informed, Follows
  <2>2. stream[s].view["status"] = record.status /\ stream[s].view["accepted"] = record.accepted
    BY <2>1, KnownSent DEF Fields
  <2>3. record.accepted = None => stream[s].view["best"] = record.best
    BY <2>1, KnownSent DEF Fields
  <2> QED BY <2>2, <2>3 DEF Current
<1> QED BY <1>1, Invariance, PTL

\* Among the steps only the end of a recording or of an acceptance can take anything back.
LEMMA TakesBackStep ==
    ASSUME IInv, Next, TakesBack
    PROVE  \E c \in Calls : /\ call[c].pc \in {"saving", "promoted"}
                            /\ call[c].seen # record
                            /\ call'[c] = Idle
<1> DEFINE Stale == \E c \in Calls : /\ call[c].pc \in {"saving", "promoted"}
                                     /\ call[c].seen # record /\ call'[c] = Idle
<1>1. EvolutionTypeOK /\ RecordOK
  BY DEF IInv, Core
<1>2. record' # record
  BY <1>1, RecordType DEF TakesBack
<1>3. ASSUME Create \/ Cancel \/ Pause \/ Resume PROVE FALSE
  <2>1. \E to \in EvolutionStatus : /\ record' = [record EXCEPT !.status = to]
                                    /\ record.status \notin Finished
    BY <1>3, Values DEF Create, Cancel, Pause, Resume, Control, Persist, Exists, Finished,
       EvolutionStatus
  <2>2. /\ record'.generation = record.generation /\ record'.accepted = record.accepted
        /\ record.status \notin Finished
    BY <1>1, <2>1 DEF EvolutionTypeOK, Record
  <2> QED BY <1>1, <2>2, RecordType DEF TakesBack, Finished
<1>4. ASSUME NEW c \in Calls, RecordFinish(c) PROVE Stale
  <2>1. call[c].pc = "saving" /\ call'[c] = Idle
    BY <1>1, <1>4 DEF RecordFinish, EvolutionTypeOK
  <2>2. ASSUME call[c].seen = record PROVE FALSE
    <3>1. /\ call[c].ind \in Individuals /\ individual[call[c].ind].generation \in Nat
          /\ record.generation \in Nat
      BY <1>1, <2>1, RecordType, IndividualType DEF IInv, Core, CallOK
    <3>2. \E g \in Nat : \E b : /\ g >= record.generation
                                /\ record' = Updated(record.status, g, b)
      BY <1>2, <1>4, <2>2, <3>1 DEF RecordFinish, Persist
    <3>3. /\ record'.generation \in Nat /\ record'.generation >= record.generation
          /\ record'.status = record.status
          /\ record'.accepted = record.accepted
      BY <1>1, <3>2 DEF EvolutionTypeOK, Record, Updated
    <3> QED BY <3>1, <3>3, RecordType, <1>1 DEF TakesBack
  <2> QED BY <2>1, <2>2
<1>5. ASSUME NEW c \in Calls, AcceptFinish(c) PROVE Stale
  <2>1. call[c].pc = "promoted" /\ call'[c] = Idle
    BY <1>1, <1>5 DEF AcceptFinish, EvolutionTypeOK
  <2>2. ASSUME call[c].seen = record PROVE FALSE
    <3>1. record.status = "accepted" => record.accepted = None
      BY <2>1, <2>2 DEF IInv, Core, CallOK
    <3>2. record.status # "accepted"
      BY <1>1, <3>1 DEF RecordOK
    <3>3. record'.generation = record.generation /\ record'.status = "accepted"
      BY <1>1, <1>5 DEF AcceptFinish, Persist, EvolutionTypeOK, Record
    <3> QED BY <1>1, <3>2, <3>3, RecordType DEF TakesBack
  <2> QED BY <2>1, <2>2
<1>6. ASSUME NEW c \in Calls, RecordCall(c) PROVE Stale
  BY <1>2, <1>4, <1>6 DEF RecordCall, RecordBegin, RecordFails, evolution
<1>7. ASSUME NEW c \in Calls, AcceptCall(c) PROVE Stale
  BY <1>2, <1>5, <1>7 DEF AcceptCall, AcceptBegin, GetLatest, GetVersions, Put, PromoteFails,
     AcceptFails, evolution
<1>8. ASSUME \/ \E i \in Individuals, t \in Chains \cup {None} : AcceptAgain(i, t)
             \/ \E k \in Chains : OtherVersion(k)
             \/ \E s \in Streams : Watch(s) \/ StreamMoves(s)
      PROVE  FALSE
  BY <1>2, <1>8 DEF AcceptAgain, OtherVersion, Watch, StreamMoves, evolution
<1> QED BY <1>3, <1>6, <1>7, <1>8 DEF Next

\* A cancellation or an acceptance is taken back only by a request that read the record before
\* it was last changed.
THEOREM OnlyStaleTakesBack == Spec => DecisionsStand
<1>1. IInv /\ [Next]_vars =>
         [TakesBack => \E c \in Calls : /\ call[c].pc \in {"saving", "promoted"}
                                        /\ call[c].seen # record
                                        /\ call'[c] = Idle]_vars
  BY TakesBackStep
<1> QED BY <1>1, Invariance, PTL DEF Spec, DecisionsStand

=============================================================================
