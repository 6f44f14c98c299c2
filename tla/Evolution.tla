------------------------------- MODULE Evolution -------------------------------
(***************************************************************************)
(* One evolution: its record and its individuals in object storage         *)
(* (services/evolution_service.py), the versions of the Memory chains it   *)
(* was seeded from (services/memory_client.py), and the events it          *)
(* publishes (module EventBus).                                            *)
(*                                                                         *)
(* The storage client is synchronous: a handler loses the event loop only  *)
(* while it waits for Memory.  record_individual does so once, between     *)
(* storing the individual and deciding what it changes in the record, and  *)
(* accept_individual at each request of promote_evolved_chain.  Both go on *)
(* with the record they read at their start (`seen`).  cancel, pause,      *)
(* resume and create are single steps.                                     *)
(*                                                                         *)
(* The evolution has seeds in Memory (Chains is not empty) and Memory is   *)
(* configured; without either every handler is a single step.              *)
(***************************************************************************)
EXTENDS EventBus

CONSTANTS
    Individuals,    \* their ids
    Evaluations,    \* the generation and the score (of the primary objective, None when it
                    \* is missing) an individual can be recorded with
    HigherIsBetter, \* fitness.higher_is_better
    Chains,         \* affected_chain_ids
    DefaultChain,   \* its first member
    Other,          \* whoever else writes versions of a chain
    Calls,          \* concurrent API requests
    MaxRequests,    \* bound on requests and on other writers' versions
    MaxFaults,      \* bound on failed writes and unanswered Memory requests
    WatchFrom       \* bound on streams: a client connects after this many requests

EvolutionStatus == {"queued", "running", "paused", "completed", "failed", "cancelled", "accepted"}
Finished == {"completed", "failed", "cancelled", "accepted"}

ASSUME EvolutionAssumption ==
    /\ Statuses = EvolutionStatus /\ Named = Individuals \cup {None}
    /\ None \notin Individuals \cup Chains \cup Nat
    /\ Other \notin Individuals
    /\ Evaluations \subseteq Nat \X (Nat \cup {None})
    /\ HigherIsBetter \in BOOLEAN
    /\ DefaultChain \in Chains
    /\ MaxRequests \in Nat /\ MaxFaults \in Nat /\ WatchFrom \in Nat

VARIABLES
    record,     \* evolutions/<id>.json
    individual, \* evolutions/<id>/individuals/<id>.json
    versions,   \* of each chain in Memory: whose acceptance wrote it
    call,       \* what each request carries across an await
    requests, faults,
    raced       \* history: a score was compared with a best of the past, or never was

evolution == <<record, individual, versions>>
bounds == <<requests, faults>>
vars == <<bus, evolution, call, bounds, raced>>

Record == [status : EvolutionStatus \cup {None}, \* None: it does not exist
           generation : Nat,
           best : Individuals \cup {None},
           accepted : Individuals \cup {None},
           chain : Chains \cup {None},
           version : Nat]
Individual == [stored : BOOLEAN, generation : Nat, score : Nat \cup {None}, accepted : BOOLEAN]

\* Where a request waits: for save_chain, for the chain's latest version, for its newest
\* acceptance, for the PUT, for its newest acceptance again, for nothing any more.
Waits == {"idle", "saving", "latest", "versions", "put", "recheck", "promoted"}
Call == [pc : Waits, seen : Record, ind : Individuals \cup {None}, chain : Chains \cup {None},
         etag : Nat, version : Nat]

NewRecord == [status |-> None, generation |-> 0, best |-> None, accepted |-> None,
              chain |-> None, version |-> 0]
Idle == [pc |-> "idle", seen |-> NewRecord, ind |-> None, chain |-> None, etag |-> 0, version |-> 0]

EvolutionTypeOK ==
    /\ record \in Record
    /\ individual \in [Individuals -> Individual]
    /\ versions \in [Chains -> Seq(Individuals \cup {Other})]
    /\ call \in [Calls -> Call]
    /\ requests \in 0..MaxRequests /\ faults \in 0..MaxFaults
    /\ raced \in BOOLEAN

Init ==
    /\ BusInit
    /\ record = NewRecord
    /\ individual = [i \in Individuals |->
                       [stored |-> FALSE, generation |-> 0, score |-> None, accepted |-> FALSE]]
    /\ versions = [c \in Chains |-> <<Other>>]
    /\ call = [c \in Calls |-> Idle]
    /\ requests = 0 /\ faults = 0 /\ raced = FALSE

Request == requests < MaxRequests /\ requests' = requests + 1 /\ UNCHANGED faults
Fault == faults < MaxFaults /\ faults' = faults + 1 /\ UNCHANGED requests

Exists == record.status # None
Persist(r) == record' = r

----------------------------------------------------------------------------
\* create_evolution, and the controls.  A failed upload changes nothing and is left out.
Create ==
    /\ Request /\ ~Exists
    /\ Persist([record EXCEPT !.status = "queued"])
    /\ Publish(Says("queued", None, None))
    /\ UNCHANGED <<individual, versions, call, raced>>

Control(from, to) ==
    /\ Request /\ record.status \in from
    /\ Persist([record EXCEPT !.status = to])
    /\ Publish(Says(to, None, None))
    /\ UNCHANGED <<individual, versions, call, raced>>

Cancel == Control(EvolutionStatus \ Finished, "cancelled")
Pause == Control({"queued", "running"}, "paused")
Resume == Control({"paused"}, "running")

----------------------------------------------------------------------------
\* record_individual up to its await: the individual is stored and announced.
RecordBegin(c, i, evaluation) ==
    /\ Request /\ Exists
    /\ call[c].pc = "idle" /\ ~individual[i].stored
    /\ individual' = [individual EXCEPT ![i] = [stored |-> TRUE,
                                                generation |-> evaluation[1],
                                                score |-> evaluation[2],
                                                accepted |-> FALSE]]
    /\ call' = [call EXCEPT ![c] = [Idle EXCEPT !.pc = "saving", !.seen = record, !.ind = i]]
    /\ Publish(Nothing)
    /\ UNCHANGED <<record, versions, raced>>

\* Mutant of Wins: the direction of the fitness is ignored.
WinsWhenLower(candidate, best) == candidate < best

\* _wins
Wins(candidate, best) == IF HigherIsBetter THEN candidate > best ELSE candidate < best

ScoreOf(i) == IF i = None THEN None ELSE individual[i].score
Improves(i, best) == /\ ScoreOf(i) # None
                     /\ ScoreOf(best) # None => Wins(ScoreOf(i), ScoreOf(best))

\* update_status: the status and the changes given, the rest as it is stored now.
Updated(status, generation, best) ==
    [record EXCEPT !.status = status, !.generation = generation, !.best = best]

\* Mutant of RecordFinish: update_status does not publish.
RecordFinishSilent(c) ==
    LET seen == call[c].seen
        i == call[c].ind
        better == Improves(i, seen.best)
        later == individual[i].generation > seen.generation
    IN  /\ call[c].pc = "saving"
        /\ call' = [call EXCEPT ![c] = Idle]
        /\ raced' = (raced \/ seen.best # record.best)
        /\ IF better \/ later
           THEN Persist(Updated(seen.status,
                                IF later THEN individual[i].generation ELSE record.generation,
                                IF better THEN i ELSE record.best))
           ELSE UNCHANGED record
        /\ IF better THEN Publish(Says(None, i, None)) ELSE UNCHANGED bus
        /\ UNCHANGED <<individual, versions, bounds>>

\* Its rest.  The decision is taken, and the status written, as of `seen`.
RecordFinish(c) ==
    LET seen == call[c].seen
        i == call[c].ind
        better == Improves(i, seen.best)
        later == individual[i].generation > seen.generation
    IN  /\ call[c].pc = "saving"
        /\ call' = [call EXCEPT ![c] = Idle]
        /\ raced' = (raced \/ seen.best # record.best)
        /\ IF better \/ later
           THEN Persist(Updated(seen.status,
                                IF later THEN individual[i].generation ELSE record.generation,
                                IF better THEN i ELSE record.best))
           ELSE UNCHANGED record
        /\ \/ better /\ PublishBoth(Says(seen.status, i, None), Says(None, i, None))
           \/ ~better /\ later /\ Publish(Says(seen.status, None, None))
           \/ ~better /\ ~later /\ UNCHANGED bus
        /\ UNCHANGED <<individual, versions, bounds>>

\* The record cannot be written: the request fails with its individual stored.
RecordFails(c) ==
    /\ Fault /\ call[c].pc = "saving"
    /\ call' = [call EXCEPT ![c] = Idle]
    /\ raced' = TRUE
    /\ UNCHANGED <<bus, evolution>>

----------------------------------------------------------------------------
\* Mutant of AcceptBegin: the record may have been accepted for another individual.
AcceptBeginSwitches(c, i, target) ==
    /\ Request /\ Exists
    /\ call[c].pc = "idle"
    /\ individual[i].stored
    /\ call' = [call EXCEPT ![c] = [Idle EXCEPT !.pc = "latest", !.seen = record, !.ind = i,
                                    !.chain = IF target = None THEN DefaultChain ELSE target]]
    /\ UNCHANGED <<bus, evolution, raced>>

\* accept_individual up to its first request to Memory.
AcceptBegin(c, i, target) ==
    /\ Request /\ Exists
    /\ call[c].pc = "idle"
    /\ record.status # "accepted" \/ record.accepted = None
    /\ individual[i].stored
    /\ call' = [call EXCEPT ![c] = [Idle EXCEPT !.pc = "latest", !.seen = record, !.ind = i,
                                    !.chain = IF target = None THEN DefaultChain ELSE target]]
    /\ UNCHANGED <<bus, evolution, raced>>

\* The same individual again: the event is published once more.
AcceptAgain(i, target) ==
    /\ Request
    /\ record.status = "accepted" /\ record.accepted = i
    /\ target \in {None, record.chain}
    /\ Publish(Says("accepted", None, i))
    /\ UNCHANGED <<evolution, call, raced>>

Latest(chain) == Len(versions[chain])
AcceptedLast(chain, i) == versions[chain][Latest(chain)] = i

\* promote_evolved_chain: GET the latest version and its ETag, then GET the newest
\* acceptance, then PUT with If-Match.
GetLatest(c) ==
    /\ call[c].pc = "latest"
    /\ call' = [call EXCEPT ![c].pc = "versions", ![c].etag = Latest(call[c].chain)]
    /\ UNCHANGED <<bus, evolution, bounds, raced>>

\* Mutant of GetVersions: a 412 is taken for an acceptance without looking whose it is.
GetVersionsTrusting(c) ==
    /\ call[c].pc \in {"versions", "recheck"}
    /\ IF call[c].pc = "versions" /\ ~AcceptedLast(call[c].chain, call[c].ind)
       THEN call' = [call EXCEPT ![c].pc = "put"]
       ELSE call' = [call EXCEPT ![c].pc = "promoted", ![c].version = Latest(call[c].chain)]
    /\ UNCHANGED <<bus, evolution, bounds, raced>>

GetVersions(c) ==
    /\ call[c].pc \in {"versions", "recheck"}
    /\ \/ /\ AcceptedLast(call[c].chain, call[c].ind)
          /\ call' = [call EXCEPT ![c].pc = "promoted", ![c].version = Latest(call[c].chain)]
       \/ /\ ~AcceptedLast(call[c].chain, call[c].ind)
          /\ call[c].pc = "versions"
          /\ call' = [call EXCEPT ![c].pc = "put"]
       \/ /\ ~AcceptedLast(call[c].chain, call[c].ind)
          /\ call[c].pc = "recheck" \* the 412 stands: the accept is refused
          /\ call' = [call EXCEPT ![c] = Idle]
    /\ UNCHANGED <<bus, evolution, bounds, raced>>

NewVersion(chain, writer) == versions' = [versions EXCEPT ![chain] = Append(@, writer)]

\* Mutant of Put: without If-Match.
PutBlind(c) ==
    /\ call[c].pc = "put"
    /\ NewVersion(call[c].chain, call[c].ind)
    /\ call' = [call EXCEPT ![c].pc = "promoted", ![c].version = Latest(call[c].chain) + 1]
    /\ UNCHANGED <<bus, record, individual, bounds, raced>>

Put(c) ==
    /\ call[c].pc = "put"
    /\ IF call[c].etag = Latest(call[c].chain)
       THEN /\ NewVersion(call[c].chain, call[c].ind)
            /\ call' = [call EXCEPT ![c].pc = "promoted", ![c].version = call[c].etag + 1]
       ELSE /\ call' = [call EXCEPT ![c].pc = "recheck"]
            /\ UNCHANGED versions
    /\ UNCHANGED <<bus, record, individual, bounds, raced>>

\* A request to Memory fails or is not answered, in which case a PUT may have been applied:
\* the accept is refused.
PromoteFails(c) ==
    /\ Fault /\ call[c].pc \in {"latest", "versions", "put", "recheck"}
    /\ call' = [call EXCEPT ![c] = Idle]
    /\ \/ UNCHANGED versions
       \/ /\ call[c].pc = "put" /\ call[c].etag = Latest(call[c].chain)
          /\ NewVersion(call[c].chain, call[c].ind)
    /\ UNCHANGED <<bus, record, individual, raced>>

\* Mutant of Flagged: the flag is written as the id.
FlaggedById(i) == [individual EXCEPT ![i].accepted = i]

\* The rest of accept_individual: two writes, each of which may fail.
Flagged(i) == [individual EXCEPT ![i].accepted = TRUE]

AcceptFinish(c) ==
    LET i == call[c].ind
    IN  /\ call[c].pc = "promoted"
        /\ call' = [call EXCEPT ![c] = Idle]
        /\ individual' = Flagged(i)
        /\ Persist([record EXCEPT !.status = "accepted", !.accepted = i, !.best = i,
                                  !.chain = call[c].chain, !.version = call[c].version])
        /\ Publish(Says("accepted", None, i))
        /\ UNCHANGED <<versions, bounds, raced>>

AcceptFails(c) ==
    /\ Fault /\ call[c].pc = "promoted"
    /\ call' = [call EXCEPT ![c] = Idle]
    /\ individual' \in {individual, Flagged(call[c].ind)}
    /\ UNCHANGED <<bus, record, versions, raced>>

\* Someone else writes a version of a chain (at most one after another, to bound the run).
OtherVersion(chain) ==
    /\ Request
    /\ ~AcceptedLast(chain, Other)
    /\ NewVersion(chain, Other)
    /\ UNCHANGED <<bus, record, individual, call, raced>>

----------------------------------------------------------------------------
Snapshot == Says(record.status, record.best, record.accepted)
Watch(s) ==
    /\ Exists /\ requests >= WatchFrom
    /\ Connect(s, Snapshot)
    /\ UNCHANGED <<evolution, call, bounds, raced>>
StreamMoves(s) == StreamStep(s) /\ UNCHANGED <<evolution, call, bounds, raced>>

RecordCall(c) == \/ \E i \in Individuals, x \in Evaluations : RecordBegin(c, i, x)
                 \/ RecordFinish(c) \/ RecordFails(c)
AcceptCall(c) == \/ \E i \in Individuals, t \in Chains \cup {None} : AcceptBegin(c, i, t)
                 \/ GetLatest(c) \/ GetVersions(c) \/ Put(c) \/ PromoteFails(c)
                 \/ AcceptFinish(c) \/ AcceptFails(c)

Next ==
    \/ Create \/ Cancel \/ Pause \/ Resume
    \/ \E c \in Calls : RecordCall(c) \/ AcceptCall(c)
    \/ \E i \in Individuals, t \in Chains \cup {None} : AcceptAgain(i, t)
    \/ \E chain \in Chains : OtherVersion(chain)
    \/ \E s \in Streams : Watch(s) \/ StreamMoves(s)

Spec == Init /\ [][Next]_vars

----------------------------------------------------------------------------
\* Types of the record, the individuals, Memory and the requests, and of the bus.
TypeOK == EvolutionTypeOK /\ BusTypeOK

\* The three places an acceptance is written to agree: the individual the record names is
\* flagged, and the version it names is in that chain and was written for that individual,
\* however accepts overlap, fail half-way or find an earlier one's version.
AcceptanceRecorded ==
    record.accepted # None =>
        /\ individual[record.accepted].accepted
        /\ record.chain \in Chains /\ record.version \in 1..Len(versions[record.chain])
        /\ versions[record.chain][record.version] = record.accepted

\* Accepts of one individual, repeated or at the same time, whose answers may have been lost,
\* do not write it twice in a row: the ETag was read before the newest acceptance was.
PromotedOnce ==
    \A chain \in Chains : \A k \in 2..Len(versions[chain]) :
        versions[chain][k] \in Individuals => versions[chain][k - 1] # versions[chain][k]

\* A cancellation or an acceptance is taken back, or the generation lowered, only by a
\* request that had read the record before it was last changed.
TakesBack ==
    \/ record'.generation < record.generation
    \/ record.status \in Finished /\ record'.status \notin {record.status, "accepted"}
    \/ record.status = "accepted" /\ record'.accepted # record.accepted
DecisionsStand ==
    [][TakesBack => \E c \in Calls : /\ call[c].pc \in {"saving", "promoted"}
                                     /\ call[c].seen # record
                                     /\ call'[c] = Idle]_vars

\* Until a winner is accepted, no individual whose recording has ended beats the best one,
\* unless a recording failed or another changed the best under it.
Settled(i) == individual[i].stored /\ \A c \in Calls : ~(call[c].pc = "saving" /\ call[c].ind = i)
BestIsBest ==
    ~raced /\ record.accepted = None =>
        \A i \in Individuals : (Settled(i) /\ individual[i].score # None) =>
            /\ record.best # None
            /\ IF HigherIsBetter THEN individual[record.best].score >= individual[i].score
                                 ELSE individual[record.best].score <= individual[i].score

\* A client that lost nothing and has been sent everything knows the record as it is: every
\* write is announced before anything else can run, and the events say what it changed.  The
\* exception is the best individual once a winner is accepted, which no event mentions.
Current(view) == /\ view.status = record.status /\ view.accepted = record.accepted
                 /\ record.accepted = None => view.best = record.best
CaughtUp ==
    \A s \in Streams :
        (stream[s].pc \in {"first"} \cup Reading /\ ~stream[s].lost /\ Pending(s) = <<>>) =>
            Current(stream[s].view)
=============================================================================
