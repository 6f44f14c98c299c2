----------------------------- MODULE MCEvolution -----------------------------
(* Instances of Evolution for TLC: what the record and its events can say, and which *)
(* requests are interchangeable.                                                     *)
EXTENDS Evolution, TLC

MCStatuses == EvolutionStatus
MCNamed == Individuals \cup {None}
\* A better one of an earlier generation, a worse one of a later one, one without a score.
MCEvaluations == {<<1, 2>>, <<2, 1>>, <<1, None>>}
Symmetry == Permutations(Individuals) \cup Permutations(Calls)
=============================================================================
