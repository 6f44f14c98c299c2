---------------------------- MODULE MCRunnerPool ----------------------------
(* Instances of RunnerPool for TLC: the runners are interchangeable, the experiments *)
(* are not (the scheduler takes the oldest).                                         *)
EXTENDS RunnerPool, TLC

Symmetry == Permutations(Runners) \cup Permutations(Clients)
=============================================================================
