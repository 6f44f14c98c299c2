---------------------------- MODULE MCRunnerTasks ----------------------------
(* Instances of RunnerTasks for TLC: one experiment, whose tasks are RUN_EXPERIMENT    *)
(* tasks except those of AuxTasks, created through POST /tasks with another type.      *)
EXTENDS RunnerTasks, TLC

CONSTANTS e1, AuxTasks

MCExpOf == [t \in Tasks |-> e1]
MCRunTasks == Tasks \ AuxTasks
Symmetry == Permutations(MCRunTasks) \cup Permutations(Clients)
=============================================================================
