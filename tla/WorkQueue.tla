------------------------------ MODULE WorkQueue ------------------------------
(***************************************************************************)
(* What the task queue of a Runner promises, whatever its hashes, indexes  *)
(* and requests do: tasks are taken in the order they were submitted, each *)
(* by one worker and once, or withdrawn while they wait.  A worker that    *)
(* lets go of a task is done with it: nothing puts it back.                *)
(* RunnerTasks implements it (ImplementsWorkQueue).                        *)
(***************************************************************************)
EXTENDS Naturals, Sequences

CONSTANTS Tasks, Workers, None

VARIABLES
    order,   \* every task ever submitted, oldest first
    waiting, \* those nobody has taken or withdrawn
    holder   \* what each worker has taken

queued == <<order, waiting, holder>>

Submitted(t) == \E i \in DOMAIN order : order[i] = t

Init ==
    /\ order = <<>> /\ waiting = {}
    /\ holder = [w \in Workers |-> None]

Submit(t) ==
    /\ ~Submitted(t)
    /\ order' = Append(order, t)
    /\ waiting' = waiting \cup {t}
    /\ UNCHANGED holder

\* The oldest of those that wait.
First(t) ==
    /\ t \in waiting
    /\ \E i \in DOMAIN order : order[i] = t /\ \A j \in DOMAIN order : order[j] \in waiting => i <= j

Take(w, t) ==
    /\ holder[w] = None /\ First(t)
    /\ waiting' = waiting \ {t}
    /\ holder' = [holder EXCEPT ![w] = t]
    /\ UNCHANGED order

LetGo(w) ==
    /\ holder[w] # None
    /\ holder' = [holder EXCEPT ![w] = None]
    /\ UNCHANGED <<order, waiting>>

Withdraw ==
    /\ waiting' \subseteq waiting
    /\ UNCHANGED <<order, holder>>

Next ==
    \/ \E t \in Tasks : Submit(t)
    \/ \E w \in Workers : LetGo(w) \/ \E t \in Tasks : Take(w, t)
    \/ Withdraw

Spec == Init /\ [][Next]_queued
==============================================================================
