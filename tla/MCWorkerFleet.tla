--------------------------- MODULE MCWorkerFleet -----------------------------
(***************************************************************************)
(* Small instances of WorkerFleet.                                         *)
(***************************************************************************)
EXTENDS WorkerFleet, TLC

CONSTANTS t1, t2, w1, w2

OneTask == {t1}
TwoTasks == {t1, t2}

OwnName == [w \in WorkerIds |-> w]

\* A task that may fail once, and one that may not.
Attempts == [t \in Tasks |-> IF t = t1 THEN 2 ELSE 1]
SamePriority == [t \in Tasks |-> 0]

WorkerSymmetry == Permutations(WorkerIds)

=============================================================================
