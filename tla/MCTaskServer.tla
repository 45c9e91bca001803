---------------------------- MODULE MCTaskServer -----------------------------
(***************************************************************************)
(* Small instances of TaskServer.                                          *)
(***************************************************************************)
EXTENDS TaskServer, TLC

CONSTANTS t1, t2, w1, w2, n1

OneTask == {t1}
TwoTasks == {t1, t2}

\* Two ids under one name: the second is used once the first row is deleted.
SameName == [w \in WorkerIds |-> n1]
OwnName == [w \in WorkerIds |-> w]

\* A task that may fail once, and one that may fail twice.
Attempts == [t \in Tasks |-> IF t = t1 THEN 2 ELSE 1]
Priorities == [t \in Tasks |-> IF t = t1 THEN 0 ELSE 1]

WorkerSymmetry == Permutations(WorkerIds)

=============================================================================
