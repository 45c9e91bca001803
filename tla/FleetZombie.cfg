\* A stale execution acknowledges with the fresh lease of its process.
CONSTANTS
    t1 = t1 t2 = t2 w1 = w1 w2 = w2
    Tasks <- OneTask
    WorkerIds = {w1}
    Names = {w1}
    NameOf <- OwnName
    MaxAttempts <- Attempts
    Priority <- SamePriority
    MaxGrants = 2
    MaxBatch = 10
    NoWorker = NoWorker
    Capacity = 2
    MaxLost = 0
    MaxKills = 0
    MaxMoves = 0
    MayFail = FALSE
    MayStop = FALSE
    MayPause = FALSE
    Timely = FALSE
SPECIFICATION Spec
INVARIANTS AckOfItsExecution
