\* One process of capacity 1: late heartbeats, lost calls, a crash, a reassignment, SIGTERM, pauses.
CONSTANTS
    t1 = t1 t2 = t2 w1 = w1 w2 = w2
    Tasks <- OneTask
    WorkerIds = {w1}
    Names = {w1}
    NameOf <- OwnName
    MaxAttempts <- Attempts
    Priority <- SamePriority
    MaxGrants = 2
    MaxBatch = 10
    NoWorker = NoWorker
    Capacity = 1
    MaxLost = 1
    MaxKills = 1
    MaxMoves = 1
    MayFail = FALSE
    MayStop = TRUE
    MayPause = TRUE
    Timely = FALSE
SPECIFICATION FairSpec
INVARIANTS LeaseOfExecution AckOfItsExecution ExecutionsBounded
PROPERTIES KeepsContract RunningIsOnline DeadIsDetected
