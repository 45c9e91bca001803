\* Two processes: every task ends, with a crash and failing handlers.
CONSTANTS
    t1 = t1 t2 = t2 w1 = w1 w2 = w2
    Tasks <- OneTask
    WorkerIds = {w1, w2}
    Names = {w1, w2}
    NameOf <- OwnName
    MaxAttempts <- Attempts
    Priority <- SamePriority
    MaxGrants = 4
    MaxBatch = 10
    NoWorker = NoWorker
    Capacity = 1
    MaxLost = 0
    MaxKills = 1
    MaxMoves = 0
    MayFail = TRUE
    MayStop = FALSE
    MayPause = FALSE
    Timely = TRUE
SPECIFICATION FairSpec
PROPERTIES TasksFinish
