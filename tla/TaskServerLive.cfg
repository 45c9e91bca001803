\* Two tasks of different priority: statements over several rows, and liveness of the timers.
CONSTANTS
    t1 = t1 t2 = t2 w1 = w1 w2 = w2 n1 = n1
    Tasks <- TwoTasks
    WorkerIds = {w1}
    Names = {n1}
    NameOf <- SameName
    MaxAttempts <- Attempts
    Priority <- Priorities
    MaxGrants = 2
    MaxBatch = 10
    NoWorker = NoWorker
    MaxInFlight = 1
SPECIFICATION FairSpec
PROPERTIES NoTaskStuckRunning WaitingTaskOffered
