\* reassign() does not compare the holder when it writes.
CONSTANTS
    t1 = t1 t2 = t2 w1 = w1 w2 = w2 n1 = n1
    Tasks <- OneTask
    WorkerIds = {w1, w2}
    Names = {w1, w2}
    NameOf <- OwnName
    MaxAttempts <- Attempts
    Priority <- Priorities
    MaxGrants = 3
    MaxBatch = 10
    NoWorker = NoWorker
    MaxInFlight = 2
SPECIFICATION Spec
PROPERTIES ReassignFromHolder
