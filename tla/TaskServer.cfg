\* One task, every statement and every interleaving of two handlers in flight.
CONSTANTS
    t1 = t1 t2 = t2 w1 = w1 w2 = w2 n1 = n1
    Tasks <- OneTask
    WorkerIds = {w1, w2}
    Names = {w1, w2}
    NameOf <- OwnName
    MaxAttempts <- Attempts
    Priority <- Priorities
    MaxGrants = 3
    MaxBatch = 10
    NoWorker = NoWorker
    MaxInFlight = 2

SYMMETRY WorkerSymmetry
SPECIFICATION Spec
INVARIANTS TypeOK LeaseConsistent FailDecisionFresh RetryBudget
PROPERTIES LeaseKeptByHolder KeepsContract
