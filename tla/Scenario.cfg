\* The smallest intervals that TimingAssumption admits with calls that end
\* within the unit they begin in; a handler runs longer than a lease lasts.  Of
\* the two tasks one may be retried and dead-lettered, and the
\* deadline is the least for which PassesBeforeDeadline is proved.
CONSTANTS
    w1 = w1 w2 = w2
    Workers = {w1, w2}
    NoWorker = NoWorker
    Tasks <- TwoTasks
    NoTask = 0
    Beat = 1
    Silence = 1
    Lease = 1
    Sweep = 1
    Poll = 1
    Work = 2
    MaxAttempts = 2
    Backoff <- ShortBackoff
    Delay = 0
    Skips = 1
    MaxTroubles = 1
    Draws = {8, 9}
    CrashCount = 1
    Deadline = 11
SPECIFICATION SSpec
INVARIANTS HealthyStaysOnline HealthyKeepsLease RecoveredInTime NoCascade PassIsRecovery PassesInTime
PROPERTIES DetectedFirst
SYMMETRY Symmetry
