\* Two refreshes of the counters at a time, beside a push and a poll; two tasks; two
\* workers, two refreshes of their rows.
CONSTANTS
    Tasks = {t1, t2}
    Workers = {w1, w2}
    MaxDead = 1
    MaxRefreshes = 2
    MaxPushes = 1
    MaxPolls = 1
    MaxCalls = 2
    MaxDue = 2
    MaxTroubles = 2
SPECIFICATION Spec
INVARIANTS TypeOK CountsOrdered BulkIsWhole
PROPERTIES CountersCatchUp AliveIsShown
