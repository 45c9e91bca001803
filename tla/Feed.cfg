\* One task, two changes: events that overtake each other, sockets that close,
\* restarts, silent changes, failing INSERTs; and liveness.
CONSTANTS
    t1 = t1 t2 = t2
    Tasks <- OneTask
    MaxVersion = 2
    RingSize = 2
    TailSize = 1
    FeedSize = 2
    MaxInserts = 2
    MaxReads = 1
    MaxDrops = 2
    MaySilence = TRUE
    MayBreak = TRUE
SPECIFICATION FairSpec
INVARIANTS FeedFollowsRing RingHoldsLog OneSource
PROPERTIES PollingConverges EventsArrive
