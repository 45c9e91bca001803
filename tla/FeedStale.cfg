\* A connected dashboard keeps a stale row.
CONSTANTS
    t1 = t1 t2 = t2
    Tasks <- OneTask
    MaxVersion = 1
    RingSize = 2
    TailSize = 1
    FeedSize = 2
    MaxInserts = 1
    MaxReads = 1
    MaxDrops = 0
    MaySilence = FALSE
    MayBreak = FALSE
SPECIFICATION FairSpec
PROPERTIES LiveConverges
