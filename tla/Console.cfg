\* Every flow against one restart, one reset and one crash of a worker.
CONSTANTS
    Flows = {"load", "fencing", "scenario"}
    Initial = 1
    LoadWanted = 2
    Tries = 2
    NoChild = NoChild
    MaxBoots = 2
    MaxSpawns = 2
    MaxTroubles = 2
    MaxWipes = 1
    MaxAttempts = 2
    MaxClicks = 1
SPECIFICATION FairSpec
INVARIANTS NoChildForgotten ReassignedIsReclaimed
PROPERTIES NeverBornPaused FencingEnds
CHECK_DEADLOCK FALSE
