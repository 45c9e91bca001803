SPECIFICATION FairSpec
CONSTANTS
    p1 = p1
    p2 = p2
    p3 = p3
    NoProc = NoProc
    Procs <- TwoProcs
    Port <- Ports
    MaxKills = 2
INVARIANTS SchemaBeforeServing RecordedIffApplied EachMigrationOnce
PROPERTIES AloneBootServes
CHECK_DEADLOCK FALSE
