SPECIFICATION FairSpec
CONSTANTS
    f1 = f1
    f2 = f2
    f3 = f3
    Flows <- MCFlows
    area <- MCArea
    Concurrency = 2
    Durable = TRUE
    MaxSlots = 3
    MaxFaults = 1
INVARIANTS
    TypeOK
    EverySlotAccounted
PROPERTIES
    IntakeSpec
    CheckpointNeverGoesBack
    PoolEnds
\* The run has ended.
CHECK_DEADLOCK FALSE
