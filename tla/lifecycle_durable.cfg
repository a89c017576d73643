SPECIFICATION Spec
CONSTANTS
    Runs = {r1}
    Flows = {f1, f2, f3}
    MaxConcurrent = 1
    Durable = TRUE
    RunTimeout = TRUE
    AutoRerecord = TRUE
    Entries = {"stdio", "http"}
    MaxStops = 2
    MaxFaults = 1
SYMMETRY Symmetry
INVARIANTS
    TypeOK
    NoFlowLost
    EveryFlowAccounted
    CheckpointIsHonest
    CompletedRunsAreWhole
    RepeatsAreBounded
PROPERTIES
    FinalRunsStayFinal
\* Every run has ended and the process may not stop again.
CHECK_DEADLOCK FALSE
