SPECIFICATION FairSpec
CONSTANTS
    Runs = {r1, r2}
    Flows = {f1}
    MaxConcurrent = 1
    Durable = FALSE
    RunTimeout = TRUE
    AutoRerecord = TRUE
    Entries = {"stdio"}
    MaxStops = 1
    MaxFaults = 0
INVARIANTS
    ReportedCasesAreOnRecord
    WaitingAuthNeverExecutes
PROPERTIES
    CancelToldHolds
    RunsSettle
\* Every run has ended and the process may not stop again.
CHECK_DEADLOCK FALSE
