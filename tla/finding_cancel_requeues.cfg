SPECIFICATION Spec
CONSTANTS
    Runs = {r1}
    Flows = {f1, f2}
    MaxConcurrent = 1
    Durable = TRUE
    RunTimeout = FALSE
    AutoRerecord = FALSE
    Entries = {"stdio"}
    MaxStops = 0
    MaxFaults = 0
PROPERTIES
    CancelToldHolds
CHECK_DEADLOCK FALSE
