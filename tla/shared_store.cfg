SPECIFICATION FairSpec
CONSTANTS
    Runs = {"r1"}
    OldRuns = {"r1"}
    Columns = 2
    FreshColumns = {1}
    Clients = {"a"}
    Recorders = {"b"}
    Calls <- MCCalls
    Events = {"step", "case_completed"}
    FlushNow = {"case_completed"}
    BufferLimit = 2
    StartColumns = {0, 1}
    StartStatuses = {"none", "running"}
    MaxCalls = 2
    MaxCuts = 1
INVARIANTS EventsAreKeptOnce VersionIsHonest GroupsAreWhole
PROPERTIES StreamTellsAll StreamEnds
CHECK_DEADLOCK FALSE
