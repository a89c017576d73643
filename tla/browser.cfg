SPECIFICATION Spec
CONSTANTS
    Clients = {"a", "b", "c"}
    Profiles = {"user", "env"}
    AutoEnv = "env"
    CacheLife = 2
    ValidityLife = 1
    MaxTime = 3
    MaxWrites = 2
    Agendas <- MCAgendas
    Routes <- MCRoutes
    Cookies = {"sid", "csrf"}
    Buffers = {"console", "network"}
    MaxEvents = 2
    MaxSessions = 2
    MaxTabs = 2
    MaxEmitted = 3
INVARIANTS SessionsDoNotMix ShownSinceNavigation TestedIsThisFile
PROPERTIES LoginsAreShared
CHECK_DEADLOCK FALSE
