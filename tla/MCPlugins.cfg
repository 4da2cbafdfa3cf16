CONSTANTS
    l1 = l1
    l2 = l2
    p1 = p1
    p2 = p2
    s1 = s1
    t1 = t1
    f1 = f1
    Loggers     = {l1, l2}
    PluginNames = {p1, p2}
    Names       = {s1, t1, f1}
    Manifests   <- MCManifests
    MaxMail     = 1
    MaxDeaths   = 1
    MaxFaults   = 1
    NULL        = NULL
SPECIFICATION FairSpec
INVARIANTS
    TypeOK
    EventsStayVisible
    FoundIsRegistered
    LoadedForItsService
    LoadedCanBeUsed
PROPERTIES
    WaitingAreTold
CHECK_DEADLOCK FALSE
