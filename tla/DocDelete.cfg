CONSTANTS
    Loggers  = {p1}
    Services = {s1}
    Groups   = {g1}
    Bits     = {}
    NULL     = NULL
    UNSET    = UNSET
    IOFaults = FALSE
    MaxId    = 2
    MaxTotal = 3
SPECIFICATION Spec
INVARIANT MatchingEventsAreRemoved
