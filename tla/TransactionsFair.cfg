CONSTANTS
    Loggers   = {p1, p2}
    Events    = {e1}
    NULL      = NULL
    Contracts = {TRUE}
    IOFaults  = FALSE
SPECIFICATION FairSpec
PROPERTIES
    CallsAreAtomic
    CallsReturn
