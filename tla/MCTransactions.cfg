CONSTANTS
    p1 = p1
    p2 = p2
    Loggers   = {p1, p2}
    Events    = {e1}
    NULL      = NULL
    Contracts = {TRUE, FALSE}
    IOFaults  = TRUE
SPECIFICATION Spec
INVARIANTS
    TypeOK
    CommittedWhole
    NothingLeftOpen
    AtomicSnapshot
SYMMETRY Symmetric
