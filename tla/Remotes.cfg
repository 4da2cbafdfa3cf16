CONSTANTS
    Loggers  = {p1, p2}
    Contacts = {c1, c2}
    Names    = {n1, s}
    Abooks   = {u1, s}
    NULL     = NULL
SPECIFICATION Spec
INVARIANTS
    TypeOK
    NameIsLatest
    RemovedUidsAreGone
