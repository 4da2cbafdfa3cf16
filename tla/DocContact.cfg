CONSTANTS
    Loggers  = {p1}
    Contacts = {c1}
    Names    = {n1}
    Abooks   = {u1}
    NULL     = NULL
SPECIFICATION Spec
INVARIANT AbookIsLatest
