CONSTANTS
    s1 = s1
    s2 = s2
    g1 = g1
    g2 = g2
    Loggers  = {p1}
    Services = {s1, s2}
    Groups   = {g1, g2}
    Bits     = {0}
    NULL     = NULL
    UNSET    = UNSET
    IOFaults = TRUE
    MaxId    = 2
    MaxTotal = 3
SPECIFICATION Spec
INVARIANTS
    TypeOK
    OneRowPerGroup
    GroupedEventsCached
    NoPlaceholder
    RowsPointHome
    NeverUndercounts
    RefusedForACause
    SingleEventFlagsExact
PROPERTY CountsStayExact
SYMMETRY Symmetric
