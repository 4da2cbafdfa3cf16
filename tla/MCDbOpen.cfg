CONSTANTS
    p1 = p1
    p2 = p2
    p3 = p3
    Loggers = {p1, p2, p3}
    Events  = {e1, e2}
    NULL    = NULL
    Worlds <- GoodWorlds
SPECIFICATION FairSpec
INVARIANTS
    TypeOK
    AcknowledgedKept
    HistoryKeptOrSlipped
    SameFile
PROPERTIES
    OnlyCorruptedDeleted
    EveryoneOpens
