CONSTANTS
    p1 = p1
    p2 = p2
    Loggers   = {p1, p2}
    Names     = {n1}
    NULL      = NULL
    MaxSerial = 2
    MaxDirs   = 1
SPECIFICATION Spec
INVARIANTS
    TypeOK
    AttachmentsHaveFiles
    DetailsGoWithTheirEvent
    FullEventsAreComplete
SYMMETRY Symmetric
