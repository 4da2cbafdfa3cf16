CONSTANTS
    app   = app
    other = other
    a     = a
    Programs   = {app, other}
    Viewers    = {app}
    Ids        = {1, 2}
    Contacts   = {a}
    Conditions <- MCConditions
    Settings   <- MCSettings
    Batches    <- MCBatches
    Worlds     <- MCWorlds
    NULL       = NULL
SPECIFICATION FairSpec
INVARIANTS
    StaleIsAnnounced
    ScansMissNothing
    WholeEventIsStored
    MisusedAfterFailure
PROPERTIES
    ViewsSettle
    DeletesOnlyAsked
CHECK_DEADLOCK FALSE
