CONSTANTS
    Callers = {c1, c2}
    AppThreads = {t1, t2}
    NFiles = 1
    MaxBackups = 2
    MaxErrors = 2
    OutsideErrors = TRUE
    CloseFails = TRUE
SPECIFICATION FairSpec
INVARIANTS
    BackupsAreSerialized
    SessionOutlivesCaptures
PROPERTY
    BackupsReturn
CHECK_DEADLOCK FALSE
