CONSTANTS
    Callers = {c1}
    AppThreads = {t1, t2}
    NFiles = 2
    MaxBackups = 3
    MaxErrors = 4
    OutsideErrors = TRUE
    CloseFails = TRUE
SPECIFICATION Spec
SYMMETRY Symmetry
INVARIANTS
    FailuresAreReported
    ErrorStringIsAlive
    MissingFilesLeaveAnError
CHECK_DEADLOCK FALSE
