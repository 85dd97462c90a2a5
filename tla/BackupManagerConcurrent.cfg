CONSTANTS
    Callers = {c1, c2}
    AppThreads = {t1}
    NFiles = 2
    MaxBackups = 2
    MaxErrors = 1
    OutsideErrors = FALSE
    CloseFails = FALSE
SPECIFICATION Spec
SYMMETRY Symmetry
INVARIANT
    SuccessMeansComplete
CHECK_DEADLOCK FALSE
