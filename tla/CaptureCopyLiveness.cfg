CONSTANTS
    AppThreads = {t1, t2}
    Copier = copier
    Values = {v1}
    MaxBlocks = 2
    Chunk = 1
    MaxOps = 2
    MaxSessions = 1
    PollAborts = TRUE
    BackupIOFails = TRUE
    ShortWrites = FALSE
    ShortMirrors = FALSE
    SeekFails = FALSE
    Appends = FALSE
SPECIFICATION FairSpec
PROPERTIES
    CallsReturn
    BackupReturns
CHECK_DEADLOCK FALSE
