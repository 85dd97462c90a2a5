CONSTANTS
    AppThreads = {t1, t2}
    Copier = copier
    Values = {v1, v2}
    MaxBlocks = 3
    Chunk = 2
    MaxOps = 2
    MaxSessions = 2
    PollAborts = TRUE
    BackupIOFails = TRUE
    ShortWrites = FALSE
    ShortMirrors = FALSE
    SeekFails = FALSE
    Appends = FALSE
SPECIFICATION Spec
SYMMETRY Symmetry
INVARIANTS
    TypeOK
    CopiedBlocksAgree
    BackupConsistent
PROPERTY
    BackupChangesOnlyInSession
    ImplementsConsistentBackup
CHECK_DEADLOCK FALSE
