CONSTANTS
    d = d
    e = e
    f = f
    g = g
    Sources = 2
    Names <- SmallTree
    Directories <- SmallDirectories
    Contents <- SmallContents
    Excluded <- ExcludedNames
    ExcludedInBackup <- ExcludedNames
    Threads = {t1, t2}
    MaxCalls = 2
    Calls = {"open", "mkdir", "rmdir", "unlink", "rename"}
SPECIFICATION FairSpec
INVARIANTS
    FilesAreBackedUp
    DirectoriesAreBackedUp
    ExcludedStayOut
    CrashNeedsRemovalOrRename
    ProgressOfFirstDirectory
PROPERTY
    BackupReturns
CHECK_DEADLOCK FALSE
