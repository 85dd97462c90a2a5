CONSTANTS
    Names = {a, b}
    Openable = {a}
    NoName = NoName
    MaxSessions = 2
    MaxObjects = 5
    Threads = {t1, t2}
    Existing = {{}, {a}}
    MaxFds = 2
    MaxCalls = 3
    Liberties = {"open", "truncate"}
    Failures = {"open", "prepare", "copy"}
SPECIFICATION Spec
SYMMETRY Symmetry
INVARIANTS
    ReferencesMatchUsers
    OneObjectPerName
    DestinationsAreThere
    UnrenamedFilesAreBackedUp
PROPERTY
    FinishedBackupsStay
CHECK_DEADLOCK FALSE
