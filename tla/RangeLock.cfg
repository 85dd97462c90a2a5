CONSTANTS
    Threads = {t1, t2, t3}
    MaxOffset = 2
SPECIFICATION FairSpec
INVARIANTS
    MutualExclusion
    OneEntryPerHolder
    NoLostWakeup
PROPERTIES
    SleepersWake
    ImplementsRangeMutex
