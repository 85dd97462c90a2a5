SPECIFICATION FairSpec
CONSTANTS
    Blocks = 3
    MaxFd = 4
    MaxCalls = 3
INVARIANTS
    CopyIsFaithful
    DescriptorsAreKept
PROPERTY
    CopyEnds
CHECK_DEADLOCK FALSE
