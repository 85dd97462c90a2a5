SPECIFICATION Spec
CONSTANTS
    a1 = a1
    a2 = a2
    b1 = b1
    Threads <- MCThreads
    Locks <- CodeLocks
    Rank <- CodeRank
    MaxRank = 10
    ProgramsOf <- MCProgramsOf
    MaxCalls = 1
    CallbackUses = {}
INVARIANTS
    NoDeadlock
    LocksAreOrdered
CHECK_DEADLOCK FALSE
