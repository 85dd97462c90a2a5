CONSTANTS
    Count = 2
    SourcePaths <- SomeSources
    DestinationPaths <- SomeDestinations
    Rests <- SomeRests
SPECIFICATION Spec
INVARIANTS
    LastPairIsChecked
    OwnStringsAreFreed
    FailuresAreReported
    CaptureAgreesWithCopier
CHECK_DEADLOCK FALSE
