CHECK_DEADLOCK FALSE
SPECIFICATION FairSpec
CONSTANTS
    Jobs = {j1, j2}
    NoRun = NoRun
    BackoffLimit = 1
    MaxCrashes = 1
    MayTimeOut = TRUE
    CompleteWhen = {"pending", "failed"}
INVARIANTS
    ProcessedIsWhole
    ProcessedHasChunks
    GoneHasNoChunks
    ProcessingHasJob
PROPERTIES
    ProcessingEnds
