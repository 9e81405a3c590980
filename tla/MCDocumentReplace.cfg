CHECK_DEADLOCK FALSE
SPECIFICATION Spec
CONSTANTS
    Jobs = {j1, j2}
    NoRun = NoRun
    BackoffLimit = 1
    MaxCrashes = 0
    MayTimeOut = FALSE
    CompleteWhen = {"pending", "failed"}
INVARIANTS
    OneRunOfChunks
