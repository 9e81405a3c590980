SPECIFICATION FairSpec
CONSTANTS
    Jobs = {j1, j2, j3}
    NoJob = NoJob
    Prompts = {p, q}
    Stale = 1
    Deadline = 1
    Modes = {"job", "inline"}
INVARIANTS
    ResultInvariant
    SingleRunner
    RunnerHoldsRow
    CompletedIsWhole
    QueuedIsNotSkipped
PROPERTIES
    PublishedIsKept
    ImplementsSlot
    Recoverable
